----------------------------- MODULE Structures -----------------------------
(***************************************************************************)
(* The encodings of kernel/arch/x64/structures.h that the interrupt code   *)
(* relies on, and how the CPU reads them.                                  *)
(*                                                                         *)
(* A number is the set of its bits that are 1: x | y is a union, x & mask  *)
(* keeps the bits of the mask, 64 bits are a subset of 0 .. 63, and what   *)
(* does not fit a field is cut off.  {} is 0, {0} is 1, {0, 1} is 3.       *)
(***************************************************************************)
EXTENDS Integers

Low(x, n) == {b \in x : b < n}                       \* the n lowest bits
Shl(x, n) == {b + n : b \in x}                       \* x << n
Shr(x, n) == {b - n : b \in {c \in x : c >= n}}      \* x >> n

Ring0 == {}
Ring3 == {0, 1}

-----------------------------------------------------------------------------
(* Segment selectors. *)
INIT_SEGMENT_SELECTOR(rpl, table_index, index) ==
  Low(Low(rpl, 2) \cup Shl(Low(table_index, 1), 2) \cup Shl(index, 3), 16)
SEGMENT_SELECTOR_RPL(selector) == Low(selector, 2)
SEGMENT_SELECTOR_TABLE_INDEX(selector) == Low(Shr(selector, 2), 1)
SEGMENT_SELECTOR_INDEX(selector) == Shr(selector, 3)

(* Segment descriptors.  Base and limit are 0 in every use, and mean       *)
(* nothing in 64-bit mode.                                                 *)
SEG_AB_RW == {1}
SEG_AB_EXEC == {3}
SEG_AB_CODE_DATA == {4}
SEG_AB_DPL(n) == Shl(Low(n, 2), 5)
SEG_AB_PRESENT == {7}
SEG_FLAG_LONG == {1}
SEG_FLAG_4K_BLOCKS == {3}

INIT_SEG_DESCRIPTOR(access, flags) ==
  [access_byte |-> Low(access, 8), flags |-> Shl(Low(flags, 4), 4)]

(* Attributes of an interrupt gate, and the gate: the address of the       *)
(* handler goes into three fields.                                         *)
IDT_ATTRIBUTES_TYPE_INTERRUPT == {1, 2, 3}
IDT_ATTRIBUTES_TYPE_TRAP == {0, 1, 2, 3}

INIT_IDT_ATTRIBUTES(dpl, type, ist) ==
  {15} \cup Low(ist, 3) \cup Shl(Low(type, 4), 8) \cup Shl(Low(dpl, 2), 13)
IDT_ATTRIBUTES_TYPE(attributes) == Low(Shr(attributes, 8), 4)
IDT_ATTRIBUTES_DPL(attributes) == Low(Shr(attributes, 13), 2)
IDT_ATTRIBUTES_PRESENT(attributes) == 15 \in attributes

IdtField == {"offset_a", "segment_selector", "attributes", "offset_b", "offset_c"}
INIT_IDT_ENTRY_SwappedHalves(seg, attr, offset64) ==
  [offset_a |-> Low(Shr(offset64, 16), 16), segment_selector |-> seg, attributes |-> attr,
   offset_b |-> Low(offset64, 16), offset_c |-> Low(Shr(offset64, 32), 32)]
INIT_IDT_ENTRY(seg, attr, offset64) ==
  [offset_a |-> Low(offset64, 16), segment_selector |-> seg, attributes |-> attr,
   offset_b |-> Low(Shr(offset64, 16), 16), offset_c |-> Low(Shr(offset64, 32), 32)]

-----------------------------------------------------------------------------
(* External: what the CPU makes of them. *)
LongCode(d) ==
  /\ SEG_AB_PRESENT \cup SEG_AB_CODE_DATA \cup SEG_AB_EXEC \subseteq d.access_byte
  /\ 5 \in d.flags /\ 6 \notin d.flags
WriteableData(d) ==
  /\ SEG_AB_PRESENT \cup SEG_AB_CODE_DATA \cup SEG_AB_RW \subseteq d.access_byte
  /\ 3 \notin d.access_byte
SegmentDpl(d) == Low(Shr(d.access_byte, 5), 2)

GateTarget(e) == e.offset_a \cup Shl(e.offset_b, 16) \cup Shl(e.offset_c, 32)
==============================================================================
