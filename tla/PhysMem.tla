------------------------------- MODULE PhysMem -------------------------------
(***************************************************************************)
(* The physical memory manager, kernel/arch/x64/mem.c.                     *)
(*                                                                         *)
(* Free 4 KiB frames form a linked list that lives in the free frames      *)
(* themselves: the first 64-bit word of a free frame (struct frame_marker) *)
(* is the address of the next one.  first_page_frame is the head, and      *)
(* n_free_page_frames counts the list.  A frame that is handed out is the  *)
(* client's to fill, marker word included; nothing clears it, neither when *)
(* it is handed out nor when it comes back.                                *)
(*                                                                         *)
(* A physical address is the number of its 4 KiB page; NULL is page 0.  A  *)
(* 64-bit word of memory is a pair: the page its bits 12-51 name, and the  *)
(* set of low bits that are set in it.  A pointer to a frame is page       *)
(* aligned, so it has no low bit; the paging structures use those bits.    *)
(***************************************************************************)
EXTENDS Integers, Sequences, FiniteSets

CONSTANTS
  Page,        \* numbers of the physical pages of the machine
  Index,       \* positions of the 64-bit words of a page (0 .. 511)
  Flag,        \* the low bits of a word that mean something
  Memmap,      \* Limine's memory map: sequence of [base, length, type], in pages
  RamImage,    \* what the physical pages may hold when the kernel starts
  StoreImage,  \* what a client leaves in a frame it writes
  INT_MAX,     \* 2^31 - 1: find_free_frames returns its count as an int
  ULONG_MAX    \* 2^64 - 1: n_free_page_frames is an unsigned long

NULL == 0

Word == [addr : Page, bits : SUBSET Flag]

(* The word that holds the address of page p, or of nothing: NULL is zero. *)
Pointer(p) == [addr |-> p, bits |-> {}]

PagesOf(e) == Memmap[e].base .. Memmap[e].base + Memmap[e].length - 1

UsableEntry == {e \in DOMAIN Memmap : Memmap[e].type = "USABLE"}

(* Every frame that can ever be on the list. *)
Frame == UNION {PagesOf(e) : e \in UsableEntry}

ASSUME PageAssumption ==
  /\ IsFiniteSet(Page)
  /\ Page \subseteq Nat
  /\ NULL \in Page
  /\ 0 \in Index
  /\ RamImage \subseteq [Page -> [Index -> Word]]
  /\ StoreImage \subseteq [Index -> Word]

(* What the Limine protocol promises of the map: usable entries are made   *)
(* of whole pages, do not overlap, and never contain the page at address 0.*)
ASSUME MemmapAssumption ==
  /\ Memmap \in Seq([base : Nat, length : Nat, type : STRING])
  /\ Frame \subseteq Page \ {NULL}
  /\ \A d, e \in UsableEntry : d # e => PagesOf(d) \cap PagesOf(e) = {}

(* The number of values of an int, 2^32. *)
IntRange == 2 * (INT_MAX + 1)

(* An unsigned long has the bits of an int and more, and is as wide as an  *)
(* address: it can count the frames of any machine.                        *)
ASSUME WidthAssumption ==
  /\ INT_MAX \in Nat
  /\ ULONG_MAX \in Nat
  /\ (ULONG_MAX + 1) % IntRange = 0
  /\ Cardinality(Frame) <= ULONG_MAX

VARIABLES
  mem,                 \* the words of every physical page
  first_page_frame,    \* head of the list of free frames
  n_free_page_frames,  \* the kernel's count of them
  phase,               \* how far mem_init is, or which ASSERT stopped the CPU
  entry,               \* find_free_frames: index into the memory map (i)
  b_offset,            \* find_free_frames: offset in the entry, in pages
  ret,                 \* find_free_frames: frames pushed so far
  held,                \* frames handed out and not given back (the clients')
  block                \* what get_phys_block returned last

scanVars == <<entry, b_offset, ret>>
memVars == <<mem, first_page_frame, n_free_page_frames, phase, scanVars, held, block>>

(* The two ASSERTs end in "for (;;);": nothing runs any more. *)
Halted == {"no_memmap", "exhausted"}

-----------------------------------------------------------------------------
(***************************************************************************)
(* C arithmetic.                                                           *)
(***************************************************************************)

(* unsigned long -> int -> unsigned long, as "return ret" in a function of *)
(* type int and the assignment of its result do.                           *)
ThroughInt_Saturated(n) == IF n <= INT_MAX THEN n ELSE INT_MAX
ThroughInt(n) ==
  LET int == ((n + INT_MAX + 1) % IntRange) - (INT_MAX + 1)
  IN  int % (ULONG_MAX + 1)

Incremented(n) == IF n = ULONG_MAX THEN 0 ELSE n + 1
Decremented(n) == IF n = 0 THEN ULONG_MAX ELSE n - 1

-----------------------------------------------------------------------------
(***************************************************************************)
(* The list operations.  A definition whose name has an underscore and a   *)
(* word after it, such as Push_Unlinked, is the one it is named after with *)
(* a plausible mistake in it, to see that a property notices; no           *)
(* specification uses it.                                                  *)
(***************************************************************************)

Marker(f) == mem[f][0].addr

SetMarker(f, next) == mem' = [mem EXCEPT ![f][0] = Pointer(next)]

(* The address of the head goes into frame b, which becomes the head. *)
Push_Unlinked(b) == SetMarker(b, NULL) /\ first_page_frame' = b
Push_Swapped(b) == SetMarker(b, b) /\ first_page_frame' = b
Push(b) == SetMarker(b, first_page_frame) /\ first_page_frame' = b

(* The condition of the ASSERT in get_phys_block, and the new head. *)
BlockLeft_Unchecked == TRUE
BlockLeft == first_page_frame # NULL
SecondFrame_First == first_page_frame
SecondFrame_NextWord == mem[first_page_frame][1].addr
SecondFrame == Marker(first_page_frame)

(* get_phys_block: unlinks and returns the head. *)
GetPhysBlock ==
  /\ phase = "up"
  /\ BlockLeft
  /\ block' = first_page_frame
  /\ held' = held \cup {first_page_frame}
  /\ first_page_frame' = SecondFrame
  /\ n_free_page_frames' = Decremented(n_free_page_frames)
  /\ UNCHANGED <<mem, phase, scanVars>>

(* get_phys_block on an empty list: ASSERT(ret != NULL) stops the CPU. *)
GetPhysBlockFails ==
  /\ phase = "up"
  /\ ~ BlockLeft
  /\ phase' = "exhausted"
  /\ UNCHANGED <<mem, first_page_frame, n_free_page_frames, scanVars, held, block>>

(* put_phys_block: the frame becomes the head, whatever frame it is; the   *)
(* code does not look.                                                     *)
PutPhysBlock(b) ==
  /\ phase = "up"
  /\ Push(b)
  /\ n_free_page_frames' = Incremented(n_free_page_frames)
  /\ held' = held \ {b}
  /\ UNCHANGED <<phase, scanVars, block>>

-----------------------------------------------------------------------------
(***************************************************************************)
(* mem_init, up to the call of setup_kernel_map: find_free_frames walks    *)
(* the memory map and pushes each usable page.                             *)
(***************************************************************************)

(* mem_init empties the list; the bootloader may not have answered. *)
MemInit(answered) ==
  /\ phase = "boot"
  /\ first_page_frame' = NULL
  /\ phase' = IF answered THEN "scan" ELSE "no_memmap"
  /\ UNCHANGED <<mem, n_free_page_frames, scanVars, held, block>>

Scanning == phase = "scan" /\ entry <= Len(Memmap)

(* One page of a usable entry. *)
PushFrame ==
  /\ Scanning
  /\ entry \in UsableEntry
  /\ b_offset < Memmap[entry].length
  /\ Push(Memmap[entry].base + b_offset)
  /\ ret' = Incremented(ret)
  /\ b_offset' = b_offset + 1
  /\ UNCHANGED <<n_free_page_frames, phase, entry, held, block>>

NextEntry ==
  /\ Scanning
  /\ entry \notin UsableEntry \/ b_offset >= Memmap[entry].length
  /\ entry' = entry + 1
  /\ b_offset' = 0
  /\ UNCHANGED <<mem, first_page_frame, n_free_page_frames, phase, ret, held, block>>

ScanDone ==
  /\ phase = "scan"
  /\ entry = Len(Memmap) + 1
  /\ n_free_page_frames' = ThroughInt(ret)
  /\ phase' = "up"
  /\ UNCHANGED <<mem, first_page_frame, scanVars, held, block>>

-----------------------------------------------------------------------------
(* A client writes into a frame it holds. *)
Store(b, contents) ==
  /\ phase = "up"
  /\ b \in held
  /\ mem' = [mem EXCEPT ![b] = contents]
  /\ UNCHANGED <<first_page_frame, n_free_page_frames, phase, scanVars, held, block>>

MemStart ==
  /\ mem \in RamImage
  /\ first_page_frame = NULL
  /\ n_free_page_frames = 0
  /\ phase = "boot"
  /\ entry = 1
  /\ b_offset = 0
  /\ ret = 0
  /\ held = {}
  /\ block = NULL

(* mem_init as the kernel runs it, before anybody can allocate. *)
Scan ==
  \/ \E answered \in BOOLEAN : MemInit(answered)
  \/ PushFrame
  \/ NextEntry
  \/ ScanDone

(* The clients' side of the contract: a frame is given back, and written,  *)
(* by who holds it.                                                        *)
MemNext ==
  \/ Scan
  \/ GetPhysBlock
  \/ GetPhysBlockFails
  \/ \E b \in held : PutPhysBlock(b)
  \/ \E b \in held, contents \in StoreImage : Store(b, contents)

MemSpec == MemStart /\ [][MemNext]_memVars

-----------------------------------------------------------------------------
(***************************************************************************)
(* Properties.                                                             *)
(***************************************************************************)

MemTypeOK ==
  /\ mem \in [Page -> [Index -> Word]]
  /\ first_page_frame \in Page
  /\ n_free_page_frames \in 0 .. ULONG_MAX
  /\ phase \in {"boot", "scan", "up"} \cup Halted
  /\ entry \in 1 .. Len(Memmap) + 1
  /\ b_offset \in Nat
  /\ ret \in 0 .. ULONG_MAX
  /\ held \subseteq Frame
  /\ block \in Page

(* The frames that find_free_frames has pushed so far. *)
Added ==
  {f \in Frame :
     \/ \E e \in UsableEntry : e < entry /\ f \in PagesOf(e)
     \/ /\ entry \in UsableEntry
        /\ f \in Memmap[entry].base .. Memmap[entry].base + b_offset - 1}

FreeSet == Added \ held

(* The list s, headed by first_page_frame and ended by NULL, is in memory. *)
ListInMemory(s, n) ==
  /\ first_page_frame = IF n = 0 THEN NULL ELSE s[1]
  /\ \A k \in 1 .. n : mem[s[k]][0] = Pointer(IF k = n THEN NULL ELSE s[k + 1])

(* s names each frame of S exactly once. *)
Enumerates(s, n, S) ==
  /\ \A f \in S : \E k \in 1 .. n : s[k] = f
  /\ \A j, k \in 1 .. n : s[j] = s[k] => j = k

(* The marker words of the free frames form one NULL-terminated list,      *)
(* headed by first_page_frame, that visits every frame nobody holds        *)
(* exactly once and no other: no sequence of mem.c's operations, whatever  *)
(* the clients write into their frames, loses a frame or lists one twice.  *)
FreeListIntact ==
  LET n == Cardinality(FreeSet)
  IN  \E s \in [1 .. n -> FreeSet] : ListInMemory(s, n) /\ Enumerates(s, n, FreeSet)

(* The ASSERT of get_phys_block fires only when the clients hold every     *)
(* usable frame of the machine: the allocator never runs dry early.        *)
ExhaustedOnlyWhenAllHeld == phase = "exhausted" => held = Frame

(* mem.h says of mem_init that "On success, returns the number of blocks   *)
(* found that are usable right now".  What it returns has been an int on   *)
(* the way, so on a machine with 2^31 frames or more, 8 TiB of RAM, it is  *)
(* not that number.  It is off by a multiple of 2^32, and stays so however *)
(* often the count runs through zero or the end of an unsigned long: no    *)
(* order of scanning, taking and giving back loses count of a single frame.*)
CountCongruent ==
  phase \in {"up", "exhausted"} =>
     n_free_page_frames % IntRange = Cardinality(FreeSet) % IntRange

(* With few enough frames for the int, the count is exact (CountCorrect).  *)
CountFits == Cardinality(Frame) <= INT_MAX

(* The linked list implements the pool of frames that mem.h describes: a   *)
(* frame get_phys_block returns is one nobody holds.                       *)
Pool == INSTANCE FramePool WITH free <- FreeSet, NoBlock <- NULL

PoolSpec == Pool!Spec
==============================================================================
