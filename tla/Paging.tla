------------------------------- MODULE Paging -------------------------------
(***************************************************************************)
(* map_page_specific_pml4, kernel/arch/x64/paging.c, on the frames of      *)
(* mem.c, while physical memory is mapped at its own addresses (mem_init,  *)
(* before paging_init loads the kernel's own structures).                  *)
(*                                                                         *)
(* A paging structure is a frame of 512 entries.  Four levels of them, from*)
(* the pml4 down, translate a virtual page; the four indices that          *)
(* EXTRACT_PML4_INDEX .. EXTRACT_PT_INDEX take from its address name it    *)
(* here.  Bits 12-51 of an entry (PSE_PTR) are the addr of a word of mem.  *)
(*                                                                         *)
(* The callers that need an address space take a frame for its pml4 from   *)
(* get_phys_block and pass it on as it comes: whatever the frame held is   *)
(* the first pml4 of that space.  map_page_specific_pml4 zeroes only the   *)
(* structures it allocates itself.                                         *)
(***************************************************************************)
EXTENDS PhysMem

CONSTANTS
  Request,     \* the calls explored: [vaddr, paddr, flags]
  RootsClean   \* TRUE: no present entry in the frames that become a pml4

PRESENT == "P"      \* PSE_PRESENT
Levels == 1 .. 4    \* 1 the pml4, 2 a pdpt, 3 a pdt, 4 a page table
VPage == [Levels -> Index]

ASSUME PagingAssumption ==
  /\ PRESENT \in Flag
  /\ Request \subseteq [vaddr : VPage, paddr : Page, flags : SUBSET Flag]
  /\ RootsClean \in BOOLEAN

VARIABLES
  spaces,   \* the frames that callers use as a pml4
  data,     \* the frames that callers use for anything else
  call,     \* arguments of the call under way, or NoCall
  pc,       \* where it is: testing an entry, or having got a block for one
  level,    \* the level of the entry it is at
  table     \* the structure that holds the entry

callerVars == <<spaces, data>>
walkVars == <<call, pc, level, table>>
pagingVars == <<memVars, callerVars, walkVars>>

NoCall == [root |-> NULL]
Call == {[root |-> r, vaddr |-> q.vaddr, paddr |-> q.paddr, flags |-> q.flags] :
           r \in Page, q \in Request}

Present(word) == PRESENT \in word.bits

(* *pml4_e, *pdpt_e, *pdt_e or *pt_e. *)
Slot == call.vaddr[level]
Entry == mem[table][Slot]

(* The entry that names addr, with the rights asked for. *)
Pointing(addr) == [addr |-> addr, bits |-> {PRESENT} \cup call.flags]

(* The entry is set; whether it was present is for the caller to test. *)
SetEntry_NotPresent(addr) ==
  mem' = [mem EXCEPT ![table][Slot] = [addr |-> addr, bits |-> call.flags]]
SetEntry_KeepsOld(addr) ==
  mem' = IF Present(Entry) THEN mem ELSE [mem EXCEPT ![table][Slot] = Pointing(addr)]
SetEntry(addr) == mem' = [mem EXCEPT ![table][Slot] = Pointing(addr)]

(* The test of *pml4_e, *pdpt_e and *pdt_e; what zero_paging_structure     *)
(* leaves; the level the walk starts at.                                   *)
EntryPresent_Untested == TRUE
EntryPresent == Present(Entry)
Zeroed_OneEntry == [mem[block] EXCEPT ![0] = Pointer(NULL)]
Zeroed == [j \in Index |-> Pointer(NULL)]
FirstLevel_OffByOne == 0
FirstLevel == 1

-----------------------------------------------------------------------------
(***************************************************************************)
(* The callers.                                                            *)
(***************************************************************************)

Idle == pc = "idle" /\ phase = "up"

(* A frame for a new pml4, as mem.c, proc.c and scheduler.c take it. *)
NewSpace ==
  /\ Idle
  /\ GetPhysBlock
  /\ RootsClean => \A j \in Index : ~ Present(mem[first_page_frame][j])
  /\ spaces' = spaces \cup {first_page_frame}
  /\ UNCHANGED <<data, walkVars>>

(* A frame for a stack, or anything that is not a paging structure. *)
GetDataBlock ==
  /\ Idle
  /\ GetPhysBlock
  /\ data' = data \cup {first_page_frame}
  /\ UNCHANGED <<spaces, walkVars>>

(* The ASSERT of get_phys_block stops a caller that finds no frame left. *)
CallerFails ==
  /\ Idle
  /\ GetPhysBlockFails
  /\ UNCHANGED <<callerVars, walkVars>>

StoreData ==
  /\ Idle
  /\ \E b \in data, contents \in StoreImage : Store(b, contents)
  /\ UNCHANGED <<callerVars, walkVars>>

(* The call of map_page_specific_pml4, with its arguments; map_page passes *)
(* the space that CR3 holds. *)
MapCall(pml4_addr, paddr, vaddr, flags) ==
  /\ Idle
  /\ call' = [root |-> pml4_addr, vaddr |-> vaddr, paddr |-> paddr, flags |-> flags]
  /\ table' = pml4_addr
  /\ level' = FirstLevel
  /\ pc' = "test"

MapPage ==
  /\ \E r \in spaces, q \in Request : MapCall(r, q.paddr, q.vaddr, q.flags)
  /\ UNCHANGED <<memVars, callerVars>>

-----------------------------------------------------------------------------
(***************************************************************************)
(* map_page_specific_pml4.                                                 *)
(***************************************************************************)

Descend_Widens ==
  /\ pc = "test"
  /\ level < 4
  /\ EntryPresent
  /\ mem' = [mem EXCEPT ![table][Slot].bits = @ \cup call.flags]
  /\ table' = Entry.addr
  /\ level' = level + 1
  /\ UNCHANGED <<first_page_frame, n_free_page_frames, phase, scanVars, held, block>>
  /\ UNCHANGED <<callerVars, call, pc>>

(* The entry is present: on to the structure it points to. *)
Descend ==
  /\ pc = "test"
  /\ level < 4
  /\ EntryPresent
  /\ table' = Entry.addr
  /\ level' = level + 1
  /\ UNCHANGED <<memVars, callerVars, call, pc>>

(* It is not: a block for the missing structure ... *)
AllocTable ==
  /\ pc = "test"
  /\ level < 4
  /\ ~ EntryPresent
  /\ GetPhysBlock
  /\ pc' = "zero"
  /\ UNCHANGED <<callerVars, call, level, table>>

(* ... or none is left, and its ASSERT stops the CPU inside the call ... *)
AllocFails ==
  /\ pc = "test"
  /\ level < 4
  /\ ~ EntryPresent
  /\ GetPhysBlockFails
  /\ UNCHANGED <<callerVars, walkVars>>

(* ... then zero_paging_structure ... *)
ZeroTable ==
  /\ pc = "zero"
  /\ mem' = [mem EXCEPT ![block] = Zeroed]
  /\ pc' = "link"
  /\ UNCHANGED <<first_page_frame, n_free_page_frames, phase, scanVars, held, block>>
  /\ UNCHANGED <<callerVars, call, level, table>>

(* ... and the entry is made to point to it. *)
LinkTable ==
  /\ pc = "link"
  /\ SetEntry(block)
  /\ pc' = "test"
  /\ UNCHANGED <<first_page_frame, n_free_page_frames, phase, scanVars, held, block>>
  /\ UNCHANGED <<callerVars, call, level, table>>

(* The entry of the page table, present or not, is overwritten. *)
WriteEntry ==
  /\ pc = "test"
  /\ level = 4
  /\ SetEntry(call.paddr)
  /\ call' = NoCall
  /\ pc' = "idle"
  /\ UNCHANGED <<first_page_frame, n_free_page_frames, phase, scanVars, held, block>>
  /\ UNCHANGED <<callerVars, level, table>>

MapStep ==
  \/ Descend
  \/ AllocTable
  \/ AllocFails
  \/ ZeroTable
  \/ LinkTable
  \/ WriteEntry

PagingStart ==
  /\ MemStart
  /\ spaces = {}
  /\ data = {}
  /\ call = NoCall
  /\ pc = "idle"
  /\ level = 1
  /\ table = NULL

PagingNext ==
  \/ Scan /\ UNCHANGED <<callerVars, walkVars>>
  \/ NewSpace
  \/ GetDataBlock
  \/ StoreData
  \/ CallerFails
  \/ MapPage
  \/ MapStep

PagingSpec == PagingStart /\ [][PagingNext]_pagingVars

-----------------------------------------------------------------------------
(***************************************************************************)
(* Properties.                                                             *)
(***************************************************************************)

PagingTypeOK ==
  /\ MemTypeOK
  /\ spaces \subseteq Frame
  /\ data \subseteq Frame
  /\ call \in Call \cup {NoCall}
  /\ pc \in {"idle", "test", "zero", "link"}
  /\ level \in Levels
  /\ table \in Page

(* The present entries of the structures S, and the structures they point  *)
(* to: from the pml4 tables down, those of one level after the other.      *)
Pointers(S) == {e \in S \X Index : Present(mem[e[1]][e[2]])}
PointedAt(S) == {mem[e[1]][e[2]].addr : e \in Pointers(S)}
Pdpts == PointedAt(spaces)
Pdts == PointedAt(Pdpts)
PageTables == PointedAt(Pdts)

(* The block get_phys_block returned for a structure not linked yet. *)
InFlight == IF pc \in {"zero", "link"} THEN {block} ELSE {}

(* Every frame handed out is exactly one thing: a pml4, a structure of one *)
(* level, the block on its way to become one, or a caller's data.  So no   *)
(* structure doubles as data or as a structure of another level, a free    *)
(* frame is never walked, and map_page_specific_pml4 leaks no block.       *)
FramesAccounted ==
  LET parts == <<spaces, Pdpts, Pdts, PageTables, InFlight, data>>
  IN  /\ held = UNION {parts[k] : k \in DOMAIN parts}
      /\ \A j, k \in DOMAIN parts : j # k => parts[j] \cap parts[k] = {}

(* Two entries never point at the same structure: no mapping made in one   *)
(* address space, or under one index, appears under another.               *)
StructuresPrivate ==
  LET pointers == Pointers(spaces \cup Pdpts \cup Pdts)
  IN  \A d, e \in pointers : mem[d[1]][d[2]].addr = mem[e[1]][e[2]].addr => d = e

(* The comment on map_page_specific_pml4 says of an entry that is not      *)
(* present that "it's not pointing to any paging structure", and of the    *)
(* others that the process repeats "with the table pointed to by the       *)
(* current entry": what it walks and writes is a paging structure.         *)
WalksStructuresOnly == pc # "idle" => table \in held \ data

(* map_page is this call with the space in CR3 for its root, and it leaves *)
(* the TLB alone.  The MMU may have cached any present entry: none above   *)
(* the page tables ever changes again, so that a call can only make stale  *)
(* what was cached for the very page it maps anew (see MapsAsAsked).       *)
CachedEntriesHold ==
  [][\A s \in spaces \cup Pdpts \cup Pdts, j \in Index :
       Present(mem[s][j]) => mem'[s][j] = mem[s][j]]_pagingVars

(* The walk of the free list that get_phys_block would do, call after call,*)
(* visits every free frame and ends in NULL: no structure that is built,   *)
(* and no entry written, lands in a frame that is on the list.             *)
FreeListWalk ==
  phase \in {"up", "exhausted"} =>
    LET visit[k \in 0 .. n_free_page_frames] ==
          IF k = 0 THEN first_page_frame ELSE mem[visit[k - 1]][0].addr
    IN  /\ {visit[k] : k \in 0 .. n_free_page_frames} = FreeSet \cup {NULL}
        /\ n_free_page_frames = Cardinality(FreeSet)

-----------------------------------------------------------------------------
(* What the MMU makes of a page: the address in the last entry, and the    *)
(* rights that every entry on the way grants.                              *)
Unmapped == [bits |-> {}]

Translation(root, v) ==
  LET e1 == mem[root][v[1]]
      e2 == mem[e1.addr][v[2]]
      e3 == mem[e2.addr][v[3]]
      e4 == mem[e3.addr][v[4]]
  IN  IF Present(e1) /\ Present(e2) /\ Present(e3) /\ Present(e4)
      THEN [addr |-> e4.addr, bits |-> e1.bits \cap e2.bits \cap e3.bits \cap e4.bits]
      ELSE Unmapped

(* Seen through the MMU, the structures implement the address spaces: a    *)
(* new space maps nothing, and a call changes the page it names and no     *)
(* other page of any space, at its last write, whatever structures it had  *)
(* to add on the way and whatever the frames for them held.                *)
Spaces == INSTANCE AddressSpace WITH
  Space <- Page,
  Right <- Flag,
  Request <- Call,
  translation <- [r \in spaces |-> [v \in VPage |-> Translation(r, v)]]

MapsAsAsked == Spaces!Spec
==============================================================================
