------------------------------ MODULE BootProofs ------------------------------
(***************************************************************************)
(* Proofs about the kernel's own address space, for every memory map, every*)
(* place of the kernel, and whatever RAM holds: what setup_kernel_map has  *)
(* mapped when paging_init loads CR3, and in how many frames.              *)
(***************************************************************************)
EXTENDS Boot, AddressSpaceProofs, FunctionTheorems, SequenceTheorems

-----------------------------------------------------------------------------
(***************************************************************************)
(* Addresses.                                                              *)
(***************************************************************************)

LEMMA Divided ==
  ASSUME NEW v \in Nat, NEW d \in Nat \ {0}
  PROVE  v \div d \in Nat /\ v % d \in 0 .. d - 1 /\ v = d * (v \div d) + (v % d)
<1>1. v \div d \in Int
  OBVIOUS
<1>2. v % d \in 0 .. d - 1
  OBVIOUS
<1>3. v = d * (v \div d) + (v % d)
  OBVIOUS
<1>4. v \div d >= 0
  OBVIOUS
<1> QED
  BY <1>1, <1>2, <1>3, <1>4

LEMMA DividedBound ==
  ASSUME NEW a \in Nat, NEW d \in Nat \ {0}, NEW v \in Nat, v < a * d
  PROVE  v \div d \in 0 .. a - 1
<1>1. PICK q : q = v \div d
  OBVIOUS
<1>2. PICK r : r = v % d
  OBVIOUS
<1>3. q \in Nat /\ r \in 0 .. d - 1 /\ v = d * q + r
  BY <1>1, <1>2, Divided
<1>4. q < a
  <2>1. CASE q >= a
    <3>1. d * q >= d * a
      BY <2>1, <1>3
    <3>2. d * a = a * d
      OBVIOUS
    <3> QED
      BY <3>1, <3>2, <1>3
  <2> QED
    BY <2>1, <1>3
<1> QED
  BY <1>1, <1>3, <1>4

(* The indices taken from any sum of addresses, wrapped or not, are those  *)
(* of entries that exist.                                                  *)
LEMMA ExtractPage ==
  ASSUME NEW p \in Nat
  PROVE  Extract(p) \in VPage
<1>1. PICK n \in Nat : n = NIndex /\ n > 0
  BY BootAssumption, PageAssumption
<1>2. n * n \in Nat \ {0}
  BY <1>1
<1>3. n * n * n \in Nat \ {0}
  BY <1>1, <1>2
<1>4. n * n * n * n \in Nat \ {0}
  BY <1>1, <1>3
<1>5. PICK v \in Nat : v = p % VirtualPages /\ v < n * (n * n * n)
  <2>1. VirtualPages = n * n * n * n
    BY <1>1 DEF VirtualPages
  <2>2. p % VirtualPages \in 0 .. VirtualPages - 1
    BY <1>4, <2>1, Divided
  <2>3. n * n * n * n = n * (n * n * n)
    BY <1>1, <1>3
  <2> QED
    BY <1>4, <2>1, <2>2, <2>3
<1>6. v \div (n * n * n) \in 0 .. n - 1
  BY <1>1, <1>3, <1>5, DividedBound
<1>7. \A u \in Nat : u % n \in 0 .. n - 1
  BY <1>1, Divided
<1>8. (v \div (n * n)) % n \in 0 .. n - 1 /\ (v \div n) % n \in 0 .. n - 1 /\ v % n \in 0 .. n - 1
  BY <1>1, <1>2, <1>7, Divided
<1>9. Index = 0 .. n - 1
  BY <1>1, BootAssumption
<1> QED
  BY <1>1, <1>5, <1>6, <1>8, <1>9 DEF Extract, VPage, Levels

LEMMA MapEntryFacts ==
  ASSUME NEW e \in DOMAIN Memmap
  PROVE  /\ e \in Nat /\ e <= Len(Memmap) /\ Len(Memmap) \in Nat
         /\ Memmap[e].base \in Nat /\ Memmap[e].length \in Nat /\ ModuleOffset(e) \in Nat
BY MemmapFacts DEF ModuleOffset

-----------------------------------------------------------------------------
(***************************************************************************)
(* Where _start is.                                                        *)
(***************************************************************************)

Rights == {WRITEABLE, USER_MODE}

Filling == at \in {"map_kernel", "map_hhdm"}
Loaded == at \in {"kernel_map", "page_fault", "start_modules"}

BootControl ==
  /\ at = "mem_init" \/ Filling \/ Loaded
  /\ at = "mem_init" => spaces = {} /\ map_entry = 1 /\ map_offset = 0
  /\ at # "mem_init" => spaces = {kernel_pml4_table}
  /\ at # "start_modules" => data = {}
  /\ pc # "idle" => Filling /\ call.root = kernel_pml4_table /\ call.flags = Rights
  /\ map_offset \in Nat /\ map_entry \in Nat /\ 1 <= map_entry
  /\ at = "map_kernel" => /\ map_entry \in KernelEntry => map_offset <= Memmap[map_entry].length
                          /\ map_entry = 1 \/ map_entry <= Len(Memmap)
  /\ at = "map_hhdm" => map_offset <= HhdmPages
  /\ cr3 = IF Loaded THEN kernel_pml4_table ELSE NULL
  /\ Loaded => map_offset = HhdmPages

(* The first get_phys_block of _start may take a next_frame from anywhere, *)
(* under the new map: the free list is intact until then only.             *)
BootInv ==
  /\ BootControl
  /\ at # "start_modules" => PagingInv
  /\ at = "start_modules" => FramesAccounted /\ phase # "exhausted"

-----------------------------------------------------------------------------
(***************************************************************************)
(* The frames, action by action.                                           *)
(***************************************************************************)

LEMMA BootStartInv == BootStart => BootInv
<1> SUFFICES ASSUME BootStart PROVE BootInv
  OBVIOUS
<1>1. /\ PagingInv /\ pc = "idle" /\ spaces = {} /\ data = {} /\ at = "mem_init"
      /\ map_entry = 1 /\ map_offset = 0 /\ cr3 = NULL
  BY PagingStartInv DEF BootStart, PagingStart
<1> QED
  BY <1>1 DEF BootInv, BootControl, Filling, Loaded

LEMMA ScanBoot ==
  ASSUME BootInv, MemInitStep
  PROVE  BootInv' /\ spaces' = {} /\ at' = "mem_init" /\ pc' = pc /\ pc = "idle"
<1>1. /\ at = "mem_init" /\ UNCHANGED <<callerVars, walkVars, bootVars>> /\ Scan
  BY DEF MemInitStep
<1>2. PagingInv' /\ spaces = {} /\ pc = "idle"
  BY <1>1, ScanStep DEF BootInv, BootControl, Filling
<1> QED
  BY <1>1, <1>2
     DEF BootInv, BootControl, Filling, Loaded, bootVars, setupVars, callerVars, walkVars,
         KernelEntry

(* kernel_pml4_table = get_phys_block().                                   *)
LEMMA StartKernelMapBoot ==
  ASSUME RootsClean, BootInv, StartKernelMap
  PROVE  /\ BootInv' /\ at' = "map_kernel" /\ pc' = "idle" /\ mem' = mem
         /\ spaces = {} /\ spaces' = {kernel_pml4_table'}
         /\ kernel_pml4_table' \in Page /\ Clean(mem, kernel_pml4_table')
         /\ map_entry' = 1 /\ map_offset' = 0
<1>1. /\ at = "mem_init" /\ at' = "map_kernel" /\ NewSpace
      /\ kernel_pml4_table' = first_page_frame
      /\ UNCHANGED <<map_entry, map_offset, cr3, kernel_base>>
      /\ PagingInv
  BY DEF StartKernelMap, setupVars, BootInv
<1>2. PagingInv'
  BY <1>1, NewSpaceStep
<1>3. /\ pc = "idle" /\ pc' = pc /\ mem' = mem /\ data' = data /\ first_page_frame \in Page
      /\ Clean(mem, first_page_frame) /\ spaces' = spaces \cup {first_page_frame}
  BY <1>1, Handed DEF NewSpace, Idle, walkVars, Clean
<1>4. spaces = {} /\ map_entry = 1 /\ map_offset = 0 /\ cr3 = NULL /\ data = {}
  BY <1>1 DEF BootInv, BootControl, Loaded
<1>5. 1 \in KernelEntry' => Memmap[1].length >= 0
  BY MapEntryFacts DEF KernelEntry
<1> QED
  BY <1>1, <1>2, <1>3, <1>4, <1>5 DEF BootInv, BootControl, Filling, Loaded, KernelEntry

(* The call of a loop turn. *)
LEMMA MapNowStep ==
  ASSUME BootInv, Filling, NEW p \in Page, NEW v \in Nat, MapNow(p, v)
  PROVE  /\ PagingInv' /\ Kept /\ pc = "idle" /\ pc' = "test"
         /\ mem' = mem /\ spaces' = spaces /\ data' = data
         /\ call' = [root |-> kernel_pml4_table, vaddr |-> Extract(v), paddr |-> p, flags |-> Rights]
         /\ map_offset' = map_offset + 1
         /\ UNCHANGED <<kernel_base, at, map_entry, kernel_pml4_table, cr3>>
<1>1. /\ MapCall(kernel_pml4_table, p, Extract(v), Rights) /\ UNCHANGED <<memVars, callerVars>>
      /\ map_offset' = map_offset + 1
      /\ UNCHANGED <<kernel_base, at, map_entry, kernel_pml4_table, cr3>>
  BY DEF MapNow, Rights
<1>2. PagingInv /\ kernel_pml4_table \in spaces
  BY DEF BootInv, BootControl, Filling
<1>3. Rights \in SUBSET Flag
  BY BootAssumption DEF Rights
<1>4. PagingInv' /\ Kept
  BY <1>1, <1>2, <1>3, ExtractPage, MapCallStep
<1> QED
  BY <1>1, <1>4 DEF MapCall, Idle, memVars, callerVars

LEMMA MapKernelPageBoot ==
  ASSUME BootInv, MapKernelPage
  PROVE  /\ BootInv' /\ Kept /\ pc = "idle" /\ pc' = "test" /\ mem' = mem /\ spaces' = spaces
         /\ at = "map_kernel" /\ map_entry \in KernelEntry /\ map_offset \in Nat
         /\ map_offset < Memmap[map_entry].length
         /\ call' = [root |-> kernel_pml4_table,
                     vaddr |-> Extract(BaseVirt + map_offset + ModuleOffset(map_entry)),
                     paddr |-> Memmap[map_entry].base + map_offset, flags |-> Rights]
         /\ map_offset' = map_offset + 1
         /\ UNCHANGED <<kernel_base, at, map_entry, kernel_pml4_table, cr3>>
<1> DEFINE p == Memmap[map_entry].base + map_offset
           v == BaseVirt + map_offset + ModuleOffset(map_entry)
<1>1. /\ at = "map_kernel" /\ map_entry \in KernelEntry /\ map_offset \in Nat
      /\ map_offset < Memmap[map_entry].length /\ MapNow(p, v)
  BY DEF MapKernelPage, BootInv, BootControl
<1>2. /\ Memmap[map_entry].base \in Nat /\ Memmap[map_entry].length \in Nat
      /\ ModuleOffset(map_entry) \in Nat
  BY <1>1, MapEntryFacts DEF KernelEntry
<1>3. p \in Page
  <2>1. p \in PagesOf(map_entry)
    BY <1>1, <1>2 DEF PagesOf
  <2> QED
    BY <1>1, <2>1, BootAssumption DEF KernelEntry
<1>4. v \in Nat
  BY <1>1, <1>2, BootAssumption
<1> HIDE DEF p, v
<1>5. /\ PagingInv' /\ Kept /\ pc = "idle" /\ pc' = "test"
      /\ mem' = mem /\ spaces' = spaces /\ data' = data
      /\ call' = [root |-> kernel_pml4_table, vaddr |-> Extract(v), paddr |-> p, flags |-> Rights]
      /\ map_offset' = map_offset + 1
      /\ UNCHANGED <<kernel_base, at, map_entry, kernel_pml4_table, cr3>>
  BY <1>1, <1>3, <1>4, MapNowStep DEF Filling
<1>6. BootInv'
  BY <1>1, <1>2, <1>5 DEF BootInv, BootControl, Filling, Loaded, KernelEntry
<1> QED
  BY <1>1, <1>5, <1>6 DEF p, v

LEMMA MapHhdmPageBoot ==
  ASSUME BootInv, MapHhdmPage
  PROVE  /\ BootInv' /\ Kept /\ pc = "idle" /\ pc' = "test" /\ mem' = mem /\ spaces' = spaces
         /\ at = "map_hhdm" /\ map_offset \in Nat /\ map_offset < HhdmPages
         /\ call' = [root |-> kernel_pml4_table, vaddr |-> Extract(HhdmOffset + map_offset),
                     paddr |-> map_offset, flags |-> Rights]
         /\ map_offset' = map_offset + 1
         /\ UNCHANGED <<kernel_base, at, map_entry, kernel_pml4_table, cr3>>
<1> DEFINE v == HhdmOffset + map_offset
<1>1. /\ at = "map_hhdm" /\ map_offset \in Nat /\ map_offset < HhdmPages /\ MapNow(map_offset, v)
  BY DEF MapHhdmPage, BootInv, BootControl
<1>2. map_offset \in Page /\ v \in Nat /\ HhdmPages \in Nat
  BY <1>1, BootAssumption
<1> HIDE DEF v
<1>3. /\ PagingInv' /\ Kept /\ pc = "idle" /\ pc' = "test"
      /\ mem' = mem /\ spaces' = spaces /\ data' = data
      /\ call' = [root |-> kernel_pml4_table, vaddr |-> Extract(v), paddr |-> map_offset,
                  flags |-> Rights]
      /\ map_offset' = map_offset + 1
      /\ UNCHANGED <<kernel_base, at, map_entry, kernel_pml4_table, cr3>>
  BY <1>1, <1>2, MapNowStep DEF Filling
<1>4. BootInv'
  BY <1>1, <1>2, <1>3 DEF BootInv, BootControl, Filling, Loaded
<1> QED
  BY <1>1, <1>3, <1>4 DEF v

(* A step of _start that leaves the frames and the walk alone. *)
LEMMA QuietBoot ==
  ASSUME BootInv, NextKernelEntry \/ PagingInit \/ StartFaults
  PROVE  /\ BootInv' /\ Kept /\ UNCHANGED pagingVars /\ pc = "idle"
         /\ kernel_pml4_table' = kernel_pml4_table /\ kernel_base' = kernel_base
         /\ at # "mem_init" /\ at' # "mem_init" /\ at # "start_modules" /\ at' # "start_modules"
<1>1. UNCHANGED pagingVars /\ at \in {"map_kernel", "map_hhdm", "kernel_map"}
  BY DEF NextKernelEntry, PagingInit, StartFaults
<1>2. PagingInv' /\ Kept
  BY <1>1, PagingStutter DEF BootInv
<1>3. spaces' = spaces /\ data' = data /\ pc' = pc /\ call' = call
  BY <1>1 DEF pagingVars, callerVars, walkVars
<1>4. ASSUME NextKernelEntry
      PROVE  /\ BootInv' /\ kernel_pml4_table' = kernel_pml4_table /\ kernel_base' = kernel_base
             /\ at' # "mem_init" /\ at' # "start_modules" /\ pc = "idle"
  <2>1. /\ at = "map_kernel" /\ pc = "idle" /\ map_offset' = 0
        /\ IF map_entry < Len(Memmap)
           THEN map_entry' = map_entry + 1 /\ UNCHANGED at
           ELSE at' = "map_hhdm" /\ UNCHANGED map_entry
        /\ UNCHANGED <<kernel_base, kernel_pml4_table, cr3>>
    BY <1>4 DEF NextKernelEntry, Idle
  <2>2. \A e \in KernelEntry : Memmap[e].length >= 0
    BY MapEntryFacts DEF KernelEntry
  <2>3. Len(Memmap) \in Nat /\ HhdmPages \in Nat
    BY MemmapFacts, BootAssumption
  <2> QED
    BY <1>2, <1>3, <2>1, <2>2, <2>3 DEF BootInv, BootControl, Filling, Loaded, KernelEntry
<1>5. ASSUME PagingInit
      PROVE  /\ BootInv' /\ kernel_pml4_table' = kernel_pml4_table /\ kernel_base' = kernel_base
             /\ at' # "mem_init" /\ at' # "start_modules" /\ pc = "idle"
  <2>1. HhdmPages \in Nat
    BY BootAssumption
  <2> QED
    BY <1>2, <1>3, <1>5, <2>1
       DEF PagingInit, Idle, BootInv, BootControl, Filling, Loaded, setupVars
<1>6. ASSUME StartFaults
      PROVE  /\ BootInv' /\ kernel_pml4_table' = kernel_pml4_table /\ kernel_base' = kernel_base
             /\ at' # "mem_init" /\ at' # "start_modules" /\ pc = "idle"
  BY <1>2, <1>3, <1>6 DEF StartFaults, BootInv, BootControl, Filling, Loaded, setupVars
<1> QED
  BY <1>1, <1>2, <1>4, <1>5, <1>6

LEMMA MapStepNowBoot ==
  ASSUME BootInv, MapStepNow
  PROVE  /\ BootInv' /\ Kept /\ PagingInv /\ Filling /\ Filling' /\ pc # "idle"
         /\ MapStep /\ UNCHANGED bootVars /\ spaces' = spaces
         /\ call.root = kernel_pml4_table /\ call.flags = Rights
<1>1. MapStep /\ UNCHANGED bootVars
  BY DEF MapStepNow
<1>2. /\ pc # "idle" /\ (pc' # "idle" => call' = call) /\ spaces' = spaces /\ data' = data
  BY <1>1
     DEF MapStep, Descend, AllocTable, AllocFails, ZeroTable, LinkTable, WriteEntry, walkVars,
         callerVars
<1>3. /\ Filling /\ call.root = kernel_pml4_table /\ call.flags = Rights /\ PagingInv
  BY <1>2 DEF BootInv, BootControl, Filling
<1>4. PagingInv' /\ Kept
  BY <1>1, <1>3, DescendStep, AllocTableStep, FailsStep, ZeroTableStep, LinkTableStep,
     WriteEntryStep DEF MapStep
<1>5. BootInv' /\ Filling'
  BY <1>1, <1>2, <1>3, <1>4 DEF BootInv, BootControl, Filling, Loaded, bootVars, setupVars, KernelEntry
<1> QED
  BY <1>1, <1>2, <1>3, <1>4, <1>5

LEMMA NoFrameBoot ==
  ASSUME BootInv, NoFrame
  PROVE  BootInv' /\ UNCHANGED <<mem, held, callerVars, walkVars, bootVars>> /\ pc = "idle"
<1>1. /\ PagingInv /\ at \in {"mem_init", "kernel_map"} /\ CallerFails /\ UNCHANGED bootVars
  BY DEF NoFrame, BootInv
<1>2. PagingInv'
  BY <1>1, FailsStep
<1>3. UNCHANGED <<mem, held, callerVars, walkVars>> /\ pc = "idle"
  BY <1>1 DEF CallerFails, GetPhysBlockFails, Idle
<1>4. BootControl'
  BY <1>1, <1>3
     DEF BootInv, BootControl, Filling, Loaded, bootVars, setupVars, callerVars, walkVars,
         KernelEntry
<1> QED
  BY <1>1, <1>2, <1>3, <1>4 DEF BootInv, bootVars

(* The first get_phys_block of _start: whatever the MMU makes of its        *)
(* next_frame, the block is a free one.                                    *)
LEMMA StartGetsBlockBoot ==
  ASSUME BootInv, StartGetsBlock
  PROVE  /\ BootInv' /\ Kept /\ mem' = mem /\ spaces' = spaces /\ pc = "idle"
         /\ at = "kernel_map" /\ at' = "start_modules"
         /\ kernel_pml4_table' = kernel_pml4_table /\ kernel_base' = kernel_base
         /\ UNCHANGED <<setupVars, call, pc>>
<1> DEFINE b == first_page_frame
<1>1. /\ at = "kernel_map" /\ at' = "start_modules" /\ b # NULL
      /\ mem' = mem /\ spaces' = spaces /\ data' = data \cup {b} /\ held' = held \cup {b}
      /\ phase' = phase /\ UNCHANGED <<walkVars, kernel_base, setupVars, kernel_pml4_table, cr3>>
  BY DEF StartGetsBlock
<1>2. PagingInv /\ pc = "idle" /\ data = {}
  BY <1>1 DEF BootInv, BootControl, Filling
<1>3. b \in FreeSet /\ phase # "exhausted"
  BY <1>1, <1>2, HeadIsFree DEF PagingInv, MemInv, ScanState
<1>4. b \notin held
  BY <1>3 DEF FreeSet
<1> HIDE DEF b
<1>5. Tree(mem', spaces', Pdpts, Pdts, PageTables)
  BY <1>1, <1>2, InvTree
<1>6. Partition(held', spaces', Pdpts, Pdts, PageTables, InFlight', data')
  <2>1. InFlight = {} /\ InFlight' = {}
    BY <1>1, <1>2 DEF InFlight, walkVars
  <2>2. Partition(held, spaces, Pdpts, Pdts, PageTables, {}, {})
    BY <1>2, <2>1, InvTree
  <2> QED
    BY <1>1, <1>2, <1>4, <2>1, <2>2 DEF Partition
<1>7. FramesAccounted'
  BY <1>5, <1>6, TreeInv
<1>8. BootControl'
  BY <1>1, <1>2 DEF BootInv, BootControl, Filling, Loaded, walkVars, setupVars, KernelEntry
<1> QED
  BY <1>1, <1>2, <1>3, <1>7, <1>8 DEF BootInv, Kept, walkVars

LEMMA BootStutter ==
  ASSUME BootInv, UNCHANGED allVars
  PROVE  BootInv'
<1>1. UNCHANGED pagingVars /\ UNCHANGED bootVars
  BY DEF allVars
<1>2. at # "start_modules" => PagingInv'
  BY <1>1, PagingStutter DEF BootInv
<1>3. /\ mem' = mem /\ held' = held /\ block' = block /\ phase' = phase
      /\ spaces' = spaces /\ data' = data /\ pc' = pc /\ call' = call
  BY <1>1 DEF pagingVars, callerVars, walkVars, memVars
<1>4. FramesAccounted' <=> FramesAccounted
  <2>1. InFlight' = InFlight
    BY <1>3 DEF InFlight
  <2>2. Pdpts' = Pdpts /\ Pdts' = Pdts /\ PageTables' = PageTables
    BY <1>3, ShapeHolds, ShapeHoldsNext DEF Shape
  <2> QED
    BY <1>3, <2>1, <2>2, PartsOfFrames, PartsOfFramesNext
<1>5. BootControl'
  BY <1>1, <1>3 DEF BootInv, BootControl, Filling, Loaded, bootVars, setupVars, KernelEntry
<1> QED
  BY <1>1, <1>2, <1>3, <1>4, <1>5 DEF BootInv, bootVars

LEMMA BootStepInv ==
  ASSUME RootsClean, BootInv, [BootNext]_allVars
  PROVE  BootInv'
<1>1. CASE MemInitStep
  BY <1>1, ScanBoot
<1>2. CASE StartKernelMap
  BY <1>2, StartKernelMapBoot
<1>3. CASE NoFrame
  BY <1>3, NoFrameBoot
<1>4. CASE MapKernelPage
  BY <1>4, MapKernelPageBoot
<1>5. CASE NextKernelEntry \/ PagingInit \/ StartFaults
  BY <1>5, QuietBoot
<1>6. CASE MapHhdmPage
  BY <1>6, MapHhdmPageBoot
<1>7. CASE MapStepNow
  BY <1>7, MapStepNowBoot
<1>8. CASE StartGetsBlock
  BY <1>8, StartGetsBlockBoot
<1>9. CASE UNCHANGED allVars
  BY <1>9, BootStutter
<1> QED
  BY <1>1, <1>2, <1>3, <1>4, <1>5, <1>6, <1>7, <1>8, <1>9 DEF BootNext

-----------------------------------------------------------------------------
(***************************************************************************)
(* The theorems about the frames of the boot.  RootsClean is as in         *)
(* PagingProofs: the frame that becomes the kernel's pml4 holds no present *)
(* entry.                                                                  *)
(***************************************************************************)

(* Each step of _start, from the scan of the memory map to its first block *)
(* under the new map, keeps the inductive invariant.                       *)
THEOREM BootInvariance == RootsClean => (BootSpec => []BootInv)
<1> SUFFICES ASSUME RootsClean PROVE BootSpec => []BootInv
  OBVIOUS
<1>1. BootStart => BootInv
  BY BootStartInv
<1>2. BootInv /\ [BootNext]_allVars => BootInv'
  BY BootStepInv
<1> QED
  BY <1>1, <1>2, PTL DEF BootSpec

(* Every frame that setup_kernel_map takes becomes the pml4 or one         *)
(* structure under it, and the first block that _start takes is neither,   *)
(* although it takes it under the map that was just loaded.                *)
THEOREM BootFramesCorrect == RootsClean => (BootSpec => []FramesAccounted)
<1>1. BootInv => FramesAccounted
  BY DEF BootInv, PagingInv
<1> QED
  BY <1>1, BootInvariance, PTL

(* The boot stops at the ASSERT of get_phys_block only on a machine all of *)
(* whose RAM has become the kernel's map.                                  *)
THEOREM BootDryCorrect == RootsClean => (BootSpec => []ExhaustedOnlyWhenAllHeld)
<1>1. BootInv => ExhaustedOnlyWhenAllHeld
  BY AllHeld DEF BootInv, PagingInv, ExhaustedOnlyWhenAllHeld
<1> QED
  BY <1>1, BootInvariance, PTL

-----------------------------------------------------------------------------
(***************************************************************************)
(* What has been asked for.                                                *)
(***************************************************************************)

(* The turns of the kernel's loop that are done: an entry of the memory map*)
(* and an offset in it.                                                    *)
Turns(e, n) ==
  {t \in KernelEntry \X Nat : \/ t[1] < e /\ t[2] < Memmap[t[1]].length
                              \/ t[1] = e /\ t[2] < n}

(* What one turn maps, when the kernel's image is at page k.               *)
KernelPair(k, e, o) ==
  [page |-> Extract(BaseVirt + o + (IF Memmap[e].base = k THEN 0 ELSE Memmap[e].base)),
   frame |-> Memmap[e].base + o]

HhdmPair(p) == [page |-> Extract(HhdmOffset + p), frame |-> p]

KernelPart(k, e, n) == {KernelPair(k, t[1], t[2]) : t \in Turns(e, n)}
HhdmPart(n) == {HhdmPair(p) : p \in 0 .. n - 1}

Asked ==
  IF at = "map_kernel"
  THEN KernelPart(kernel_base, map_entry, map_offset)
  ELSE KernelPart(kernel_base, Len(Memmap) + 1, 0) \cup HhdmPart(map_offset)

LEMMA TurnsFacts ==
  /\ Turns(1, 0) = {}
  /\ \A e \in KernelEntry, n \in Nat : Turns(e, n + 1) = Turns(e, n) \cup {<<e, n>>}
  /\ \A e \in Nat, n \in Nat :
       (e \in KernelEntry => n = Memmap[e].length) => Turns(e, n) = Turns(e + 1, 0)
<1>1. \A e \in KernelEntry : e \in Nat /\ e >= 1 /\ Memmap[e].length \in Nat
  BY MemmapFacts DEF KernelEntry
<1>2. Turns(1, 0) = {}
  BY <1>1 DEF Turns
<1>3. ASSUME NEW e \in KernelEntry, NEW n \in Nat
      PROVE  Turns(e, n + 1) = Turns(e, n) \cup {<<e, n>>}
  BY <1>1 DEF Turns
<1>4. ASSUME NEW e \in Nat, NEW n \in Nat, e \in KernelEntry => n = Memmap[e].length
      PROVE  Turns(e, n) = Turns(e + 1, 0)
  BY <1>1, <1>4 DEF Turns
<1> QED
  BY <1>2, <1>3, <1>4

LEMMA PartsGrow ==
  /\ \A k : KernelPart(k, 1, 0) = {}
  /\ \A k : \A e \in KernelEntry, n \in Nat :
       KernelPart(k, e, n + 1) = KernelPart(k, e, n) \cup {KernelPair(k, e, n)}
  /\ \A k : \A e \in Nat, n \in Nat :
       (e \in KernelEntry => n = Memmap[e].length) => KernelPart(k, e, n) = KernelPart(k, e + 1, 0)
  /\ HhdmPart(0) = {}
  /\ \A n \in Nat : HhdmPart(n + 1) = HhdmPart(n) \cup {HhdmPair(n)}
<1>1. ASSUME NEW k, NEW e \in KernelEntry, NEW n \in Nat
      PROVE  KernelPart(k, e, n + 1) = KernelPart(k, e, n) \cup {KernelPair(k, e, n)}
  <2> DEFINE t == <<e, n>>
  <2>1. t = <<e, n>> /\ t[1] = e /\ t[2] = n
    OBVIOUS
  <2> HIDE DEF t
  <2>2. Turns(e, n + 1) = Turns(e, n) \cup {t}
    BY <2>1, TurnsFacts
  <2> QED
    BY <2>1, <2>2 DEF KernelPart
<1>2. ASSUME NEW n \in Nat
      PROVE  HhdmPart(n + 1) = HhdmPart(n) \cup {HhdmPair(n)}
  <2>1. 0 .. (n + 1) - 1 = (0 .. n - 1) \cup {n}
    OBVIOUS
  <2> QED
    BY <2>1 DEF HhdmPart
<1>3. HhdmPart(0) = {}
  BY DEF HhdmPart
<1>4. /\ \A k : KernelPart(k, 1, 0) = {}
      /\ \A k : \A e \in Nat, n \in Nat :
           (e \in KernelEntry => n = Memmap[e].length) => KernelPart(k, e, n) = KernelPart(k, e + 1, 0)
  BY TurnsFacts DEF KernelPart
<1> QED
  BY <1>1, <1>2, <1>3, <1>4

(* The pages of a region are those whose distance from its base is less    *)
(* than its length.                                                        *)
LEMMA InPages ==
  ASSUME NEW e, Memmap[e].base \in Nat, Memmap[e].length \in Nat
  PROVE  /\ \A o \in Nat : o < Memmap[e].length => Memmap[e].base + o \in PagesOf(e)
         /\ \A f \in PagesOf(e) : /\ f - Memmap[e].base \in Nat
                                  /\ f - Memmap[e].base < Memmap[e].length
                                  /\ f = Memmap[e].base + (f - Memmap[e].base)
<1>1. \A b, l, o \in Nat : o < l => b + o \in b .. b + l - 1
  OBVIOUS
<1>2. \A b, l \in Nat : \A f \in b .. b + l - 1 :
        f - b \in Nat /\ f - b < l /\ f = b + (f - b)
  OBVIOUS
<1> QED
  BY <1>1, <1>2 DEF PagesOf

(* When the loops are done, it is what there was to map.                   *)
LEMMA AskedWanted ==
  ASSUME BootInv, Loaded
  PROVE  Asked = Wanted
<1>1. at # "map_kernel" /\ map_offset = HhdmPages
  BY DEF BootInv, BootControl, Loaded
<1>2. HhdmPart(HhdmPages) = {[page |-> Extract(HhdmOffset + p), frame |-> p] : p \in 0 .. HhdmPages - 1}
  BY DEF HhdmPart, HhdmPair
<1>3. \A e \in KernelEntry : /\ e \in Nat /\ e < Len(Memmap) + 1
                             /\ Memmap[e].base \in Nat /\ Memmap[e].length \in Nat
  BY MemmapFacts DEF KernelEntry
<1>4. BaseVirt \in Nat
  BY BootAssumption
<1> DEFINE k == kernel_base
           Want(e, f) == [page |-> Extract(BaseVirt + f - (IF Memmap[e].base = k THEN k ELSE 0)),
                          frame |-> f]
           All == UNION {{Want(e, f) : f \in PagesOf(e)} : e \in KernelEntry}
<1>5. ASSUME NEW e \in KernelEntry, NEW o \in Nat
      PROVE  KernelPair(k, e, o) = Want(e, Memmap[e].base + o)
  <2>1. CASE Memmap[e].base = k
    <3>1. BaseVirt + o + 0 = BaseVirt + (Memmap[e].base + o) - k
      BY <1>3, <1>4, <2>1
    <3> QED
      BY <2>1, <3>1 DEF KernelPair
  <2>2. CASE Memmap[e].base # k
    <3>1. BaseVirt + o + Memmap[e].base = BaseVirt + (Memmap[e].base + o) - 0
      BY <1>3, <1>4
    <3> QED
      BY <2>2, <3>1 DEF KernelPair
  <2> QED
    BY <2>1, <2>2
<1>6. ASSUME NEW x \in KernelPart(k, Len(Memmap) + 1, 0)
      PROVE  x \in All
  <2>1. PICK t \in Turns(Len(Memmap) + 1, 0) : x = KernelPair(k, t[1], t[2])
    BY DEF KernelPart
  <2>2. t[1] \in KernelEntry /\ t[2] \in Nat /\ t[2] < Memmap[t[1]].length
    BY <1>3, <2>1 DEF Turns
  <2>3. Memmap[t[1]].base + t[2] \in PagesOf(t[1])
    <3>1. Memmap[t[1]].base \in Nat /\ Memmap[t[1]].length \in Nat
      BY <1>3, <2>2
    <3> QED
      BY <2>2, <3>1, InPages
  <2>4. x = Want(t[1], Memmap[t[1]].base + t[2])
    BY <1>5, <2>1, <2>2
  <2> QED
    BY <2>2, <2>3, <2>4
<1>7. ASSUME NEW x \in All
      PROVE  x \in KernelPart(k, Len(Memmap) + 1, 0)
  <2>1. PICK e \in KernelEntry : \E f \in PagesOf(e) : x = Want(e, f)
    OBVIOUS
  <2>2. PICK f \in PagesOf(e) : x = Want(e, f)
    BY <2>1
  <2>3. PICK o \in Nat : f = Memmap[e].base + o /\ o < Memmap[e].length
    <3>1. f - Memmap[e].base \in Nat /\ f - Memmap[e].base < Memmap[e].length
          /\ f = Memmap[e].base + (f - Memmap[e].base)
      BY <1>3, <2>2, InPages
    <3> QED
      BY <3>1
  <2> DEFINE t == <<e, o>>
  <2>4. t \in KernelEntry \X Nat /\ t[1] = e /\ t[2] = o
    BY <2>1, <2>3
  <2> HIDE DEF t
  <2>5. t \in Turns(Len(Memmap) + 1, 0)
    BY <1>3, <2>3, <2>4 DEF Turns
  <2>6. x = KernelPair(k, t[1], t[2])
    BY <1>5, <2>2, <2>3, <2>4
  <2> QED
    BY <2>5, <2>6 DEF KernelPart
<1>8. Wanted = All \cup HhdmPart(HhdmPages)
  <2>1. Wanted = All \cup {[page |-> Extract(HhdmOffset + p), frame |-> p] : p \in 0 .. HhdmPages - 1}
    BY Zenon DEF Wanted, KernelEntry
  <2> QED
    BY <1>2, <2>1
<1> HIDE DEF All, k
<1>9. KernelPart(k, Len(Memmap) + 1, 0) = All
  BY <1>6, <1>7
<1> QED
  BY <1>1, <1>8, <1>9 DEF Asked, k

-----------------------------------------------------------------------------
(***************************************************************************)
(* What is mapped: what the calls that have returned asked for, exactly.   *)
(***************************************************************************)

EveryRight(f) == [addr |-> f, bits |-> {PRESENT} \cup Rights]

(* In memory m, the structures under r map the pairs D and no other page.  *)
MapsExactly(m, r, D) ==
  \A v \in VPage :
    \/ (\A d \in D : d.page # v) /\ TranslationIn(m, r, v) = Unmapped
    \/ \E d \in D : d.page = v /\ TranslationIn(m, r, v) = EveryRight(d.frame)

CallPair == [page |-> call.vaddr, frame |-> call.paddr]

KernelMapInv ==
  /\ Filling => EntriesGrant(Rights)
  /\ at # "mem_init" =>
       IF pc = "idle"
       THEN MapsExactly(mem, kernel_pml4_table, Asked)
       ELSE \E D : MapsExactly(mem, kernel_pml4_table, D) /\ Asked = D \cup {CallPair}

LEMMA MapsSame ==
  ASSUME NEW m, NEW n, NEW r, NEW D, MapsExactly(m, r, D),
         \A v \in VPage : TranslationIn(n, r, v) = TranslationIn(m, r, v)
  PROVE  MapsExactly(n, r, D)
BY DEF MapsExactly

LEMMA MapsMore ==
  ASSUME NEW m, NEW n, NEW r, NEW D, MapsExactly(m, r, D), NEW d,
         TranslationIn(n, r, d.page) = EveryRight(d.frame),
         \A v \in VPage : v # d.page => TranslationIn(n, r, v) = TranslationIn(m, r, v)
  PROVE  MapsExactly(n, r, D \cup {d})
<1> SUFFICES ASSUME NEW v \in VPage
             PROVE  \/ (\A c \in D \cup {d} : c.page # v) /\ TranslationIn(n, r, v) = Unmapped
                    \/ \E c \in D \cup {d} : c.page = v /\ TranslationIn(n, r, v) = EveryRight(c.frame)
  BY DEF MapsExactly
<1>1. CASE v = d.page
  BY <1>1
<1>2. CASE v # d.page
  BY <1>2 DEF MapsExactly
<1> QED
  BY <1>1, <1>2

LEMMA StartKernelMapExact ==
  ASSUME RootsClean, BootInv, StartKernelMap
  PROVE  KernelMapInv'
<1>1. /\ at' = "map_kernel" /\ pc' = "idle" /\ mem' = mem
      /\ spaces = {} /\ spaces' = {kernel_pml4_table'}
      /\ kernel_pml4_table' \in Page /\ Clean(mem, kernel_pml4_table')
      /\ map_entry' = 1 /\ map_offset' = 0
  BY StartKernelMapBoot
<1>2. Asked' = {}
  BY <1>1, PartsGrow DEF Asked
<1>3. MapsExactly(mem', kernel_pml4_table', {})
  BY <1>1, CleanMapsNothing DEF MapsExactly
<1>4. EntriesGrant(Rights)'
  <2>1. PagingInv
    BY DEF StartKernelMap, BootInv
  <2>2. EntriesGrant(Rights)
    BY <1>1, NoSpaceGrants
  <2> QED
    BY <1>1, <2>1, <2>2, GrantRoot
<1> QED
  BY <1>1, <1>2, <1>3, <1>4 DEF KernelMapInv

(* The call of a loop turn: the pair is asked for, and not yet mapped.     *)
LEMMA MapNowExact ==
  ASSUME BootInv, KernelMapInv, MapKernelPage \/ MapHhdmPage
  PROVE  KernelMapInv' /\ Asked \subseteq Asked'
<1>1. /\ Filling /\ Filling' /\ pc = "idle" /\ pc' = "test" /\ mem' = mem /\ spaces' = spaces
      /\ at # "mem_init" /\ kernel_pml4_table' = kernel_pml4_table /\ PagingInv
      /\ Asked' = Asked \cup {CallPair'}
  <2>1. ASSUME MapKernelPage
        PROVE  /\ Filling /\ Filling' /\ pc = "idle" /\ pc' = "test" /\ mem' = mem
               /\ spaces' = spaces /\ kernel_pml4_table' = kernel_pml4_table
               /\ Asked' = Asked \cup {CallPair'}
    <3>1. CallPair' = KernelPair(kernel_base, map_entry, map_offset)
      BY <2>1, MapKernelPageBoot DEF CallPair, KernelPair, ModuleOffset
    <3>2. /\ at = "map_kernel" /\ map_entry \in KernelEntry /\ map_offset \in Nat
          /\ map_offset' = map_offset + 1
          /\ UNCHANGED <<kernel_base, at, map_entry>>
      BY <2>1, MapKernelPageBoot
    <3>3. Asked' = Asked \cup {CallPair'}
      BY <3>1, <3>2, PartsGrow DEF Asked
    <3> QED
      BY <2>1, <3>2, <3>3, MapKernelPageBoot DEF Filling
  <2>2. ASSUME MapHhdmPage
        PROVE  /\ Filling /\ Filling' /\ pc = "idle" /\ pc' = "test" /\ mem' = mem
               /\ spaces' = spaces /\ kernel_pml4_table' = kernel_pml4_table
               /\ Asked' = Asked \cup {CallPair'}
    <3>1. CallPair' = HhdmPair(map_offset)
      BY <2>2, MapHhdmPageBoot DEF CallPair, HhdmPair
    <3>2. /\ at = "map_hhdm" /\ map_offset \in Nat /\ map_offset' = map_offset + 1
          /\ UNCHANGED <<kernel_base, at>>
      BY <2>2, MapHhdmPageBoot
    <3>3. Asked' = Asked \cup {CallPair'}
      BY <3>1, <3>2, PartsGrow DEF Asked
    <3> QED
      BY <2>2, <3>2, <3>3, MapHhdmPageBoot DEF Filling
  <2> QED
    BY <2>1, <2>2 DEF Filling, BootInv
<1>2. EntriesGrant(Rights)'
  BY <1>1, GrantSame DEF KernelMapInv
<1>3. MapsExactly(mem', kernel_pml4_table', Asked)
  BY <1>1 DEF KernelMapInv
<1> QED
  BY <1>1, <1>2, <1>3 DEF KernelMapInv

(* A step of the call: the pair is mapped by the last, and by no other.    *)
LEMMA MapStepNowExact ==
  ASSUME BootInv, KernelMapInv, MapStepNow
  PROVE  KernelMapInv'
<1>1. /\ PagingInv /\ Filling /\ Filling' /\ pc # "idle" /\ MapStep /\ UNCHANGED bootVars
      /\ spaces' = spaces /\ call.root = kernel_pml4_table /\ call.flags = Rights
  BY MapStepNowBoot
<1>2. /\ at # "mem_init" /\ at' = at /\ kernel_pml4_table' = kernel_pml4_table
      /\ kernel_pml4_table \in spaces /\ Asked' = Asked
  BY <1>1 DEF Filling, BootInv, BootControl, bootVars, setupVars, Asked
<1>3. EntriesGrant(Rights)'
  BY <1>1, MapStepGrants DEF KernelMapInv
<1>4. PICK D : MapsExactly(mem, kernel_pml4_table, D) /\ Asked = D \cup {CallPair}
  BY <1>1, <1>2 DEF KernelMapInv
<1>5. CASE WriteEntry
  <2>1. pc' = "idle"
    BY <1>5 DEF WriteEntry
  <2>2. call.vaddr \in VPage /\ level = 4
    BY <1>1, <1>5, CallFacts DEF PagingInv, WalkState, WriteEntry
  <2>3. Rights \subseteq RightsAbove(mem, call.root, call.vaddr)
    BY <1>1, <2>2, GrantsLeft DEF KernelMapInv
  <2>4. TranslationIn(mem', kernel_pml4_table, call.vaddr) = EveryRight(call.paddr)
    <3>1. (RightsAbove(mem, call.root, call.vaddr) \cap Rights) \cup {PRESENT} = {PRESENT} \cup Rights
      BY <2>3
    <3> QED
      BY <1>1, <1>5, <3>1, WriteEntryTranslates DEF EveryRight
  <2>5. \A v \in VPage : v # call.vaddr =>
          TranslationIn(mem', kernel_pml4_table, v) = TranslationIn(mem, kernel_pml4_table, v)
    BY <1>1, <1>2, <1>5, WriteEntryTranslates
  <2>6. CallPair.page = call.vaddr /\ CallPair.frame = call.paddr
    BY DEF CallPair
  <2>7. MapsExactly(mem', kernel_pml4_table, D \cup {CallPair})
    BY <1>4, <2>4, <2>5, <2>6, MapsMore
  <2> QED
    BY <1>2, <1>3, <1>4, <2>1, <2>7 DEF KernelMapInv
<1>6. CASE ~ WriteEntry
  <2>1. pc' # "idle" /\ call' = call
    BY <1>1, <1>6 DEF MapStep, Descend, AllocTable, AllocFails, ZeroTable, LinkTable, walkVars
  <2>2. \A v \in VPage :
          TranslationIn(mem', kernel_pml4_table, v) = TranslationIn(mem, kernel_pml4_table, v)
    <3>1. CASE Descend \/ AllocTable \/ AllocFails
      BY <3>1 DEF Descend, AllocTable, AllocFails, GetPhysBlock, GetPhysBlockFails, memVars
    <3>2. CASE ZeroTable
      BY <1>1, <1>2, <3>2, ZeroTableTranslates
    <3>3. CASE LinkTable
      BY <1>1, <1>2, <3>3, LinkTableTranslates
    <3> QED
      BY <1>1, <1>6, <3>1, <3>2, <3>3 DEF MapStep
  <2>3. MapsExactly(mem', kernel_pml4_table, D)
    BY <1>4, <2>2, MapsSame
  <2>4. CallPair' = CallPair
    BY <2>1 DEF CallPair
  <2> QED
    BY <1>2, <1>3, <1>4, <2>1, <2>3, <2>4 DEF KernelMapInv
<1> QED
  BY <1>5, <1>6

(* The turns between the calls, and all that comes after them.             *)
LEMMA QuietExact ==
  ASSUME BootInv, KernelMapInv,
         NextKernelEntry \/ PagingInit \/ StartFaults \/ StartGetsBlock
  PROVE  KernelMapInv' /\ Asked' = Asked
<1>1. /\ BootInv' /\ mem' = mem /\ spaces' = spaces /\ pc = "idle" /\ pc' = "idle"
      /\ kernel_pml4_table' = kernel_pml4_table /\ kernel_base' = kernel_base
      /\ at # "mem_init" /\ at' # "mem_init" /\ PagingInv
  <2>1. CASE StartGetsBlock
    BY <2>1, StartGetsBlockBoot DEF BootInv
  <2>2. CASE ~ StartGetsBlock
    BY <2>2, QuietBoot DEF BootInv, pagingVars, memVars, callerVars, walkVars
  <2> QED
    BY <2>1, <2>2
<1>2. Asked' = Asked
  <2>1. ASSUME NextKernelEntry
        PROVE  Asked' = Asked
    <3>1. /\ at = "map_kernel"
          /\ map_entry \in KernelEntry => map_offset >= Memmap[map_entry].length
          /\ map_offset' = 0
          /\ IF map_entry < Len(Memmap)
             THEN map_entry' = map_entry + 1 /\ UNCHANGED at
             ELSE at' = "map_hhdm" /\ UNCHANGED map_entry
      BY <2>1 DEF NextKernelEntry
    <3>2. /\ map_entry \in Nat /\ map_offset \in Nat /\ Len(Memmap) \in Nat
          /\ map_entry \in KernelEntry => map_offset = Memmap[map_entry].length
      BY <3>1, MemmapFacts DEF BootInv, BootControl, KernelEntry
    <3>3. KernelPart(kernel_base, map_entry, map_offset) = KernelPart(kernel_base, map_entry + 1, 0)
      BY <3>2, PartsGrow
    <3>4. CASE map_entry < Len(Memmap)
      BY <1>1, <3>1, <3>3, <3>4 DEF Asked
    <3>5. CASE ~ (map_entry < Len(Memmap))
      <4>1. map_entry = Len(Memmap) \/ (map_entry = 1 /\ Len(Memmap) = 0)
        BY <3>1, <3>2, <3>5 DEF BootInv, BootControl
      <4>2. KernelPart(kernel_base, map_entry + 1, 0) = KernelPart(kernel_base, Len(Memmap) + 1, 0)
        <5>1. CASE map_entry = Len(Memmap)
          BY <5>1
        <5>2. CASE map_entry = 1 /\ Len(Memmap) = 0
          <6>1. 1 \notin KernelEntry
            BY <5>2, MemmapFacts DEF KernelEntry
          <6> QED
            BY <5>2, <6>1, PartsGrow
        <5> QED
          BY <4>1, <5>1, <5>2
      <4> QED
        BY <1>1, <3>1, <3>3, <3>5, <4>2, PartsGrow DEF Asked
    <3> QED
      BY <3>4, <3>5
  <2>2. ASSUME PagingInit \/ StartFaults \/ StartGetsBlock
        PROVE  Asked' = Asked
    BY <2>2 DEF PagingInit, StartFaults, StartGetsBlock, setupVars, Asked
  <2> QED
    BY <2>1, <2>2
<1>3. Filling' => EntriesGrant(Rights)'
  <2>1. Filling' => Filling
    BY DEF NextKernelEntry, PagingInit, StartFaults, StartGetsBlock, Filling
  <2> QED
    BY <1>1, <2>1, GrantSame DEF KernelMapInv
<1> QED
  BY <1>1, <1>2, <1>3 DEF KernelMapInv

(* A step that writes nothing and asks for nothing.                        *)
LEMMA SameExact ==
  ASSUME BootInv, KernelMapInv, UNCHANGED <<mem, spaces, call, pc>>, UNCHANGED bootVars
  PROVE  KernelMapInv'
<1>1. at' = at /\ kernel_pml4_table' = kernel_pml4_table /\ Asked' = Asked /\ CallPair' = CallPair
  BY DEF bootVars, setupVars, Asked, CallPair
<1>2. Filling' => EntriesGrant(Rights)'
  BY <1>1, GrantSame DEF KernelMapInv, Filling, BootInv
<1> QED
  BY <1>1, <1>2 DEF KernelMapInv

LEMMA KernelMapStep ==
  ASSUME RootsClean, BootInv, KernelMapInv, [BootNext]_allVars
  PROVE  KernelMapInv'
<1>1. CASE MemInitStep
  BY <1>1, ScanBoot DEF KernelMapInv, Filling
<1>2. CASE StartKernelMap
  BY <1>2, StartKernelMapExact
<1>3. CASE NoFrame
  BY <1>3, NoFrameBoot, SameExact DEF callerVars, walkVars
<1>4. CASE MapKernelPage \/ MapHhdmPage
  BY <1>4, MapNowExact
<1>5. CASE NextKernelEntry \/ PagingInit \/ StartFaults \/ StartGetsBlock
  BY <1>5, QuietExact
<1>6. CASE MapStepNow
  BY <1>6, MapStepNowExact
<1>7. CASE UNCHANGED allVars
  <2>1. UNCHANGED <<mem, spaces, call, pc>> /\ UNCHANGED bootVars
    BY <1>7 DEF allVars, pagingVars, memVars, callerVars, walkVars
  <2> QED
    BY <2>1, SameExact
<1> QED
  BY <1>1, <1>2, <1>3, <1>4, <1>5, <1>6, <1>7 DEF BootNext

LEMMA MapIsExact ==
  ASSUME BootInv, KernelMapInv
  PROVE  KernelMapExact
<1> SUFFICES ASSUME cr3 # NULL, NEW v \in VPage
             PROVE  LET frames == {m.frame : m \in {m \in Wanted : m.page = v}}
                    IN  IF frames = {}
                        THEN Translation(cr3, v) = Unmapped
                        ELSE \E f \in frames :
                               Translation(cr3, v) =
                                 [addr |-> f, bits |-> {PRESENT, WRITEABLE, USER_MODE}]
  BY DEF KernelMapExact
<1> DEFINE frames == {m.frame : m \in {m \in Wanted : m.page = v}}
<1>1. Loaded /\ cr3 = kernel_pml4_table /\ pc = "idle" /\ at # "mem_init"
  BY DEF BootInv, BootControl, Loaded, Filling
<1>2. MapsExactly(mem, cr3, Wanted)
  BY <1>1, AskedWanted DEF KernelMapInv
<1>3. TranslationIn(mem, cr3, v) = Translation(cr3, v)
  BY TranslationIs
<1>4. \A f : EveryRight(f) = [addr |-> f, bits |-> {PRESENT, WRITEABLE, USER_MODE}]
  <2>1. {PRESENT} \cup Rights = {PRESENT, WRITEABLE, USER_MODE}
    BY DEF Rights
  <2> QED
    BY <2>1 DEF EveryRight
<1>5. CASE (\A d \in Wanted : d.page # v) /\ TranslationIn(mem, cr3, v) = Unmapped
  BY <1>3, <1>5
<1>6. CASE \E d \in Wanted : d.page = v /\ TranslationIn(mem, cr3, v) = EveryRight(d.frame)
  <2>1. PICK d \in Wanted : d.page = v /\ TranslationIn(mem, cr3, v) = EveryRight(d.frame)
    BY <1>6
  <2>2. d.frame \in frames
    BY <2>1
  <2>3. Translation(cr3, v) = [addr |-> d.frame, bits |-> {PRESENT, WRITEABLE, USER_MODE}]
    BY <1>3, <1>4, <2>1
  <2> HIDE DEF frames
  <2>4. frames # {} /\ \E f \in frames :
          Translation(cr3, v) = [addr |-> f, bits |-> {PRESENT, WRITEABLE, USER_MODE}]
    BY <2>2, <2>3
  <2> QED
    BY <2>4 DEF frames
<1> QED
  BY <1>2, <1>5, <1>6 DEF MapsExactly

(* From the moment CR3 holds the kernel's structures, the MMU makes of     *)
(* every page what setup_kernel_map was to make of it, with every right,   *)
(* and finds no other page at all: wherever the bootloader put the kernel, *)
(* whatever its regions are, and even where the sums of addresses wrap.    *)
THEOREM KernelMapCorrect == RootsClean => (BootSpec => []KernelMapExact)
<1> SUFFICES ASSUME RootsClean PROVE BootSpec => []KernelMapExact
  OBVIOUS
<1>1. BootStart => KernelMapInv
  BY DEF BootStart, KernelMapInv, Filling
<1>2. BootInv /\ KernelMapInv /\ [BootNext]_allVars => KernelMapInv'
  BY KernelMapStep
<1>3. BootInv /\ KernelMapInv => KernelMapExact
  BY MapIsExact
<1> QED
  BY <1>1, <1>2, <1>3, BootInvariance, PTL DEF BootSpec

-----------------------------------------------------------------------------
(***************************************************************************)
(* What the structures are for: the walk of some page that has been asked  *)
(* for leads through each.                                                 *)
(***************************************************************************)

(* In memory m, the walk from r for some page of the pairs D is at         *)
(* structure s when it gets to level l.                                    *)
Leads(m, r, D, l, s) == \E d \in D : Reaches(m, r, d.page, l, s)

StructuresAsked ==
  at # "mem_init" /\ at # "start_modules" =>
    /\ \A s \in Pdpts : Leads(mem, kernel_pml4_table, Asked, 2, s)
    /\ \A s \in Pdts : Leads(mem, kernel_pml4_table, Asked, 3, s)
    /\ \A s \in PageTables : Leads(mem, kernel_pml4_table, Asked, 4, s)

LEMMA AskedPages ==
  ASSUME BootInv
  PROVE  \A d \in Asked : d.page \in VPage
<1>1. BaseVirt \in Nat /\ HhdmOffset \in Nat /\ HhdmPages \in Nat
  BY BootAssumption
<1>2. ASSUME NEW k, NEW e, NEW n, NEW d \in KernelPart(k, e, n)
      PROVE  d.page \in VPage
  <2>1. PICK t \in Turns(e, n) : d = KernelPair(k, t[1], t[2])
    BY DEF KernelPart
  <2>2. t[2] \in Nat /\ Memmap[t[1]].base \in Nat
    BY MemmapFacts DEF Turns, KernelEntry
  <2>3. PICK p \in Nat : p = BaseVirt + t[2] + (IF Memmap[t[1]].base = k THEN 0 ELSE Memmap[t[1]].base)
    BY <1>1, <2>2
  <2> QED
    BY <2>1, <2>3, ExtractPage DEF KernelPair
<1>3. ASSUME NEW n \in Nat, NEW d \in HhdmPart(n)
      PROVE  d.page \in VPage
  <2>1. PICK p \in 0 .. n - 1 : d = HhdmPair(p)
    BY DEF HhdmPart
  <2>2. HhdmOffset + p \in Nat
    BY <1>1
  <2> QED
    BY <2>1, <2>2, ExtractPage DEF HhdmPair
<1>4. map_offset \in Nat
  BY DEF BootInv, BootControl
<1> QED
  BY <1>2, <1>3, <1>4 DEF Asked

(* A walk that led to a structure still does when no present entry above   *)
(* the page tables has changed.                                            *)
LEMMA StillLeads ==
  ASSUME BootInv, PagingInv, Kept, at # "mem_init",
         kernel_pml4_table' = kernel_pml4_table, Asked \subseteq Asked',
         NEW l \in {2, 3, 4}, NEW s, Leads(mem, kernel_pml4_table, Asked, l, s)
  PROVE  Leads(mem', kernel_pml4_table', Asked', l, s)
<1>1. PICK d \in Asked : Reaches(mem, kernel_pml4_table, d.page, l, s)
  BY DEF Leads
<1>2. kernel_pml4_table \in spaces /\ d.page \in VPage /\ l \in Levels
  BY AskedPages DEF BootInv, BootControl, Levels
<1>3. Reaches(mem', kernel_pml4_table, d.page, l, s)
  <2>1. Tree(mem, spaces, Pdpts, Pdts, PageTables)
    BY InvTree
  <2> QED
    BY <1>1, <1>2, <2>1, ReachesKept DEF Kept
<1> QED
  BY <1>3 DEF Leads

LEMMA StartKernelMapAsked ==
  ASSUME RootsClean, BootInv, StartKernelMap
  PROVE  StructuresAsked'
<1>1. /\ mem' = mem /\ spaces = {} /\ spaces' = {kernel_pml4_table'}
      /\ kernel_pml4_table' \in Page /\ Clean(mem, kernel_pml4_table') /\ PagingInv
  BY StartKernelMapBoot DEF StartKernelMap, BootInv
<1>2. Pdpts = {} /\ Pdts = {} /\ PageTables = {}
  BY <1>1, ShapeHolds, PointedOnly DEF Shape
<1>3. Tree(mem', spaces', {}, {}, {})
  BY <1>1, <1>2, InvTree, TreeRoot
<1> QED
  BY <1>3, ShapeHoldsNext DEF Shape, Tree, StructuresAsked

(* A step that writes no entry above the page tables. *)
LEMMA SameStructuresAsked ==
  ASSUME BootInv, StructuresAsked, PagingInv, at # "mem_init", at # "start_modules",
         kernel_pml4_table' = kernel_pml4_table, Asked \subseteq Asked', spaces' = spaces,
         \A s \in spaces \cup Pdpts \cup Pdts : mem'[s] = mem[s]
  PROVE  StructuresAsked'
<1>1. Tree(mem', spaces', Pdpts, Pdts, PageTables)
  BY InvTree, TreeSame
<1>2. Pdpts' = Pdpts /\ Pdts' = Pdts /\ PageTables' = PageTables
  BY <1>1, ShapeHoldsNext DEF Shape, Tree
<1>3. Kept
  BY DEF Kept
<1>4. \A l \in {2, 3, 4} : \A s :
        Leads(mem, kernel_pml4_table, Asked, l, s) => Leads(mem', kernel_pml4_table', Asked', l, s)
  BY <1>3, StillLeads
<1> QED
  BY <1>2, <1>4 DEF StructuresAsked

LEMMA TreeNext ==
  (PagingInv => /\ Tree(mem, spaces, Pdpts, Pdts, PageTables)
                /\ Partition(held, spaces, Pdpts, Pdts, PageTables, InFlight, data))'
BY InvTree, PTL

(* The block that is linked is on the way of the call's page. *)
LEMMA LinkTableAsked ==
  ASSUME BootInv, KernelMapInv, StructuresAsked, MapStepNow, LinkTable
  PROVE  StructuresAsked'
<1>1. /\ PagingInv /\ PagingInv' /\ Kept /\ Filling /\ pc # "idle" /\ UNCHANGED bootVars
      /\ spaces' = spaces
      /\ call.root = kernel_pml4_table
  BY MapStepNowBoot, LinkTableStep
<1>2. /\ pc = "link" /\ pc' = "test" /\ SetEntry(block) /\ data' = data /\ held' = held
      /\ UNCHANGED <<first_page_frame, n_free_page_frames, phase, scanVars, held, block>>
      /\ call' = call /\ level' = level /\ table' = table
  BY DEF LinkTable, callerVars
<1>3. /\ at # "mem_init" /\ at # "start_modules" /\ kernel_pml4_table' = kernel_pml4_table
      /\ kernel_pml4_table \in spaces /\ Asked' = Asked
  BY <1>1 DEF Filling, BootInv, BootControl, bootVars, setupVars, Asked
<1>4. CallPair \in Asked /\ CallPair.page = call.vaddr
  BY <1>1, <1>3 DEF KernelMapInv, CallPair
<1>5. /\ Tree(mem', spaces', Pdpts', Pdts', PageTables')
      /\ Partition(held', spaces', Pdpts', Pdts', PageTables', {}, data')
  BY <1>1, <1>2, TreeNext DEF InFlight
<1>6. Partition(held, spaces, Pdpts, Pdts, PageTables, {block}, data)
  BY <1>1, <1>2, InvTree DEF InFlight
<1>7. /\ level \in {1, 2, 3} /\ level \in Levels /\ level < 4 /\ level + 1 \in Levels
      /\ call.vaddr \in VPage /\ block \in Page
  BY <1>1, <1>2, CallFacts DEF PagingInv, WalkTypes, WalkState, Levels, MemInv, MemTypeOK
<1>8. Reaches(mem', kernel_pml4_table, call.vaddr, level + 1, block)
  <2>1. Reaches(mem', kernel_pml4_table, call.vaddr, level, table)
    BY <1>1, <1>2, <1>3 DEF PagingInv, WalkState
  <2>2. Differs(mem, mem', table, Slot, Pointing(block))
    BY <1>1, <1>2, <1>7, EntrySet
  <2>3. Present(mem'[table][call.vaddr[level]]) /\ mem'[table][call.vaddr[level]].addr = block
    BY <1>1, <1>2, <1>7, <2>2, EntrySet DEF Differs, Slot
  <2> QED
    BY <1>7, <2>1, <2>3, ReachesNext
<1>9. /\ level = 1 => Leads(mem', kernel_pml4_table', Asked', 2, block)
      /\ level = 2 => Leads(mem', kernel_pml4_table', Asked', 3, block)
      /\ level = 3 => Leads(mem', kernel_pml4_table', Asked', 4, block)
  BY <1>3, <1>4, <1>8 DEF Leads
<1>10. level = 1 \/ level = 2 \/ level = 3
  BY <1>7
<1>11. \A l \in {2, 3, 4} : \A s :
         Leads(mem, kernel_pml4_table, Asked, l, s) => Leads(mem', kernel_pml4_table', Asked', l, s)
  BY <1>1, <1>3, StillLeads
<1>12. \A s : /\ Leads(mem', kernel_pml4_table', Asked', 2, s) => s \in Pdpts'
              /\ Leads(mem', kernel_pml4_table', Asked', 3, s) => s \in Pdts'
              /\ Leads(mem', kernel_pml4_table', Asked', 4, s) => s \in PageTables'
  <2>1. ASSUME NEW l \in {2, 3, 4}, NEW s, Leads(mem', kernel_pml4_table', Asked', l, s)
        PROVE  /\ l = 2 => s \in Pdpts'
               /\ l = 3 => s \in Pdts'
               /\ l = 4 => s \in PageTables'
    <3>1. PICK d \in Asked : Reaches(mem', kernel_pml4_table, d.page, l, s)
      BY <1>3, <2>1 DEF Leads
    <3>2. d.page \in VPage /\ l \in Levels
      BY AskedPages DEF Levels
    <3> QED
      BY <1>1, <1>3, <1>5, <3>1, <3>2, ReachesLevel
  <2> QED
    BY <2>1
<1>13. \A s \in Pdpts' \cup Pdts' \cup PageTables' :
         s = block \/ s \in Pdpts \cup Pdts \cup PageTables
  BY <1>1, <1>2, <1>5, <1>6 DEF Partition
<1>14. /\ \A s \in Pdpts : Leads(mem', kernel_pml4_table', Asked', 2, s) /\ s \in Pdpts'
       /\ \A s \in Pdts : Leads(mem', kernel_pml4_table', Asked', 3, s) /\ s \in Pdts'
       /\ \A s \in PageTables : Leads(mem', kernel_pml4_table', Asked', 4, s) /\ s \in PageTables'
  BY <1>3, <1>11, <1>12 DEF StructuresAsked
<1>15. Pdpts' \cap Pdts' = {} /\ Pdpts' \cap PageTables' = {} /\ Pdts' \cap PageTables' = {}
  BY <1>5 DEF Partition
<1>16. ASSUME NEW s, s # block \/ level # 1, s \in Pdpts'
       PROVE  Leads(mem', kernel_pml4_table', Asked', 2, s)
  BY <1>9, <1>10, <1>12, <1>13, <1>14, <1>15, <1>16
<1>17. ASSUME NEW s, s # block \/ level # 2, s \in Pdts'
       PROVE  Leads(mem', kernel_pml4_table', Asked', 3, s)
  BY <1>9, <1>10, <1>12, <1>13, <1>14, <1>15, <1>17
<1>18. ASSUME NEW s, s # block \/ level # 3, s \in PageTables'
       PROVE  Leads(mem', kernel_pml4_table', Asked', 4, s)
  BY <1>9, <1>10, <1>12, <1>13, <1>14, <1>15, <1>18
<1> QED
  BY <1>9, <1>16, <1>17, <1>18 DEF StructuresAsked

LEMMA AskedStep ==
  ASSUME RootsClean, BootInv, KernelMapInv, StructuresAsked, [BootNext]_allVars
  PROVE  StructuresAsked'
<1>1. CASE at' = "mem_init" \/ at' = "start_modules"
  BY <1>1 DEF StructuresAsked
<1>2. CASE StartKernelMap
  BY <1>2, StartKernelMapAsked
<1>3. ASSUME at' # "mem_init", at' # "start_modules", ~ StartKernelMap
      PROVE  /\ at # "mem_init" /\ at # "start_modules" /\ PagingInv
             /\ kernel_pml4_table' = kernel_pml4_table
  <2>1. /\ at # "mem_init" /\ at # "start_modules"
        /\ kernel_pml4_table' = kernel_pml4_table
    BY <1>3 DEF BootNext, MemInitStep, NoFrame, MapKernelPage, MapHhdmPage, MapNow, MapStepNow,
         NextKernelEntry, PagingInit, StartFaults, StartGetsBlock, bootVars, allVars
  <2> QED
    BY <2>1 DEF BootInv
<1>4. ASSUME at' # "mem_init", at' # "start_modules",
             NoFrame \/ MapKernelPage \/ MapHhdmPage \/ NextKernelEntry \/ PagingInit
               \/ StartFaults \/ StartGetsBlock \/ UNCHANGED allVars
      PROVE  StructuresAsked'
  <2>1. mem' = mem /\ spaces' = spaces /\ ~ StartKernelMap
    BY <1>4 DEF NoFrame, CallerFails, GetPhysBlockFails, MapKernelPage, MapHhdmPage, MapNow,
         NextKernelEntry, PagingInit, StartFaults, StartGetsBlock, StartKernelMap, allVars,
         pagingVars, memVars, callerVars, bootVars
  <2>2. Asked \subseteq Asked'
    <3>1. CASE MapKernelPage \/ MapHhdmPage
      BY <3>1, MapNowExact
    <3>2. CASE NextKernelEntry \/ PagingInit \/ StartFaults \/ StartGetsBlock
      BY <3>2, QuietExact
    <3>3. CASE NoFrame \/ UNCHANGED allVars
      BY <3>3 DEF NoFrame, allVars, bootVars, setupVars, Asked
    <3> QED
      BY <1>4, <3>1, <3>2, <3>3
  <2> QED
    BY <1>3, <1>4, <2>1, <2>2, SameStructuresAsked
<1>5. CASE MapStepNow
  <2>1. /\ PagingInv /\ Filling /\ MapStep /\ UNCHANGED bootVars /\ spaces' = spaces /\ pc # "idle"
    BY <1>5, MapStepNowBoot
  <2>2. /\ at # "mem_init" /\ at # "start_modules" /\ kernel_pml4_table' = kernel_pml4_table
        /\ Asked' = Asked
    BY <2>1 DEF Filling, bootVars, setupVars, Asked
  <2>3. CASE LinkTable
    BY <1>5, <2>3, LinkTableAsked
  <2>4. CASE ~ LinkTable
    <3>1. \A s \in spaces \cup Pdpts \cup Pdts : mem'[s] = mem[s]
      BY <2>1, <2>4, MapStepSpares
    <3> QED
      BY <2>1, <2>2, <3>1, SameStructuresAsked
  <2> QED
    BY <2>3, <2>4
<1> QED
  BY <1>1, <1>2, <1>4, <1>5 DEF BootNext, MemInitStep, bootVars

-----------------------------------------------------------------------------
(***************************************************************************)
(* How many structures that takes: one for each way the indices of a page  *)
(* start, down to the third.                                               *)
(***************************************************************************)

Starts(D) == UNION {{SubSeq(d.page, 1, l) : d \in D} : l \in 1 .. 3}

(* The structure that the indices p lead to. *)
Place(m, r, p) ==
  IF Len(p) = 1 THEN Entry1(m, r, p).addr
  ELSE IF Len(p) = 2 THEN Entry2(m, r, p).addr
  ELSE Entry3(m, r, p).addr

LEMMA StartFacts ==
  ASSUME NEW v \in VPage, NEW l \in 1 .. 3, NEW p, p = SubSeq(v, 1, l)
  PROVE  /\ p \in Seq(Index) /\ Len(p) = l
         /\ \A i \in 1 .. l : p[i] = v[i]
<1>1. l \in Int /\ \A i \in 1 .. l : v[i] \in Index
  BY DEF VPage, Levels
<1>2. /\ p \in Seq(Index)
      /\ Len(p) = IF 1 <= l THEN l - 1 + 1 ELSE 0
      /\ \A i \in 1 .. l - 1 + 1 : p[i] = v[1 + i - 1]
  BY <1>1, SubSeqProperties
<1> QED
  BY <1>1, <1>2

LEMMA SameStart ==
  ASSUME NEW u \in VPage, NEW v \in VPage, NEW l \in 1 .. 3,
         \A i \in 1 .. l : u[i] = v[i]
  PROVE  SubSeq(u, 1, l) = SubSeq(v, 1, l)
<1>1. PICK p, q : p = SubSeq(u, 1, l) /\ q = SubSeq(v, 1, l)
  OBVIOUS
<1>2. /\ p \in Seq(Index) /\ q \in Seq(Index) /\ Len(p) = l /\ Len(q) = l
      /\ \A i \in 1 .. l : p[i] = u[i] /\ q[i] = v[i]
  BY <1>1, StartFacts
<1>3. p = q
  BY <1>2, SeqEqual
<1> QED
  BY <1>1, <1>3

(* Where the walk of a page that is mapped gets to.                        *)
LEMMA PlaceReached ==
  ASSUME NEW m, NEW r, NEW v \in VPage, TranslationIn(m, r, v) # Unmapped,
         NEW l \in 1 .. 3
  PROVE  Reaches(m, r, v, l + 1, Place(m, r, SubSeq(v, 1, l)))
<1>1. Present(Entry1(m, r, v)) /\ Present(Entry2(m, r, v)) /\ Present(Entry3(m, r, v))
  BY DEF TranslationIn
<1>2. PICK p : p = SubSeq(v, 1, l)
  OBVIOUS
<1>3. Len(p) = l /\ \A i \in 1 .. l : p[i] = v[i]
  BY <1>2, StartFacts
<1>4. CASE l = 1
  <2>1. Len(p) = 1 /\ p[1] = v[1]
    BY <1>3, <1>4
  <2>2. Place(m, r, p) = Entry1(m, r, v).addr
    BY <2>1 DEF Place, Entry1
  <2> QED
    BY <1>1, <1>2, <1>4, <2>2 DEF Reaches
<1>5. CASE l = 2
  <2>1. Len(p) = 2 /\ p[1] = v[1] /\ p[2] = v[2]
    BY <1>3, <1>5
  <2>2. Place(m, r, p) = Entry2(m, r, v).addr
    BY <2>1 DEF Place, Entry1, Entry2
  <2> QED
    BY <1>1, <1>2, <1>5, <2>2 DEF Reaches
<1>6. CASE l = 3
  <2>1. Len(p) = 3 /\ p[1] = v[1] /\ p[2] = v[2] /\ p[3] = v[3]
    BY <1>3, <1>6
  <2>2. Place(m, r, p) = Entry3(m, r, v).addr
    BY <2>1 DEF Place, Entry1, Entry2, Entry3
  <2> QED
    BY <1>1, <1>2, <1>6, <2>2 DEF Reaches
<1> QED
  BY <1>4, <1>5, <1>6

(* Two walks under a root that get to the same structure took the same way.*)
LEMMA SameWay ==
  ASSUME NEW m, NEW r, NEW S2, NEW S3, NEW S4, Tree(m, {r}, S2, S3, S4), Apart({r}, S2, S3, S4),
         NEW u \in VPage, NEW v \in VPage, NEW l \in 1 .. 3, NEW s,
         Reaches(m, r, u, l + 1, s), Reaches(m, r, v, l + 1, s)
  PROVE  \A i \in 1 .. l : u[i] = v[i]
<1> DEFINE inner == {r} \cup S2 \cup S3
<1>1. /\ v[1] \in Index /\ v[2] \in Index /\ v[3] \in Index
      /\ u[1] \in Index /\ u[2] \in Index /\ u[3] \in Index
  BY DEF VPage, Levels
<1>2. \A q, t \in inner, i, j \in Index :
        Present(m[q][i]) /\ Present(m[t][j]) /\ m[q][i].addr = m[t][j].addr => q = t /\ i = j
  <2>1. Private(m, inner)
    BY DEF Tree
  <2> HIDE DEF inner
  <2> QED
    BY <2>1 DEF Private
<1>3. ASSUME Present(Entry1(m, r, u)), Present(Entry1(m, r, v)),
             Entry1(m, r, u).addr = Entry1(m, r, v).addr
      PROVE  u[1] = v[1]
  BY <1>1, <1>2, <1>3 DEF Entry1
<1>4. CASE l = 1
  <2>1. /\ Present(Entry1(m, r, u)) /\ Present(Entry1(m, r, v))
        /\ Entry1(m, r, u).addr = Entry1(m, r, v).addr
    BY <1>4 DEF Reaches
  <2> QED
    BY <1>3, <1>4, <2>1
<1>5. CASE l = 2
  <2>1. /\ Present(Entry1(m, r, u)) /\ Present(Entry1(m, r, v))
        /\ Present(Entry2(m, r, u)) /\ Present(Entry2(m, r, v))
        /\ Entry2(m, r, u).addr = Entry2(m, r, v).addr
    BY <1>5 DEF Reaches
  <2>2. Entry1(m, r, u).addr \in S2 /\ Entry1(m, r, v).addr \in S2
    BY <2>1, OnTheWay
  <2>3. Entry1(m, r, u).addr = Entry1(m, r, v).addr /\ u[2] = v[2]
    BY <1>1, <1>2, <2>1, <2>2 DEF Entry2
  <2> QED
    BY <1>3, <1>5, <2>1, <2>3
<1>6. CASE l = 3
  <2>1. /\ Present(Entry1(m, r, u)) /\ Present(Entry1(m, r, v))
        /\ Present(Entry2(m, r, u)) /\ Present(Entry2(m, r, v))
        /\ Present(Entry3(m, r, u)) /\ Present(Entry3(m, r, v))
        /\ Entry3(m, r, u).addr = Entry3(m, r, v).addr
    BY <1>6 DEF Reaches
  <2>2. {r} \cap S2 = {} /\ {r} \cap S3 = {} /\ S2 \cap S3 = {}
    BY DEF Apart
  <2> QED
    BY <1>6, <2>1, <2>2, OneWay
<1> QED
  BY <1>4, <1>5, <1>6

(* The structures S2, S3 and S4 under r serve the pages of D, each page of *)
(* D is mapped, and each structure is on the way of one.                   *)
Serves(m, r, S2, S3, S4, D) ==
  /\ Tree(m, {r}, S2, S3, S4)
  /\ Apart({r}, S2, S3, S4)
  /\ \A d \in D : d.page \in VPage /\ TranslationIn(m, r, d.page) # Unmapped
  /\ \A s \in S2 : Leads(m, r, D, 2, s)
  /\ \A s \in S3 : Leads(m, r, D, 3, s)
  /\ \A s \in S4 : Leads(m, r, D, 4, s)

(* So they are as many as the ways the indices of those pages start.       *)
LEMMA StructuresCounted ==
  ASSUME NEW m, NEW r, NEW S2, NEW S3, NEW S4, NEW D, Serves(m, r, S2, S3, S4, D),
         IsFiniteSet(S2 \cup S3 \cup S4)
  PROVE  Cardinality(S2 \cup S3 \cup S4) = Cardinality(Starts(D))
<1> USE DEF Serves
<1> DEFINE P == Starts(D)
           S == S2 \cup S3 \cup S4
           f == [p \in P |-> Place(m, r, p)]
<1>1. ASSUME NEW p \in P
      PROVE  \E d \in D, l \in 1 .. 3 : /\ p = SubSeq(d.page, 1, l)
                                        /\ Reaches(m, r, d.page, l + 1, Place(m, r, p))
  <2>1. PICK l \in 1 .. 3 : \E d \in D : p = SubSeq(d.page, 1, l)
    BY DEF Starts
  <2>2. PICK d \in D : p = SubSeq(d.page, 1, l)
    BY <2>1
  <2>3. Reaches(m, r, d.page, l + 1, Place(m, r, p))
    BY <2>2, PlaceReached
  <2> QED
    BY <2>2, <2>3
<1>2. ASSUME NEW d \in D, NEW l \in 1 .. 3
      PROVE  SubSeq(d.page, 1, l) \in P
  BY DEF Starts
<1>3. ASSUME NEW v \in VPage, NEW l \in 1 .. 3, NEW s, Reaches(m, r, v, l + 1, s)
      PROVE  /\ l = 1 => s \in S2
             /\ l = 2 => s \in S3
             /\ l = 3 => s \in S4
  <2>1. l + 1 \in Levels /\ r \in {r}
    BY DEF Levels
  <2> QED
    BY <1>3, <2>1, ReachesLevel
<1>4. S2 \cap S3 = {} /\ S2 \cap S4 = {} /\ S3 \cap S4 = {}
  BY DEF Apart
<1>5. ASSUME NEW v \in VPage, NEW l \in 1 .. 3, NEW u \in VPage, NEW k \in 1 .. 3, NEW s,
             Reaches(m, r, v, l + 1, s), Reaches(m, r, u, k + 1, s)
      PROVE  SubSeq(v, 1, l) = SubSeq(u, 1, k)
  <2>1. l = k
    <3>1. /\ l = 1 \/ l = 2 \/ l = 3
          /\ k = 1 \/ k = 2 \/ k = 3
      OBVIOUS
    <3> QED
      BY <1>3, <1>4, <1>5, <3>1
  <2>2. \A i \in 1 .. l : v[i] = u[i]
    BY <1>5, <2>1, SameWay
  <2> QED
    BY <2>1, <2>2, SameStart
<1> HIDE DEF P
<1>6. f \in [P -> S]
  <2>1. ASSUME NEW p \in P
        PROVE  Place(m, r, p) \in S
    <3>1. PICK d \in D, l \in 1 .. 3 : Reaches(m, r, d.page, l + 1, Place(m, r, p))
      BY <1>1
    <3>2. d.page \in VPage /\ (l = 1 \/ l = 2 \/ l = 3)
      OBVIOUS
    <3> QED
      BY <1>3, <3>1, <3>2
  <2> QED
    BY <2>1
<1>7. \A p, q \in P : f[p] = f[q] => p = q
  <2> SUFFICES ASSUME NEW p \in P, NEW q \in P, Place(m, r, p) = Place(m, r, q)
               PROVE  p = q
    OBVIOUS
  <2>1. PICK d \in D, l \in 1 .. 3 : /\ p = SubSeq(d.page, 1, l)
                                     /\ Reaches(m, r, d.page, l + 1, Place(m, r, p))
    BY <1>1
  <2>2. PICK c \in D, k \in 1 .. 3 : /\ q = SubSeq(c.page, 1, k)
                                     /\ Reaches(m, r, c.page, k + 1, Place(m, r, q))
    BY <1>1
  <2> QED
    BY <1>5, <2>1, <2>2
<1>8. \A s \in S : \E p \in P : f[p] = s
  <2>1. ASSUME NEW l \in 1 .. 3, NEW s, Leads(m, r, D, l + 1, s)
        PROVE  \E p \in P : f[p] = s
    <3>1. PICK d \in D : Reaches(m, r, d.page, l + 1, s)
      BY <2>1 DEF Leads
    <3>2. PICK p \in P : p = SubSeq(d.page, 1, l)
      BY <1>2
    <3>3. Reaches(m, r, d.page, l + 1, Place(m, r, p))
      BY <3>2, PlaceReached
    <3>4. Place(m, r, p) = s
      BY <3>1, <3>3 DEF Reaches
    <3> QED
      BY <3>4
  <2>2. \A s \in S2 : Leads(m, r, D, 1 + 1, s)
    OBVIOUS
  <2>3. \A s \in S3 : Leads(m, r, D, 2 + 1, s)
    OBVIOUS
  <2>4. \A s \in S4 : Leads(m, r, D, 3 + 1, s)
    OBVIOUS
  <2> QED
    BY <2>1, <2>2, <2>3, <2>4
<1> HIDE DEF f, S
<1>9. f \in Bijection(P, S)
  BY <1>6, <1>7, <1>8 DEF Bijection, Injection, Surjection, IsInjective
<1>10. ExistsBijection(S, P)
  BY <1>9, Fun_ExistsBijSymmetric DEF ExistsBijection
<1>11. IsFiniteSet(S)
  BY DEF S
<1>12. Cardinality(P) = Cardinality(S)
  BY <1>10, <1>11, FS_Bijection
<1> QED
  BY <1>12 DEF P, S

LEMMA MapIsCounted ==
  ASSUME BootInv, KernelMapInv, StructuresAsked
  PROVE  StructuresNeeded
<1> SUFFICES ASSUME cr3 # NULL, at = "kernel_map"
             PROVE  Cardinality(held) = 1 + Cardinality(Starts(Wanted))
  BY DEF StructuresNeeded, Starts
<1> DEFINE r == kernel_pml4_table
           under == Pdpts \cup Pdts \cup PageTables
<1>1. PagingInv /\ Loaded /\ pc = "idle" /\ spaces = {r} /\ data = {} /\ at # "mem_init"
  BY DEF BootInv, BootControl, Loaded, Filling
<1>2. Asked = Wanted
  BY <1>1, AskedWanted
<1>3. Tree(mem, {r}, Pdpts, Pdts, PageTables) /\ Partition(held, {r}, Pdpts, Pdts, PageTables, {}, {})
  <2>1. InFlight = {}
    BY <1>1 DEF InFlight
  <2> QED
    BY <1>1, <2>1, InvTree
<1>4. Apart({r}, Pdpts, Pdts, PageTables)
  BY <1>3 DEF Partition, Apart
<1>5. ASSUME NEW d \in Wanted
      PROVE  d.page \in VPage /\ TranslationIn(mem, r, d.page) # Unmapped
  <2>1. d.page \in VPage
    BY <1>2, AskedPages
  <2>2. MapsExactly(mem, r, Wanted)
    BY <1>1, <1>2 DEF KernelMapInv
  <2>3. \A f : EveryRight(f) # Unmapped
    <3>1. \A f : EveryRight(f).bits # Unmapped.bits
      BY DEF EveryRight, Unmapped
    <3> QED
      BY <3>1
  <2> QED
    BY <2>1, <2>2, <2>3 DEF MapsExactly
<1>6. /\ \A s \in Pdpts : Leads(mem, r, Wanted, 2, s)
      /\ \A s \in Pdts : Leads(mem, r, Wanted, 3, s)
      /\ \A s \in PageTables : Leads(mem, r, Wanted, 4, s)
  BY <1>1, <1>2 DEF StructuresAsked
<1>7. held = under \cup {r} /\ r \notin under
  BY <1>3 DEF Partition
<1>8. IsFiniteSet(under)
  <2>1. IsFiniteSet(held)
    BY <1>1, FrameFacts, FS_Subset, InvTree
  <2> QED
    BY <1>7, <2>1, FS_Subset
<1>9. Cardinality(under) = Cardinality(Starts(Wanted))
  <2>1. Serves(mem, r, Pdpts, Pdts, PageTables, Wanted)
    BY <1>3, <1>4, <1>5, <1>6 DEF Serves
  <2> HIDE DEF r
  <2> QED
    BY <1>8, <2>1, StructuresCounted
<1> HIDE DEF under
<1>10. Cardinality(held) = Cardinality(under) + 1
  BY <1>7, <1>8, FS_AddElement
<1>11. Cardinality(under) \in Nat
  BY <1>8, FS_CardinalityType
<1> QED
  BY <1>9, <1>10, <1>11

(* When CR3 is loaded, exactly the frames are gone that any map of what    *)
(* setup_kernel_map was to map would take: one for the pml4, and one for   *)
(* each structure that one of the pages needs.                             *)
THEOREM StructuresCorrect == RootsClean => (BootSpec => []StructuresNeeded)
<1> SUFFICES ASSUME RootsClean PROVE BootSpec => []StructuresNeeded
  OBVIOUS
<1>1. BootStart => KernelMapInv /\ StructuresAsked
  BY DEF BootStart, KernelMapInv, StructuresAsked, Filling
<1>2. BootInv /\ KernelMapInv /\ StructuresAsked /\ [BootNext]_allVars =>
        KernelMapInv' /\ StructuresAsked'
  BY KernelMapStep, AskedStep
<1>3. BootInv /\ KernelMapInv /\ StructuresAsked => StructuresNeeded
  BY MapIsCounted
<1> QED
  BY <1>1, <1>2, <1>3, BootInvariance, PTL DEF BootSpec

==============================================================================
