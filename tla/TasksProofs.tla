------------------------------ MODULE TasksProofs ------------------------------
(***************************************************************************)
(* Proofs about the task table and the address spaces of tasks, for every  *)
(* number of slots, every size and place of the modules, and whatever the  *)
(* frames held before.                                                     *)
(***************************************************************************)
EXTENDS Tasks, AddressSpaceProofs

-----------------------------------------------------------------------------
(***************************************************************************)
(* Who has what, at each place of init_task_space_from_mem.                *)
(***************************************************************************)

Steps == {"off", "idle", "pml4_table", "root", "store_root", "stack", "map_stack", "map_exec"}

(* *pml4 names the new space. *)
Building == step \in {"stack", "map_stack", "map_exec"}

(* The space in _start's local variable is complete. *)
Finished == step = "idle" /\ pml4 = LOCAL_VARIABLE /\ task_pml4 # NULL

(* The arguments that _start, other callers and new_task pass. *)
Arguments ==
  IF pml4 = LOCAL_VARIABLE
  THEN pmem_offset \in Modules /\ n_blocks \in 0 .. N_BLOCKS
  ELSE n_blocks = 0

(* The call of map_page_specific_pml4 for the stack, and the one for the   *)
(* page of the executable that was counted last.                           *)
StackCall == [root |-> Root, vaddr |-> StackPage, paddr |-> stack, flags |-> {"W", "U"}]
ExecCall ==
  [root |-> Root, vaddr |-> ExecPages[bn], paddr |-> pmem_offset + bn - 1, flags |-> {"U"}]

Control ==
  /\ step \in Steps
  /\ pc # "idle" => step = "map_exec" /\ call = IF bn = 0 THEN StackCall ELSE ExecCall
  /\ pml4 # LOCAL_VARIABLE => pml4 \in data
  /\ step = "off" => task_pml4 = NULL
  /\ step \in {"root", "store_root"} \/ Building \/ Finished => Arguments
  /\ step = "store_root" => block \in spaces
  /\ Building \/ Finished => Root \in spaces
  /\ step = "map_stack" \/ (step = "map_exec" /\ bn = 0) => stack \in data
  /\ step = "map_exec" => bn \in 0 .. n_blocks
  /\ Finished => bn = n_blocks

TasksInv == PagingInv /\ Control

LEMMA ModulePages ==
  ASSUME pmem_offset \in Modules, NEW k \in 1 .. N_BLOCKS
  PROVE  /\ pmem_offset \in Nat /\ pmem_offset + k - 1 \in Page \ Frame
         /\ ExecPages[k] \in VPage /\ ExecPages[k] # StackPage /\ k \in DOMAIN ExecPages
         /\ N_BLOCKS \in Nat
<1>1. Len(ExecPages) \in Nat /\ DOMAIN ExecPages = 1 .. Len(ExecPages)
  BY TasksAssumption
<1>2. k \in DOMAIN ExecPages /\ N_BLOCKS \in Nat
  BY <1>1, TasksAssumption
<1>3. pmem_offset \in Nat
  BY PageAssumption, TasksAssumption
<1>4. pmem_offset + k - 1 \in pmem_offset .. pmem_offset + N_BLOCKS - 1
  BY <1>2, <1>3
<1> QED
  BY <1>2, <1>3, <1>4, TasksAssumption

LEMMA BlocksNat ==
  /\ N_BLOCKS \in Nat
  /\ Arguments => n_blocks \in Nat /\ n_blocks <= N_BLOCKS
<1>1. N_BLOCKS \in Nat
  <2>1. Len(ExecPages) \in Nat
    BY TasksAssumption
  <2> QED
    BY <2>1, TasksAssumption
<1> QED
  BY <1>1 DEF Arguments

(* A call for the space of a module: that of _start is one like any other. *)
ModuleCall == \E n \in 0 .. N_BLOCKS : ModuleSpace(n)

LEMMA ModuleCallIs == StartModule \/ OtherCaller => ModuleCall
<1>1. 1 \in 0 .. N_BLOCKS
  BY TasksAssumption
<1> QED
  BY <1>1 DEF StartModule, OtherCaller, ModuleCall

LEMMA RootSame ==
  ASSUME pml4' = pml4, task_pml4' = task_pml4, pml4 # LOCAL_VARIABLE => mem'[pml4] = mem[pml4]
  PROVE  Root' = Root
BY DEF Root, Marker

(* The call under way has no effect on a frame of data, nor on who has     *)
(* which frame.                                                            *)
LEMMA CallKeepsData ==
  ASSUME PagingInv, MapStep
  PROVE  /\ \A d \in data : mem'[d] = mem[d]
         /\ spaces' = spaces /\ data' = data
<1>1. spaces' = spaces /\ data' = data
  BY DEF MapStep, Descend, AllocTable, AllocFails, ZeroTable, LinkTable, WriteEntry, callerVars
<1>2. data \in SUBSET Page
  BY InvTree DEF Partition
<1>3. CASE Descend \/ AllocTable \/ AllocFails
  BY <1>1, <1>3 DEF Descend, AllocTable, AllocFails, GetPhysBlock, GetPhysBlockFails, memVars
<1>4. CASE ZeroTable
  <2>1. mem' = [mem EXCEPT ![block] = Zeroed] /\ block \notin data
    BY <1>4, InvTree DEF ZeroTable, Partition, InFlight
  <2> QED
    BY <1>1, <1>2, <2>1, InvTree DEF Memory
<1>5. CASE LinkTable \/ WriteEntry
  <2>1. pc # "idle"
    BY <1>5 DEF LinkTable, WriteEntry
  <2>2. table \notin data
    BY <2>1, TableLevel
  <2>3. \E w : mem' = [mem EXCEPT ![table][Slot] = w]
    BY <1>5 DEF LinkTable, WriteEntry, SetEntry
  <2> QED
    BY <1>1, <1>2, <2>2, <2>3, InvTree DEF Memory
<1> QED
  BY <1>1, <1>3, <1>4, <1>5 DEF MapStep

-----------------------------------------------------------------------------
(***************************************************************************)
(* The frames, action by action.                                           *)
(***************************************************************************)

LEMMA TasksStartInv == TasksStart => TasksInv
<1> SUFFICES ASSUME TasksStart PROVE TasksInv
  OBVIOUS
<1>1. PagingInv /\ pc = "idle" /\ step = "off" /\ pml4 = LOCAL_VARIABLE /\ task_pml4 = NULL
  BY PagingStartInv DEF TasksStart, PagingStart
<1>2. Control
  BY <1>1 DEF Control, Steps, Building, Finished
<1> QED
  BY <1>1, <1>2 DEF TasksInv

(* No caller takes part in mem_init.                                       *)
LEMMA ScanTasks ==
  ASSUME TasksInv, Scan, UNCHANGED <<callerVars, walkVars, taskVars>>
  PROVE  TasksInv' /\ Kept /\ spaces = {} /\ data = {} /\ pc = "idle" /\ Root' = Root
<1>1. PagingInv' /\ Kept
  BY ScanStep DEF TasksInv
<1>2. spaces = {} /\ data = {}
  <2>1. held = {}
    BY DEF Scan, MemInit, PushFrame, Scanning, NextEntry, ScanDone, TasksInv, PagingInv, MemInv,
           ScanState
  <2> QED
    BY <2>1, InvTree DEF Partition, TasksInv
<1>3. pc = "idle"
  BY <1>2 DEF TasksInv, PagingInv, WalkState
<1>4. pml4 = LOCAL_VARIABLE /\ Root' = Root
  BY <1>2 DEF TasksInv, Control, taskVars, spaceVars, argVars, Root
<1>5. Control'
  BY <1>2, <1>3, <1>4
     DEF TasksInv, Control, Building, Finished, Arguments, taskVars, spaceVars, argVars,
         callerVars, walkVars
<1> QED
  BY <1>1, <1>2, <1>3, <1>4, <1>5 DEF TasksInv

(* scheduler_init, the claim of a slot, a call for a module and the return *)
(* touch no frame.                                                         *)
LEMMA TableTasks ==
  ASSUME TasksInv, SchedulerInit \/ NewTask \/ ModuleCall \/ SpaceDone
  PROVE  TasksInv' /\ Kept /\ UNCHANGED pagingVars /\ pc = "idle"
<1>1. UNCHANGED pagingVars /\ pc = "idle"
  BY DEF SchedulerInit, NewTask, ModuleCall, ModuleSpace, SpaceDone, Idle
<1>2. PagingInv' /\ Kept
  BY <1>1, PagingStutter DEF TasksInv
<1>3. /\ spaces' = spaces /\ data' = data /\ pc' = "idle" /\ mem' = mem
  BY <1>1 DEF pagingVars, callerVars, memVars, walkVars
<1>4. ASSUME SchedulerInit \/ NewTask
      PROVE  Control'
  BY <1>3, <1>4 DEF TasksInv, Control, Steps, SchedulerInit, NewTask, Building, Finished,
                    spaceVars, argVars
<1>5. ASSUME ModuleCall
      PROVE  Control'
  BY <1>3, <1>5 DEF TasksInv, Control, Steps, ModuleCall, ModuleSpace, Building, Finished, Arguments
<1>6. ASSUME SpaceDone
      PROVE  Control'
  <2>1. /\ step = "map_exec" /\ step' = "idle" /\ bn >= n_blocks
        /\ UNCHANGED <<pml4, pmem_offset, n_blocks, task_pml4, stack, bn>>
    BY <1>6 DEF SpaceDone, spaceVars, argVars
  <2>2. /\ Arguments /\ Root \in spaces /\ bn = n_blocks
        /\ pml4 # LOCAL_VARIABLE => pml4 \in data
    BY <2>1, BlocksNat DEF TasksInv, Control, Building
  <2>3. Root' = Root /\ Arguments'
    BY <1>3, <2>1, <2>2, RootSame DEF Arguments
  <2> QED
    BY <1>2, <1>3, <2>1, <2>2, <2>3 DEF TasksInv, Control, Steps, Building, Finished
<1> QED
  BY <1>1, <1>2, <1>3, <1>4, <1>5, <1>6 DEF TasksInv

(* The ASSERT of get_phys_block.                                           *)
LEMMA FailsTasks ==
  ASSUME TasksInv, CallerFails, UNCHANGED taskVars
  PROVE  /\ TasksInv' /\ Kept /\ pc = "idle" /\ Root' = Root
         /\ UNCHANGED <<mem, callerVars, walkVars>>
<1>1. PagingInv' /\ Kept
  BY FailsStep DEF TasksInv
<1>2. pc = "idle" /\ UNCHANGED <<mem, callerVars, walkVars>> /\ block' = block
  BY DEF CallerFails, Idle, GetPhysBlockFails
<1>3. Root' = Root
  BY <1>2, RootSame DEF taskVars, spaceVars, argVars
<1>4. Control'
  BY <1>2, <1>3 DEF TasksInv, Control, Building, Finished, Arguments, taskVars, spaceVars,
                    argVars, callerVars, walkVars
<1> QED
  BY <1>1, <1>2, <1>3, <1>4 DEF TasksInv

(* A frame for a new task's pml4_table, or for a stack.                    *)
LEMMA DataBlockTasks ==
  ASSUME TasksInv, NewTaskBlock \/ GetStack
  PROVE  /\ TasksInv' /\ Kept /\ pc = "idle" /\ pc' = pc /\ mem' = mem /\ spaces' = spaces
         /\ first_page_frame \in Page /\ first_page_frame # NULL
         /\ first_page_frame \in Frame /\ first_page_frame \notin held
         /\ data' = data \cup {first_page_frame}
<1>1. GetDataBlock
  BY DEF NewTaskBlock, GetStack
<1>2. PagingInv' /\ Kept
  BY <1>1, GetDataBlockStep DEF TasksInv
<1>3. /\ pc = "idle" /\ mem' = mem /\ spaces' = spaces /\ pc' = pc
      /\ data' = data \cup {first_page_frame}
  BY <1>1, Handed DEF GetDataBlock, Idle, walkVars, TasksInv
<1>4. first_page_frame \in FreeSet
  BY <1>1, GetPhysBlockInv DEF GetDataBlock, TasksInv, PagingInv
<1>5. /\ first_page_frame \in Frame /\ first_page_frame # NULL /\ first_page_frame \notin held
      /\ first_page_frame \in Page
  BY <1>4, FrameFacts DEF FreeSet, Added
<1>6. Control'
  <2>1. CASE NewTaskBlock
    BY <1>3, <1>5, <2>1
       DEF NewTaskBlock, TasksInv, Control, Steps, Building, Finished, Arguments,
           LOCAL_VARIABLE
  <2>2. CASE GetStack
    <3>1. /\ step = "stack" /\ step' = "map_stack" /\ stack' = first_page_frame
          /\ UNCHANGED <<pml4, pmem_offset, n_blocks, task_pml4>>
      BY <2>2 DEF GetStack, argVars
    <3>2. Root' = Root /\ Arguments /\ Arguments' /\ Root \in spaces
      BY <1>3, <3>1, RootSame DEF TasksInv, Control, Arguments, Building
    <3> QED
      BY <1>3, <3>1, <3>2 DEF TasksInv, Control, Steps, Building, Finished
  <2> QED
    BY <2>1, <2>2
<1> QED
  BY <1>2, <1>3, <1>5, <1>6 DEF TasksInv

LEMMA GetRootTasks ==
  ASSUME RootsClean, TasksInv, GetRoot
  PROVE  /\ TasksInv' /\ Kept /\ pc = "idle" /\ pc' = pc /\ mem' = mem /\ data' = data
         /\ block' \in Page /\ Clean(mem, block') /\ block' \notin held
         /\ spaces' = spaces \cup {block'}
<1>1. NewSpace
  BY DEF GetRoot
<1>2. PagingInv' /\ Kept
  BY <1>1, NewSpaceStep DEF TasksInv
<1>3. /\ pc = "idle" /\ pc' = pc /\ mem' = mem /\ data' = data
      /\ block' \in Page /\ Clean(mem, block') /\ block' \notin held
      /\ spaces' = spaces \cup {block'}
  BY <1>1, Handed DEF NewSpace, Idle, walkVars, TasksInv, Clean
<1>4. Control'
  BY <1>3 DEF GetRoot, TasksInv, Control, Steps, Building, Finished, Arguments, spaceVars, argVars
<1> QED
  BY <1>2, <1>3, <1>4 DEF TasksInv

(* *pml4 = the block, where pml4 points to a variable ...                  *)
LEMMA StoreLocalTasks ==
  ASSUME TasksInv, StoreLocal
  PROVE  TasksInv' /\ Kept /\ pc = "idle" /\ UNCHANGED pagingVars /\ Root' = block
<1>1. UNCHANGED pagingVars /\ step = "store_root"
  BY DEF StoreLocal
<1>2. PagingInv' /\ Kept
  BY <1>1, PagingStutter DEF TasksInv
<1>3. pc = "idle" /\ pc' = pc /\ spaces' = spaces /\ data' = data
  BY <1>1 DEF TasksInv, Control, pagingVars, callerVars, walkVars
<1>4. Root' = block
  BY DEF StoreLocal, Root, argVars
<1>5. Control'
  BY <1>3, <1>4 DEF StoreLocal, TasksInv, Control, Steps, Building, Finished, Arguments, argVars
<1> QED
  BY <1>1, <1>2, <1>3, <1>4, <1>5 DEF TasksInv

(* ... or to a frame of data.                                              *)
LEMMA StoreInFrameTasks ==
  ASSUME TasksInv, StoreInFrame
  PROVE  /\ TasksInv' /\ Kept /\ pc = "idle" /\ pc' = pc /\ UNCHANGED callerVars
         /\ \A s \in spaces \cup Pdpts \cup Pdts \cup PageTables : mem'[s] = mem[s]
         /\ Root' = block
<1>1. /\ step = "store_root" /\ pml4 # LOCAL_VARIABLE /\ SetMarker(pml4, block)
      /\ UNCHANGED <<first_page_frame, n_free_page_frames, phase, scanVars, held, block>>
      /\ UNCHANGED <<callerVars, walkVars, tasks, current_task, new, spaceVars>>
  BY DEF StoreInFrame
<1>2. /\ pc = "idle" /\ pc' = pc /\ spaces' = spaces /\ data' = data /\ block' = block
      /\ held' = held
  BY <1>1 DEF TasksInv, Control, callerVars, walkVars
<1>3. pml4 \in data /\ pml4 \in held /\ pml4 \in Page /\ block \in Page
  BY <1>1, InvTree DEF TasksInv, Control, Partition, PagingInv, MemInv, MemTypeOK
<1>4. PICK contents : contents = [mem[pml4] EXCEPT ![0] = Pointer(block)]
  OBVIOUS
<1>5. contents \in [Index -> Word] /\ mem' = [mem EXCEPT ![pml4] = contents]
  BY <1>1, <1>3, <1>4, PointerFacts, PageAssumption, InvTree DEF SetMarker, Memory, TasksInv
<1>6. MemInv'
  BY <1>1, <1>3, <1>5, HeldWrite DEF TasksInv, PagingInv
<1>7. \A s \in spaces \cup Pdpts \cup Pdts \cup PageTables : mem'[s] = mem[s]
  BY <1>3, <1>5, InvTree DEF Memory, Tree, Partition, TasksInv
<1>8. Tree(mem', spaces', Pdpts, Pdts, PageTables)
  BY <1>2, <1>7, InvTree, TreeSame DEF TasksInv
<1>9. Partition(held', spaces', Pdpts, Pdts, PageTables, InFlight', data')
  BY <1>2, InvTree DEF InFlight, TasksInv
<1>10. WalkState'
  BY <1>1, <1>2 DEF TasksInv, PagingInv, WalkState, walkVars
<1>11. PagingInv' /\ Kept
  <2>1. PagingInv'
    BY <1>1, <1>6, <1>8, <1>9, <1>10, Assembled DEF TasksInv, PagingInv, WalkTypes, walkVars
  <2> QED
    BY <1>7, <2>1 DEF Kept
<1>12. Root' = block
  <2>1. mem'[pml4][0] = Pointer(block)
    BY <1>3, <1>4, <1>5, InvTree, PageAssumption DEF Memory, TasksInv
  <2> QED
    BY <1>1, <2>1, PointerFacts DEF Root, Marker, spaceVars, argVars
<1>13. Control'
  BY <1>1, <1>2, <1>12
     DEF StoreInFrame, TasksInv, Control, Steps, Building, Finished, Arguments, spaceVars, argVars
<1> QED
  BY <1>1, <1>2, <1>7, <1>11, <1>12, <1>13 DEF TasksInv

(* The call for the stack, and the one for a page of the executable.       *)
LEMMA MapStackTasks ==
  ASSUME TasksInv, MapStack
  PROVE  /\ TasksInv' /\ Kept /\ pc = "idle" /\ pc' = "test" /\ UNCHANGED <<memVars, callerVars>>
         /\ Root' = Root /\ call' = StackCall' /\ level' = 1 /\ table' = Root
<1>1. /\ MapCall(Root, stack, StackPage, {"W", "U"}) /\ step = "map_stack" /\ step' = "map_exec"
      /\ UNCHANGED <<memVars, callerVars>> /\ bn' = 0
      /\ UNCHANGED <<pml4, task_pml4, stack, pmem_offset, n_blocks>>
  BY DEF MapStack, argVars
<1>2. /\ mem' = mem /\ spaces' = spaces /\ data' = data /\ pc = "idle" /\ pc' = "test"
      /\ call' = [root |-> Root, vaddr |-> StackPage, paddr |-> stack, flags |-> {"W", "U"}]
      /\ level' = 1 /\ table' = Root
  BY <1>1 DEF MapCall, Idle, FirstLevel, memVars, callerVars
<1>3. /\ Root \in spaces /\ stack \in data /\ Arguments
      /\ pml4 # LOCAL_VARIABLE => pml4 \in data
  BY <1>1 DEF TasksInv, Control, Building
<1>4. PagingInv' /\ Kept
  <2>1. stack \in Page
    BY <1>3, InvTree DEF Partition, TasksInv
  <2> QED
    BY <1>1, <1>3, <2>1, TasksAssumption, MapCallStep DEF TasksInv
<1>5. Root' = Root
  BY <1>1, <1>2, RootSame
<1>6. n_blocks \in Nat
  BY <1>3, BlocksNat
<1>7. call' = StackCall'
  BY <1>1, <1>2, <1>5 DEF StackCall
<1>8. Arguments'
  BY <1>1, <1>3 DEF Arguments
<1>9. Control'
  BY <1>1, <1>2, <1>3, <1>5, <1>6, <1>7, <1>8 DEF Control, Steps, Building, Finished
<1> QED
  BY <1>1, <1>2, <1>4, <1>5, <1>7, <1>9 DEF TasksInv

LEMMA MapExecTasks ==
  ASSUME TasksInv, MapExec
  PROVE  /\ TasksInv' /\ Kept /\ pc = "idle" /\ pc' = "test" /\ UNCHANGED <<memVars, callerVars>>
         /\ Root' = Root /\ call' = ExecCall'
         /\ pml4 = LOCAL_VARIABLE /\ Arguments
         /\ bn \in Nat /\ bn' = bn + 1 /\ bn' \in 1 .. N_BLOCKS
<1>1. /\ step = "map_exec" /\ step' = step /\ bn < n_blocks /\ bn' = bn + 1
      /\ MapCall(Root, pmem_offset + bn, ExecPages[bn + 1], {"U"})
      /\ UNCHANGED <<memVars, callerVars>>
      /\ UNCHANGED <<pml4, task_pml4, stack, pmem_offset, n_blocks>>
  BY DEF MapExec, ExecFrame, ExecFlags, argVars
<1>2. /\ mem' = mem /\ spaces' = spaces /\ data' = data /\ pc = "idle" /\ pc' = "test"
      /\ call' = [root |-> Root, vaddr |-> ExecPages[bn + 1], paddr |-> pmem_offset + bn,
                  flags |-> {"U"}]
  BY <1>1 DEF MapCall, Idle, memVars, callerVars
<1>3. Root \in spaces /\ Arguments /\ bn \in 0 .. n_blocks
  BY <1>1 DEF TasksInv, Control, Building
<1>4. /\ pml4 = LOCAL_VARIABLE /\ pmem_offset \in Modules /\ n_blocks \in 0 .. N_BLOCKS
      /\ bn \in Nat /\ N_BLOCKS \in Nat /\ bn + 1 \in 1 .. N_BLOCKS
  BY <1>1, <1>3, BlocksNat DEF Arguments
<1>5. /\ pmem_offset \in Nat /\ pmem_offset + bn \in Page /\ ExecPages[bn + 1] \in VPage
      /\ pmem_offset + bn = pmem_offset + (bn + 1) - 1
  <2>1. pmem_offset + (bn + 1) - 1 \in Page /\ ExecPages[bn + 1] \in VPage /\ pmem_offset \in Nat
    BY <1>4, ModulePages
  <2> QED
    BY <1>4, <2>1
<1>6. PagingInv' /\ Kept
  BY <1>1, <1>3, <1>5, TasksAssumption, MapCallStep DEF TasksInv
<1>7. Root' = Root
  BY <1>1, <1>2, <1>4, RootSame
<1>8. call' = ExecCall'
  BY <1>1, <1>2, <1>5, <1>7 DEF ExecCall
<1>9. Arguments'
  BY <1>1, <1>3 DEF Arguments
<1>10. Control'
  BY <1>1, <1>2, <1>3, <1>4, <1>7, <1>8, <1>9
     DEF Control, Steps, Building, Finished
<1> QED
  BY <1>1, <1>2, <1>3, <1>4, <1>6, <1>7, <1>8, <1>10 DEF TasksInv

(* A step of the call.                                                     *)
LEMMA MapStepTasks ==
  ASSUME TasksInv, MapStep, UNCHANGED taskVars
  PROVE  /\ TasksInv' /\ Kept /\ pc # "idle" /\ Root' = Root
         /\ spaces' = spaces /\ data' = data
<1>1. PagingInv' /\ Kept
  BY DescendStep, AllocTableStep, FailsStep, ZeroTableStep, LinkTableStep, WriteEntryStep
     DEF MapStep, TasksInv
<1>2. /\ \A d \in data : mem'[d] = mem[d]
      /\ spaces' = spaces /\ data' = data
  BY CallKeepsData DEF TasksInv
<1>3. /\ UNCHANGED <<tasks, current_task, new, step, pml4, pmem_offset, n_blocks, task_pml4,
                     stack, bn>>
  BY DEF taskVars, spaceVars, argVars
<1>4. pc # "idle" /\ (pc' # "idle" => call' = call)
  BY DEF MapStep, Descend, AllocTable, AllocFails, ZeroTable, LinkTable, WriteEntry, walkVars
<1>5. Root' = Root
  BY <1>2, <1>3, RootSame DEF TasksInv, Control
<1>6. StackCall' = StackCall /\ ExecCall' = ExecCall
  BY <1>3, <1>5 DEF StackCall, ExecCall
<1>7. step = "map_exec"
  BY <1>4 DEF TasksInv, Control
<1>8. Control'
  BY <1>2, <1>3, <1>4, <1>5, <1>6, <1>7
     DEF TasksInv, Control, Building, Finished, Arguments
<1> QED
  BY <1>1, <1>2, <1>4, <1>5, <1>8 DEF TasksInv

LEMMA StutterTasks ==
  ASSUME TasksInv, UNCHANGED schedVars
  PROVE  TasksInv' /\ Kept
<1>1. /\ UNCHANGED pagingVars /\ UNCHANGED taskVars
  BY DEF schedVars
<1>2. PagingInv' /\ Kept
  BY <1>1, PagingStutter DEF TasksInv
<1>3. Control'
  BY <1>1 DEF TasksInv, Control, Building, Finished, Arguments, StackCall, ExecCall, Root, Marker,
              pagingVars, memVars, callerVars, walkVars, taskVars, spaceVars, argVars
<1> QED
  BY <1>2, <1>3 DEF TasksInv

LEMMA TasksStepInv ==
  ASSUME RootsClean, TasksInv, [TasksNext]_schedVars
  PROVE  TasksInv' /\ Kept
<1>1. CASE Scan /\ UNCHANGED <<callerVars, walkVars, taskVars>>
  BY <1>1, ScanTasks
<1>2. CASE SchedulerInit \/ NewTask \/ ModuleCall \/ SpaceDone
  BY <1>2, TableTasks
<1>3. CASE CallerFails /\ UNCHANGED taskVars
  BY <1>3, FailsTasks
<1>4. CASE NewTaskBlock \/ GetStack
  BY <1>4, DataBlockTasks
<1>5. CASE GetRoot
  BY <1>5, GetRootTasks
<1>6. CASE StoreLocal
  BY <1>6, StoreLocalTasks
<1>7. CASE StoreInFrame
  BY <1>7, StoreInFrameTasks
<1>8. CASE MapStack
  BY <1>8, MapStackTasks
<1>9. CASE MapExec
  BY <1>9, MapExecTasks
<1>10. CASE MapStep /\ UNCHANGED taskVars
  BY <1>10, MapStepTasks
<1>11. CASE UNCHANGED schedVars
  BY <1>11, StutterTasks
<1> QED
  BY <1>1, <1>2, <1>3, <1>4, <1>5, <1>6, <1>7, <1>8, <1>9, <1>10, <1>11, ModuleCallIs
     DEF TasksNext, InitTaskSpace

(* Every step of the scheduler, of init_task_space_from_mem and of what    *)
(* they call keeps the frames in order and the local variables right.      *)
THEOREM TasksInvariance == RootsClean => (TasksSpec => []TasksInv)
<1> SUFFICES ASSUME RootsClean PROVE TasksSpec => []TasksInv
  OBVIOUS
<1>1. TasksStart => TasksInv
  BY TasksStartInv
<1>2. TasksInv /\ [TasksNext]_schedVars => TasksInv'
  BY TasksStepInv
<1> QED
  BY <1>1, <1>2, PTL DEF TasksSpec

(* Each frame that tasks take is a pml4, a structure or data, and only one *)
(* of these, although new_task has an address written into its data.       *)
THEOREM TaskFramesCorrect == RootsClean => (TasksSpec => []FramesAccounted)
<1>1. TasksInv => FramesAccounted
  BY DEF TasksInv, PagingInv
<1> QED
  BY <1>1, TasksInvariance, PTL

-----------------------------------------------------------------------------
(***************************************************************************)
(* The task table.                                                         *)
(***************************************************************************)

NoRegisters == [default_regs_userspace EXCEPT !.cs = {}, !.ds = {}, !.ss = {}]

Task == [present : BOOLEAN, state : {"RUNNING", "READY"}, pml4_table : Page,
         regs : {NoRegisters, default_regs_userspace}]

(* Only a slot that is present has a frame, and the one that new_task has  *)
(* claimed gets its only then.                                             *)
TaskTable ==
  /\ tasks \in [Slots -> Task]
  /\ \A i \in Slots : ~ tasks[i].present \/ step = "off" => tasks[i].pml4_table = NULL
  /\ step = "pml4_table" => new \in Slots /\ tasks[new].present /\ tasks[new].pml4_table = NULL

FramesStay == \A i \in Slots : tasks[i].pml4_table # NULL => tasks'[i] = tasks[i]

LEMMA TaskTableStart == TasksStart => TaskTable
<1> SUFFICES ASSUME TasksStart PROVE TaskTable
  OBVIOUS
<1>1. /\ tasks = [i \in Slots |-> [present |-> FALSE, state |-> "RUNNING", pml4_table |-> NULL,
                                   regs |-> NoRegisters]]
      /\ step = "off"
  BY DEF TasksStart, NoRegisters
<1>2. NULL \in Page
  BY PageAssumption
<1> QED
  BY <1>1, <1>2 DEF TaskTable, Task

LEMMA TaskTableStep ==
  ASSUME TasksInv, TaskTable, [TasksNext]_schedVars
  PROVE  TaskTable' /\ FramesStay
<1>1. tasks \in [Slots -> Task]
  BY DEF TaskTable
<1>2. CASE SchedulerInit
  <2>1. /\ step = "off" /\ step' = "idle"
        /\ tasks' = [i \in Slots |-> [tasks[i] EXCEPT !.present = FALSE]]
    BY <1>2 DEF SchedulerInit
  <2>2. \A i \in Slots : tasks[i].pml4_table = NULL
    BY <2>1 DEF TaskTable
  <2>3. tasks' \in [Slots -> Task] /\ \A i \in Slots : tasks'[i].pml4_table = NULL
    BY <1>1, <2>1, <2>2 DEF Task
  <2> QED
    BY <2>1, <2>2, <2>3 DEF TaskTable, FramesStay
<1>3. CASE NewTask
  <2>1. PICK i \in Slots : /\ ~ tasks[i].present
                           /\ tasks' = [tasks EXCEPT ![i].present = TRUE, ![i].state = "READY"]
                           /\ new' = i
    BY <1>3 DEF NewTask, FreeSlots
  <2>2. step = "idle" /\ step' = "pml4_table"
    BY <1>3 DEF NewTask
  <2>3. tasks[i].pml4_table = NULL
    BY <2>1 DEF TaskTable
  <2>4. tasks' = [tasks EXCEPT ![i] = [tasks[i] EXCEPT !.present = TRUE, !.state = "READY"]]
    BY <1>1, <2>1 DEF Task
  <2>5. PICK t : t = [tasks[i] EXCEPT !.present = TRUE, !.state = "READY"]
    OBVIOUS
  <2>6. t \in Task /\ t.present /\ t.pml4_table = NULL
    <3>1. tasks[i] \in Task
      BY <1>1
    <3> QED
      BY <2>3, <2>5, <3>1 DEF Task
  <2>7. tasks' = [tasks EXCEPT ![i] = t]
    BY <2>4, <2>5
  <2> HIDE DEF Task
  <2> QED
    BY <1>1, <2>1, <2>2, <2>3, <2>6, <2>7 DEF TaskTable, FramesStay
<1>4. CASE NewTaskBlock
  <2>1. /\ step = "pml4_table" /\ step' = "root" /\ first_page_frame \in Page /\ new' = new
        /\ tasks' = [tasks EXCEPT ![new].pml4_table = first_page_frame,
                                  ![new].regs = default_regs_userspace]
    BY <1>4, DataBlockTasks DEF NewTaskBlock
  <2>2. new \in Slots /\ tasks[new].present /\ tasks[new].pml4_table = NULL /\ tasks[new] \in Task
    BY <1>1, <2>1 DEF TaskTable
  <2>3. PICK t : t = [tasks[new] EXCEPT !.pml4_table = first_page_frame,
                                        !.regs = default_regs_userspace]
    OBVIOUS
  <2>4. t \in Task /\ t.present /\ tasks' = [tasks EXCEPT ![new] = t]
    <3> HIDE DEF default_regs_userspace, NoRegisters
    <3>1. t \in Task /\ t.present
      BY <2>1, <2>2, <2>3 DEF Task
    <3>2. tasks' = [tasks EXCEPT ![new] = t]
      BY <1>1, <2>1, <2>2, <2>3 DEF Task
    <3> QED
      BY <3>1, <3>2
  <2> HIDE DEF Task
  <2> QED
    BY <1>1, <2>1, <2>2, <2>4 DEF TaskTable, FramesStay
<1>5. CASE UNCHANGED tasks /\ (step' # step => step' \notin {"off", "pml4_table"})
            /\ (step = "pml4_table" => new' = new)
  BY <1>5 DEF TaskTable, FramesStay
<1>6. CASE ~ (SchedulerInit \/ NewTask \/ NewTaskBlock)
  <2>1. /\ UNCHANGED tasks
        /\ step' # step => step' \notin {"off", "pml4_table"}
        /\ step = "pml4_table" => new' = new
    BY <1>6, ModuleCallIs
       DEF TasksNext, InitTaskSpace, ModuleCall, ModuleSpace, SpaceDone, GetRoot, StoreLocal,
           StoreInFrame, GetStack, MapStack, MapExec, taskVars, schedVars
  <2> QED
    BY <1>5, <2>1
<1> QED
  BY <1>2, <1>3, <1>4, <1>6

(* What new_task has put in a slot, nobody takes out again: in whatever    *)
(* order tasks and modules come, and whether or not RAM runs out half way. *)
THEOREM TasksKeepCorrect == RootsClean => (TasksSpec => TasksKeepTheirFrame)
<1> SUFFICES ASSUME RootsClean PROVE TasksSpec => TasksKeepTheirFrame
  OBVIOUS
<1>1. TasksStart => TaskTable
  BY TaskTableStart
<1>2. TasksInv /\ TaskTable /\ [TasksNext]_schedVars => TaskTable' /\ [FramesStay]_schedVars
  BY TaskTableStep
<1>3. TasksSpec => []TaskTable
  BY <1>1, <1>2, TasksInvariance, PTL DEF TasksSpec
<1>4. TasksSpec => [][FramesStay]_schedVars
  BY <1>2, <1>3, TasksInvariance, PTL DEF TasksSpec
<1> QED
  BY <1>4 DEF TasksKeepTheirFrame, FramesStay

-----------------------------------------------------------------------------
(***************************************************************************)
(* What the spaces map.                                                    *)
(***************************************************************************)

(* In memory m, no page of the spaces S translates to a. *)
NotMapped(m, S, a) ==
  \A s \in S, w \in VPage :
    Present(TranslationIn(m, s, w)) => TranslationIn(m, s, w).addr # a

(* In memory m, page v of r is the only one of the spaces S that           *)
(* translates to where it does.                                            *)
Alone(m, S, r, v) ==
  \A s \in S, w \in VPage :
    Present(TranslationIn(m, s, w)) /\ TranslationIn(m, s, w).addr = TranslationIn(m, r, v).addr
    => s = r /\ w = v

(* In memory m, the spaces S map frames of D, each of them once, and apart *)
(* from that only what is no RAM and they cannot write.                    *)
Isolated(m, S, D) ==
  \A r \in S, v \in VPage :
    Present(TranslationIn(m, r, v)) =>
      \/ TranslationIn(m, r, v).addr \in D /\ Alone(m, S, r, v)
      \/ TranslationIn(m, r, v).addr \notin Frame /\ "W" \notin TranslationIn(m, r, v).bits

(* The stack that is about to be mapped is mapped nowhere yet.             *)
Isolation ==
  /\ Isolated(mem, spaces, data)
  /\ step = "map_stack" \/ (pc # "idle" /\ bn = 0) => NotMapped(mem, spaces, stack)

(* The same translations, and perhaps more data. *)
LEMMA IsolatedSame ==
  ASSUME NEW m, NEW n, NEW S, NEW D, NEW E, Isolated(m, S, D), D \subseteq E,
         \A r \in S, v \in VPage : TranslationIn(n, r, v) = TranslationIn(m, r, v)
  PROVE  /\ Isolated(n, S, E)
         /\ \A a : NotMapped(m, S, a) => NotMapped(n, S, a)
BY DEF Isolated, Alone, NotMapped

(* A space more, which maps nothing. *)
LEMMA IsolatedMore ==
  ASSUME NEW m, NEW S, NEW D, Isolated(m, S, D), NEW b, Clean(m, b)
  PROVE  /\ Isolated(m, S \cup {b}, D)
         /\ \A a : NotMapped(m, S, a) => NotMapped(m, S \cup {b}, a)
<1>1. \A v \in VPage : ~ Present(TranslationIn(m, b, v))
  BY CleanMapsNothing DEF Present, Unmapped
<1> QED
  BY <1>1 DEF Isolated, Alone, NotMapped

(* One page gets a translation, to data mapped nowhere, or to what is no   *)
(* RAM and cannot be written.                                              *)
LEMMA IsolatedWritten ==
  ASSUME NEW m, NEW n, NEW S, NEW D \in SUBSET Frame, Isolated(m, S, D),
         NEW q \in S, NEW u \in VPage,
         \A r \in S, v \in VPage :
           ~ (r = q /\ v = u) => TranslationIn(n, r, v) = TranslationIn(m, r, v),
         NEW a, NEW b, TranslationIn(n, q, u) = [addr |-> a, bits |-> b], PRESENT \in b,
         \/ a \in D /\ NotMapped(m, S, a)
         \/ a \notin Frame /\ "W" \notin b
  PROVE  Isolated(n, S, D)
<1>1. Present(TranslationIn(n, q, u)) /\ TranslationIn(n, q, u).addr = a
      /\ TranslationIn(n, q, u).bits = b
  BY DEF Present
<1>2. ASSUME NEW r \in S, NEW v \in VPage, Present(TranslationIn(n, r, v))
      PROVE  \/ TranslationIn(n, r, v).addr \in D /\ Alone(n, S, r, v)
             \/ TranslationIn(n, r, v).addr \notin Frame /\ "W" \notin TranslationIn(n, r, v).bits
  <2>1. CASE r = q /\ v = u
    <3>1. CASE a \in D /\ NotMapped(m, S, a)
      BY <1>1, <2>1, <3>1 DEF Alone, NotMapped
    <3>2. CASE a \notin Frame /\ "W" \notin b
      BY <1>1, <2>1, <3>2
    <3> QED
      BY <3>1, <3>2
  <2>2. CASE ~ (r = q /\ v = u)
    <3>1. TranslationIn(n, r, v) = TranslationIn(m, r, v)
      BY <2>2
    <3>2. CASE TranslationIn(m, r, v).addr \in D /\ Alone(m, S, r, v)
      <4>1. TranslationIn(m, r, v).addr # a
        <5>1. NotMapped(m, S, a) => TranslationIn(m, r, v).addr # a
          BY <1>2, <3>1 DEF NotMapped
        <5> QED
          BY <3>2, <5>1
      <4>2. Alone(n, S, r, v)
        BY <1>1, <3>1, <3>2, <4>1 DEF Alone
      <4> QED
        BY <3>1, <3>2, <4>2
    <3>3. CASE TranslationIn(m, r, v).addr \notin Frame /\ "W" \notin TranslationIn(m, r, v).bits
      BY <3>1, <3>3
    <3> QED
      BY <1>2, <3>1, <3>2, <3>3 DEF Isolated
  <2> QED
    BY <2>1, <2>2
<1> QED
  BY <1>2 DEF Isolated

(* A frame that is neither data nor outside of RAM is mapped nowhere.      *)
LEMMA FreshNotMapped ==
  ASSUME NEW m, NEW S, NEW D, Isolated(m, S, D), NEW f \in Frame, f \notin D
  PROVE  NotMapped(m, S, f)
BY DEF Isolated, NotMapped

(* The last write of a call. *)
LEMMA WriteEntryIsolation ==
  ASSUME TasksInv, Isolation, WriteEntry, UNCHANGED taskVars
  PROVE  Isolated(mem', spaces, data)
<1> DEFINE a == call.paddr
           b == (RightsAbove(mem, call.root, call.vaddr) \cap call.flags) \cup {PRESENT}
<1>1. /\ call.root \in spaces /\ call.vaddr \in VPage /\ pc # "idle"
  BY CallFacts DEF TasksInv, PagingInv, WalkState, WriteEntry
<1>2. /\ TranslationIn(mem', call.root, call.vaddr) = [addr |-> a, bits |-> b]
      /\ \A r \in spaces, v \in VPage :
           ~ (r = call.root /\ v = call.vaddr) =>
             TranslationIn(mem', r, v) = TranslationIn(mem, r, v)
  BY WriteEntryTranslates DEF TasksInv
<1>3. data \in SUBSET Frame /\ PRESENT \in b
  BY DEF TasksInv, PagingInv, WalkTypes
<1>4. \/ a \in data /\ NotMapped(mem, spaces, a)
      \/ a \notin Frame /\ "W" \notin b
  <2>1. step = "map_exec" /\ call = IF bn = 0 THEN StackCall ELSE ExecCall
    BY <1>1 DEF TasksInv, Control
  <2>2. CASE bn = 0
    <3>1. stack \in data /\ a = stack
      BY <2>1, <2>2 DEF TasksInv, Control, StackCall
    <3> QED
      BY <1>1, <2>2, <3>1 DEF Isolation
  <2>3. CASE bn # 0
    <3>1. bn \in 0 .. n_blocks /\ Arguments
      BY <2>1 DEF TasksInv, Control, Building
    <3>2. pmem_offset \in Modules /\ bn \in 1 .. N_BLOCKS
      BY <2>3, <3>1, BlocksNat DEF Arguments
    <3>3. a = pmem_offset + bn - 1 /\ call.flags = {"U"}
      BY <2>1, <2>3 DEF ExecCall
    <3> QED
      BY <3>2, <3>3, ModulePages DEF PRESENT
  <2> QED
    BY <2>2, <2>3
<1> HIDE DEF a, b
<1> QED
  BY <1>1, <1>2, <1>3, <1>4, IsolatedWritten DEF Isolation

LEMMA IsolationStep ==
  ASSUME RootsClean, TasksInv, Isolation, [TasksNext]_schedVars
  PROVE  Isolation'
<1>1. /\ Isolated(mem, spaces, data)
      /\ step = "map_stack" \/ (pc # "idle" /\ bn = 0) => NotMapped(mem, spaces, stack)
  BY DEF Isolation
<1>2. ASSUME mem' = mem, spaces' = spaces, data' = data,
             step' = "map_stack" \/ (pc' # "idle" /\ bn' = 0) => NotMapped(mem, spaces, stack')
      PROVE  Isolation'
  BY <1>1, <1>2 DEF Isolation
<1>3. CASE Scan /\ UNCHANGED <<callerVars, walkVars, taskVars>>
  <2>1. spaces' = {}
    BY <1>3, ScanTasks DEF callerVars
  <2> QED
    BY <2>1 DEF Isolation, Isolated, NotMapped
<1>4. CASE SchedulerInit \/ NewTask \/ ModuleCall \/ SpaceDone
  <2>1. UNCHANGED pagingVars /\ pc = "idle" /\ step' # "map_stack"
    BY <1>4, TableTasks DEF SchedulerInit, NewTask, ModuleCall, ModuleSpace, SpaceDone
  <2> QED
    BY <1>2, <2>1 DEF pagingVars, memVars, callerVars, walkVars
<1>5. CASE CallerFails /\ UNCHANGED taskVars
  BY <1>1, <1>2, <1>5, FailsTasks DEF callerVars, walkVars, taskVars, spaceVars
<1>6. CASE NewTaskBlock \/ GetStack
  <2>1. /\ pc' = "idle" /\ mem' = mem /\ spaces' = spaces
        /\ first_page_frame \in Frame /\ first_page_frame \notin data
        /\ data' = data \cup {first_page_frame}
    BY <1>6, DataBlockTasks, InvTree DEF TasksInv, Partition
  <2>2. Isolated(mem', spaces', data')
    BY <1>1, <2>1, IsolatedSame
  <2>3. NotMapped(mem', spaces', first_page_frame)
    BY <1>1, <2>1, FreshNotMapped
  <2>4. step' = "map_stack" => stack' = first_page_frame
    BY <1>6 DEF NewTaskBlock, GetStack
  <2> QED
    BY <2>1, <2>2, <2>3, <2>4 DEF Isolation
<1>7. CASE GetRoot
  <2>1. /\ pc' = "idle" /\ mem' = mem /\ data' = data /\ Clean(mem, block')
        /\ spaces' = spaces \cup {block'} /\ step' = "store_root"
    BY <1>7, GetRootTasks DEF GetRoot
  <2> QED
    BY <1>1, <2>1, IsolatedMore DEF Isolation
<1>8. CASE StoreLocal
  <2>1. UNCHANGED pagingVars /\ pc = "idle" /\ step' # "map_stack"
    BY <1>8, StoreLocalTasks DEF StoreLocal
  <2> QED
    BY <1>2, <2>1 DEF pagingVars, memVars, callerVars, walkVars
<1>9. CASE StoreInFrame
  <2>1. /\ pc = "idle" /\ pc' = pc /\ spaces' = spaces /\ data' = data /\ step' = "stack"
        /\ \A s \in spaces \cup Pdpts \cup Pdts \cup PageTables : mem'[s] = mem[s]
    BY <1>9, StoreInFrameTasks DEF StoreInFrame, callerVars
  <2>2. \A r \in spaces, v \in VPage : TranslationIn(mem', r, v) = TranslationIn(mem, r, v)
    BY <2>1, StructuresUntouched DEF TasksInv
  <2>3. Isolated(mem', spaces', data')
    BY <1>1, <2>1, <2>2, IsolatedSame
  <2> QED
    BY <2>1, <2>3 DEF Isolation
<1>10. CASE MapStack
  <2>1. UNCHANGED <<memVars, callerVars>> /\ step = "map_stack" /\ stack' = stack
    BY <1>10, MapStackTasks DEF MapStack
  <2> QED
    BY <1>1, <1>2, <2>1 DEF memVars, callerVars
<1>11. CASE MapExec
  <2>1. UNCHANGED <<memVars, callerVars>> /\ step' = "map_exec" /\ bn' # 0
    BY <1>11, MapExecTasks DEF MapExec
  <2> QED
    BY <1>1, <1>2, <2>1 DEF memVars, callerVars
<1>12. CASE MapStep /\ UNCHANGED taskVars
  <2>1. pc # "idle" /\ spaces' = spaces /\ data' = data
    BY <1>12, MapStepTasks
  <2>2. step' = step /\ bn' = bn /\ stack' = stack /\ step = "map_exec"
    BY <1>12, <2>1 DEF TasksInv, Control, taskVars, spaceVars
  <2>3. CASE WriteEntry
    <3>1. Isolated(mem', spaces', data') /\ pc' = "idle"
      BY <1>12, <2>1, <2>3, WriteEntryIsolation DEF WriteEntry
    <3> QED
      BY <2>2, <3>1 DEF Isolation
  <2>4. CASE ~ WriteEntry
    <3>1. \A r \in spaces, v \in VPage : TranslationIn(mem', r, v) = TranslationIn(mem, r, v)
      <4>1. CASE ZeroTable \/ LinkTable
        BY <4>1, ZeroTableTranslates, LinkTableTranslates DEF TasksInv
      <4>2. CASE Descend \/ AllocTable \/ AllocFails
        BY <4>2 DEF Descend, AllocTable, AllocFails, GetPhysBlock, GetPhysBlockFails, memVars
      <4> QED
        BY <1>12, <2>4, <4>1, <4>2 DEF MapStep
    <3>2. /\ Isolated(mem', spaces, data)
          /\ \A a : NotMapped(mem, spaces, a) => NotMapped(mem', spaces, a)
      BY <1>1, <3>1, IsolatedSame
    <3> QED
      BY <1>1, <2>1, <2>2, <3>2 DEF Isolation
  <2> QED
    BY <2>3, <2>4
<1>13. CASE UNCHANGED schedVars
  BY <1>1, <1>2, <1>13
     DEF schedVars, taskVars, spaceVars, pagingVars, memVars, callerVars, walkVars
<1> QED
  BY <1>3, <1>4, <1>5, <1>6, <1>7, <1>8, <1>9, <1>10, <1>11, <1>12, <1>13,
     ModuleCallIs
     DEF TasksNext, InitTaskSpace

LEMMA IsolationInvariance == RootsClean => (TasksSpec => []Isolation)
<1> SUFFICES ASSUME RootsClean PROVE TasksSpec => []Isolation
  OBVIOUS
<1>1. TasksStart => Isolation
  BY DEF TasksStart, PagingStart, Isolation, Isolated, NotMapped
<1>2. TasksInv /\ Isolation /\ [TasksNext]_schedVars => Isolation'
  BY IsolationStep
<1> QED
  BY <1>1, <1>2, TasksInvariance, PTL DEF TasksSpec

(* Tasks share no page that one of them can write, whatever else is in     *)
(* memory and however many of them there are.                              *)
THEOREM IsolationCorrect == RootsClean => (TasksSpec => []SpacesIsolated)
<1>1. TasksInv /\ Isolation => SpacesIsolated
  <2> SUFFICES ASSUME TasksInv, Isolation,
                      NEW r \in spaces, NEW s \in spaces, NEW v \in VPage, NEW w \in VPage,
                      "W" \in Translation(r, v).bits, Present(Translation(s, w)),
                      Translation(r, v).addr = Translation(s, w).addr
               PROVE  r = s /\ v = w
    BY DEF SpacesIsolated
  <2>1. /\ Translation(r, v) = TranslationIn(mem, r, v)
        /\ Translation(s, w) = TranslationIn(mem, s, w)
    BY TranslationIs
  <2>2. Present(TranslationIn(mem, r, v))
    BY <2>1 DEF TranslationIn, Present, Unmapped
  <2> HIDE DEF Present
  <2>3. Alone(mem, spaces, r, v)
    BY <2>1, <2>2 DEF Isolation, Isolated
  <2> QED
    BY <2>1, <2>2, <2>3 DEF Alone
<1> QED
  BY <1>1, TasksInvariance, IsolationInvariance, PTL

(* What user code could reach through its own space is its stack and its   *)
(* executable: no structure, and no word of the free list.                 *)
THEOREM UnreachableCorrect == RootsClean => (TasksSpec => []KernelFramesUnreachable)
<1>1. TasksInv /\ Isolation => KernelFramesUnreachable
  <2> SUFFICES ASSUME TasksInv, Isolation, NEW r \in spaces, NEW v \in VPage,
                      Present(Translation(r, v))
               PROVE  Translation(r, v).addr \notin Structures \cup FreeSet
    BY DEF KernelFramesUnreachable
  <2>1. Translation(r, v) = TranslationIn(mem, r, v)
    BY TranslationIs
  <2>2. \/ TranslationIn(mem, r, v).addr \in data
        \/ TranslationIn(mem, r, v).addr \notin Frame
    BY <2>1 DEF Isolation, Isolated
  <2>3. /\ Structures \cap data = {} /\ Structures \subseteq Frame
        /\ data \cap FreeSet = {} /\ FreeSet \subseteq Frame
    BY InvTree DEF TasksInv, Partition, Structures, FreeSet, Added
  <2> QED
    BY <2>1, <2>2, <2>3
<1> QED
  BY <1>1, TasksInvariance, IsolationInvariance, PTL

-----------------------------------------------------------------------------
(***************************************************************************)
(* The rights that the entries above the page tables give.                 *)
(***************************************************************************)

(* All of them let user code pass ...                                      *)
UserEntries == EntriesGrant({"U"})

(* ... and those that the call for the stack has come through let it write.*)
(* It only meets entries it has made itself, as the space is new.          *)
FirstWalk ==
  pc # "idle" /\ bn = 0 =>
    /\ level > 1 => "W" \in Entry1(mem, call.root, call.vaddr).bits
    /\ level > 2 => "W" \in Entry2(mem, call.root, call.vaddr).bits
    /\ level > 3 => "W" \in Entry3(mem, call.root, call.vaddr).bits
    /\ pc = "test" =>
         \/ Clean(mem, table)
         \/ Present(Entry) /\ "W" \in Entry.bits /\ Clean(mem, Entry.addr)

(* They ask for it, as every call does. *)
LEMMA UserStep ==
  ASSUME RootsClean, TasksInv, UserEntries, [TasksNext]_schedVars
  PROVE  UserEntries'
<1> USE DEF UserEntries
<1>1. ASSUME spaces' = spaces, \A s \in spaces \cup Pdpts \cup Pdts : mem'[s] = mem[s]
      PROVE  UserEntries'
  BY <1>1, GrantSame DEF TasksInv
<1>2. CASE Scan /\ UNCHANGED <<callerVars, walkVars, taskVars>>
  BY <1>2, ScanTasks, NoSpaceGrants DEF callerVars
<1>3. CASE SchedulerInit \/ NewTask \/ ModuleCall \/ SpaceDone
  BY <1>1, <1>3, TableTasks DEF pagingVars, memVars, callerVars
<1>4. CASE CallerFails /\ UNCHANGED taskVars
  BY <1>1, <1>4, FailsTasks DEF callerVars
<1>5. CASE NewTaskBlock \/ GetStack
  BY <1>1, <1>5, DataBlockTasks
<1>6. CASE GetRoot
  BY <1>6, GetRootTasks, GrantRoot DEF TasksInv
<1>7. CASE StoreLocal
  BY <1>1, <1>7, StoreLocalTasks DEF pagingVars, memVars, callerVars
<1>8. CASE StoreInFrame
  BY <1>1, <1>8, StoreInFrameTasks DEF callerVars
<1>9. CASE MapStack \/ MapExec
  BY <1>1, <1>9, MapStackTasks, MapExecTasks DEF memVars, callerVars
<1>10. CASE MapStep /\ UNCHANGED taskVars
  <2>1. pc # "idle"
    BY <1>10, MapStepTasks
  <2>2. {"U"} \subseteq call.flags
    BY <2>1 DEF TasksInv, Control, StackCall, ExecCall
  <2> QED
    BY <1>10, <2>2, MapStepGrants DEF TasksInv
<1>11. CASE UNCHANGED schedVars
  BY <1>1, <1>11 DEF schedVars, pagingVars, memVars, callerVars
<1> QED
  BY <1>2, <1>3, <1>4, <1>5, <1>6, <1>7, <1>8, <1>9, <1>10, <1>11, ModuleCallIs
     DEF TasksNext, InitTaskSpace

(* Where the call is, in terms of the entries on the way of its page.      *)
LEMMA EntryOnTheWay ==
  ASSUME PagingInv, pc # "idle"
  PROVE  /\ level = 1 => Entry = Entry1(mem, call.root, call.vaddr)
         /\ level = 2 => Entry = Entry2(mem, call.root, call.vaddr)
         /\ level = 3 => Entry = Entry3(mem, call.root, call.vaddr)
BY DEF PagingInv, WalkState, Reaches, Entry, Slot, Entry1, Entry2, Entry3

(* The entries that the call has come through do not change under it.      *)
LEMMA WayKept ==
  ASSUME PagingInv, pc # "idle", Kept
  PROVE  /\ level > 1 => Entry1(mem', call.root, call.vaddr) = Entry1(mem, call.root, call.vaddr)
         /\ level > 2 => Entry2(mem', call.root, call.vaddr) = Entry2(mem, call.root, call.vaddr)
         /\ level > 3 => Entry3(mem', call.root, call.vaddr) = Entry3(mem, call.root, call.vaddr)
<1>1. /\ call.root \in spaces /\ call.vaddr \in VPage /\ level \in Levels
      /\ Reaches(mem, call.root, call.vaddr, level, table)
  BY CallFacts DEF PagingInv, WalkState, WalkTypes
<1>2. \A s \in spaces \cup Pdpts \cup Pdts, j \in Index : Present(mem[s][j]) => mem'[s][j] = mem[s][j]
  BY DEF Kept
<1>3. Tree(mem, spaces, Pdpts, Pdts, PageTables)
  BY InvTree
<1> QED
  BY <1>1, <1>2, <1>3, ReachesKept

LEMMA FirstWalkStep ==
  ASSUME RootsClean, TasksInv, FirstWalk, [TasksNext]_schedVars,
         step = "map_stack" => Clean(mem, Root)
  PROVE  FirstWalk'
<1>1. CASE pc' = "idle" \/ bn' # 0
  BY <1>1 DEF FirstWalk
<1>2. CASE MapStack
  <2>1. level' = 1 /\ mem' = mem /\ table' = Root /\ step = "map_stack"
    BY <1>2, MapStackTasks DEF MapStack, memVars
  <2> QED
    BY <2>1 DEF FirstWalk
<1>3. CASE MapStep /\ UNCHANGED taskVars /\ pc' # "idle" /\ bn' = 0
  <2>1. /\ bn = 0 /\ pc # "idle" /\ Kept /\ PagingInv /\ level \in Levels
        /\ step = "map_exec" /\ call = StackCall
    BY <1>3, MapStepTasks DEF taskVars, spaceVars, TasksInv, Control, PagingInv, WalkTypes
  <2>2. "W" \in call.flags
    BY <2>1 DEF StackCall
  <2>3. call' = call
    BY <1>3 DEF MapStep, Descend, AllocTable, AllocFails, ZeroTable, LinkTable, WriteEntry, walkVars
  <2>4. /\ level > 1 => "W" \in Entry1(mem', call.root, call.vaddr).bits
        /\ level > 2 => "W" \in Entry2(mem', call.root, call.vaddr).bits
        /\ level > 3 => "W" \in Entry3(mem', call.root, call.vaddr).bits
    BY <2>1, WayKept DEF FirstWalk
  <2>5. CASE Descend
    <3>1. /\ pc = "test" /\ mem' = mem /\ level' = level + 1 /\ level < 4 /\ table' = Entry.addr
          /\ Present(mem[table][Slot])
      BY <2>5 DEF Descend, EntryPresent, memVars, Entry
    <3>2. Slot \in Index
      BY <2>1, TableLevel
    <3>3. "W" \in Entry.bits /\ Clean(mem, Entry.addr)
      BY <2>1, <3>1, <3>2 DEF FirstWalk, Clean
    <3>4. /\ level = 1 => "W" \in Entry1(mem', call.root, call.vaddr).bits
          /\ level = 2 => "W" \in Entry2(mem', call.root, call.vaddr).bits
          /\ level = 3 => "W" \in Entry3(mem', call.root, call.vaddr).bits
      BY <2>1, <3>1, <3>3, EntryOnTheWay
    <3> QED
      BY <2>1, <2>3, <2>4, <3>1, <3>3, <3>4 DEF FirstWalk, Levels
  <2>6. CASE AllocTable \/ ZeroTable
    <3>1. level' = level /\ pc' # "test"
      BY <2>6 DEF AllocTable, ZeroTable
    <3> QED
      BY <2>3, <2>4, <3>1 DEF FirstWalk
  <2>7. CASE AllocFails
    <3>1. mem' = mem /\ level' = level /\ pc' = pc /\ table' = table
      BY <2>7 DEF AllocFails, GetPhysBlockFails, walkVars
    <3> QED
      BY <2>1, <2>3, <3>1 DEF FirstWalk, Entry, Slot
  <2>8. CASE LinkTable
    <3>1. /\ pc = "link" /\ SetEntry(block) /\ level' = level /\ table' = table /\ level < 4
          /\ UNCHANGED <<first_page_frame, n_free_page_frames, phase, scanVars, held, block>>
          /\ Clean(mem, block) /\ block \in Page
      BY <2>1, <2>8 DEF LinkTable, PagingInv, WalkState, MemInv, MemTypeOK
    <3>2. Differs(mem, mem', table, Slot, Pointing(block)) /\ Present(Pointing(block))
      BY <2>1, <3>1, EntrySet
    <3>3. table # block
      BY <2>1, <3>1, TableLevel DEF InFlight
    <3>4. Entry' = Pointing(block) /\ Clean(mem', block)
      BY <2>3, <3>1, <3>2, <3>3 DEF Differs, Entry, Slot, Clean
    <3>5. "W" \in Pointing(block).bits /\ Pointing(block).addr = block
      BY <2>2 DEF Pointing
    <3> QED
      BY <2>3, <2>4, <3>1, <3>2, <3>4, <3>5 DEF FirstWalk
  <2>9. ~ WriteEntry
    BY <1>3 DEF WriteEntry
  <2> QED
    BY <1>3, <2>5, <2>6, <2>7, <2>8, <2>9 DEF MapStep
<1>4. CASE ~ MapStack /\ ~ (MapStep /\ UNCHANGED taskVars) /\ ~ UNCHANGED schedVars
  <2>1. CASE MapExec
    BY <1>1, <2>1, MapExecTasks
  <2>2. CASE ~ MapExec
    <3>1. pc' = "idle"
      BY <1>4, <2>2, ScanTasks, TableTasks, FailsTasks, DataBlockTasks, GetRootTasks,
         StoreLocalTasks, StoreInFrameTasks, ModuleCallIs
         DEF TasksNext, InitTaskSpace, pagingVars, walkVars
    <3> QED
      BY <1>1, <3>1
  <2> QED
    BY <2>1, <2>2
<1>5. CASE UNCHANGED schedVars
  BY <1>5 DEF FirstWalk, schedVars, taskVars, spaceVars, pagingVars, memVars, walkVars, Entry, Slot
<1> QED
  BY <1>1, <1>2, <1>3, <1>4, <1>5

(* The rights that are left at the last write of a call.                   *)
LEMMA RightsLeft ==
  ASSUME TasksInv, UserEntries, FirstWalk, pc # "idle", level = 4
  PROVE  /\ "U" \in RightsAbove(mem, call.root, call.vaddr)
         /\ bn = 0 => "W" \in RightsAbove(mem, call.root, call.vaddr)
<1>1. "U" \in RightsAbove(mem, call.root, call.vaddr)
  BY GrantsLeft DEF TasksInv, UserEntries
<1> QED
  BY <1>1 DEF FirstWalk, RightsAbove

-----------------------------------------------------------------------------
(***************************************************************************)
(* What the space of a module maps.                                        *)
(***************************************************************************)

MapsNothing(m, r) == \A v \in VPage : TranslationIn(m, r, v) = Unmapped

(* In memory m, space r maps the stack st and the first n pages of the     *)
(* executable at o, and nothing else.                                      *)
MapsTask(m, r, st, o, n) ==
  /\ TranslationIn(m, r, StackPage) = [addr |-> st, bits |-> {PRESENT, "W", "U"}]
  /\ \A k \in 1 .. n :
       TranslationIn(m, r, ExecPages[k]) = [addr |-> o + k - 1, bits |-> {PRESENT, "U"}]
  /\ \A v \in VPage :
       v # StackPage /\ (\A k \in 1 .. n : v # ExecPages[k]) => TranslationIn(m, r, v) = Unmapped

(* The space under construction, at each place of init_task_space_from_mem,*)
(* and the one it has built.                                               *)
Contents ==
  /\ step = "store_root" => Clean(mem, block)
  /\ step \in {"stack", "map_stack"} => Clean(mem, Root)
  /\ step = "map_exec" /\ pc # "idle" =>
       IF bn = 0 THEN MapsNothing(mem, Root) ELSE MapsTask(mem, Root, stack, pmem_offset, bn - 1)
  /\ (step = "map_exec" /\ pc = "idle") \/ Finished =>
       MapsTask(mem, Root, stack, pmem_offset, bn)

LEMMA MapsSame ==
  ASSUME NEW m, NEW n, NEW r, \A v \in VPage : TranslationIn(n, r, v) = TranslationIn(m, r, v)
  PROVE  /\ MapsNothing(m, r) => MapsNothing(n, r)
         /\ \A st, o, j : j \in 0 .. N_BLOCKS /\ MapsTask(m, r, st, o, j) => MapsTask(n, r, st, o, j)
<1>1. StackPage \in VPage /\ N_BLOCKS \in Nat /\ \A k \in 1 .. N_BLOCKS : ExecPages[k] \in VPage
  BY TasksAssumption
<1>2. ASSUME NEW st, NEW o, NEW j \in 0 .. N_BLOCKS, MapsTask(m, r, st, o, j)
      PROVE  MapsTask(n, r, st, o, j)
  <2>1. \A k \in 1 .. j : ExecPages[k] \in VPage
    BY <1>1
  <2> QED
    BY <1>1, <1>2, <2>1 DEF MapsTask
<1> QED
  BY <1>2 DEF MapsNothing

(* The first page of a space is the stack.                                 *)
LEMMA MapsStack ==
  ASSUME NEW m, NEW n, NEW r, NEW st, NEW o, MapsNothing(m, r),
         TranslationIn(n, r, StackPage) = [addr |-> st, bits |-> {PRESENT, "W", "U"}],
         \A v \in VPage : v # StackPage => TranslationIn(n, r, v) = TranslationIn(m, r, v)
  PROVE  MapsTask(n, r, st, o, 0)
BY DEF MapsNothing, MapsTask

(* A page of the executable comes after those before it.                   *)
LEMMA MapsExec ==
  ASSUME NEW m, NEW n, NEW r, NEW st, NEW o, NEW j \in 1 .. N_BLOCKS, MapsTask(m, r, st, o, j - 1),
         TranslationIn(n, r, ExecPages[j]) = [addr |-> o + j - 1, bits |-> {PRESENT, "U"}],
         \A v \in VPage : v # ExecPages[j] => TranslationIn(n, r, v) = TranslationIn(m, r, v)
  PROVE  MapsTask(n, r, st, o, j)
<1>1. /\ StackPage \in VPage /\ N_BLOCKS \in Nat
      /\ \A k \in 1 .. N_BLOCKS : ExecPages[k] \in VPage /\ ExecPages[k] # StackPage
      /\ \A k, l \in 1 .. N_BLOCKS : ExecPages[k] = ExecPages[l] => k = l
  <2>1. \A k \in 1 .. N_BLOCKS : k \in DOMAIN ExecPages
    BY TasksAssumption
  <2> QED
    BY <2>1, TasksAssumption
<1>2. TranslationIn(n, r, StackPage) = [addr |-> st, bits |-> {PRESENT, "W", "U"}]
  BY <1>1 DEF MapsTask
<1>3. ASSUME NEW k \in 1 .. j
      PROVE  TranslationIn(n, r, ExecPages[k]) = [addr |-> o + k - 1, bits |-> {PRESENT, "U"}]
  <2>1. CASE k = j
    BY <2>1
  <2>2. CASE k # j
    <3>1. k \in 1 .. j - 1 /\ ExecPages[k] # ExecPages[j] /\ ExecPages[k] \in VPage
      BY <1>1, <2>2
    <3> QED
      BY <3>1 DEF MapsTask
  <2> QED
    BY <2>1, <2>2
<1>4. ASSUME NEW v \in VPage, v # StackPage, \A k \in 1 .. j : v # ExecPages[k]
      PROVE  TranslationIn(n, r, v) = Unmapped
  <2>1. v # ExecPages[j] /\ \A k \in 1 .. j - 1 : v # ExecPages[k]
    BY <1>1, <1>4
  <2> QED
    BY <1>4, <2>1 DEF MapsTask
<1> QED
  BY <1>2, <1>3, <1>4 DEF MapsTask

(* The last write of a call. *)
LEMMA WriteEntryContents ==
  ASSUME TasksInv, UserEntries, FirstWalk, Contents, WriteEntry, UNCHANGED taskVars
  PROVE  MapsTask(mem', Root, stack, pmem_offset, bn)
<1>1. pc # "idle" /\ level = 4
  BY DEF WriteEntry
<1>2. step = "map_exec" /\ call = IF bn = 0 THEN StackCall ELSE ExecCall
  BY <1>1 DEF TasksInv, Control
<1>3. /\ call.root = Root /\ Root \in spaces
      /\ IF bn = 0 THEN MapsNothing(mem, Root) ELSE MapsTask(mem, Root, stack, pmem_offset, bn - 1)
  BY <1>1, <1>2 DEF TasksInv, Control, Building, StackCall, ExecCall, Contents
<1>4. PICK a : a = RightsAbove(mem, call.root, call.vaddr)
  OBVIOUS
<1>5. "U" \in a /\ (bn = 0 => "W" \in a)
  BY <1>1, <1>4, RightsLeft
<1>6. /\ TranslationIn(mem', Root, call.vaddr) =
           [addr |-> call.paddr, bits |-> (a \cap call.flags) \cup {PRESENT}]
      /\ \A v \in VPage :
           v # call.vaddr => TranslationIn(mem', Root, v) = TranslationIn(mem, Root, v)
  BY <1>3, <1>4, WriteEntryTranslates DEF TasksInv
<1>7. CASE bn = 0
  <2>1. call.vaddr = StackPage /\ call.paddr = stack /\ call.flags = {"W", "U"}
    BY <1>2, <1>7 DEF StackCall
  <2>2. (a \cap {"W", "U"}) \cup {PRESENT} = {PRESENT, "W", "U"}
    BY <1>5, <1>7
  <2> QED
    BY <1>3, <1>6, <1>7, <2>1, <2>2, MapsStack
<1>8. CASE bn # 0
  <2>1. bn \in 1 .. N_BLOCKS
    <3>1. bn \in 0 .. n_blocks /\ Arguments
      BY <1>2 DEF TasksInv, Control, Building
    <3> QED
      BY <1>8, <3>1, BlocksNat, TasksAssumption
  <2>2. call.vaddr = ExecPages[bn] /\ call.paddr = pmem_offset + bn - 1 /\ call.flags = {"U"}
    BY <1>2, <1>8 DEF ExecCall
  <2>3. (a \cap {"U"}) \cup {PRESENT} = {PRESENT, "U"}
    BY <1>5
  <2> QED
    BY <1>3, <1>6, <1>8, <2>1, <2>2, <2>3, MapsExec
<1> QED
  BY <1>7, <1>8

(* Its other steps.                                                        *)
LEMMA OnTheWayContents ==
  ASSUME TasksInv, Contents, MapStep, ~ WriteEntry, UNCHANGED taskVars
  PROVE  Contents'
<1>1. pc # "idle" /\ Root' = Root
  BY MapStepTasks
<1>2. /\ pc' # "idle" /\ step = "map_exec"
      /\ UNCHANGED <<step, stack, pmem_offset, bn>>
  <2>1. pc' # "idle"
    BY <1>1 DEF MapStep, Descend, AllocTable, AllocFails, ZeroTable, LinkTable, walkVars
  <2>2. step = "map_exec"
    BY <1>1 DEF TasksInv, Control
  <2>3. UNCHANGED <<step, stack, pmem_offset, bn>>
    BY DEF taskVars, spaceVars, argVars
  <2> QED
    BY <2>1, <2>2, <2>3
<1>3. \A r \in spaces, v \in VPage : TranslationIn(mem', r, v) = TranslationIn(mem, r, v)
  <2>1. CASE ZeroTable \/ LinkTable
    BY <2>1, ZeroTableTranslates, LinkTableTranslates DEF TasksInv
  <2>2. CASE Descend \/ AllocTable \/ AllocFails
    BY <2>2 DEF Descend, AllocTable, AllocFails, GetPhysBlock, GetPhysBlockFails, memVars
  <2> QED
    BY <2>1, <2>2 DEF MapStep
<1>4. Root \in spaces /\ bn \in 0 .. n_blocks /\ Arguments
  BY <1>2 DEF TasksInv, Control, Building
<1>5. bn \in Nat /\ (bn # 0 => bn - 1 \in 0 .. N_BLOCKS)
  BY <1>4, BlocksNat, TasksAssumption
<1>6. IF bn = 0 THEN MapsNothing(mem, Root) ELSE MapsTask(mem, Root, stack, pmem_offset, bn - 1)
  BY <1>1, <1>2 DEF Contents
<1>7. IF bn = 0 THEN MapsNothing(mem', Root) ELSE MapsTask(mem', Root, stack, pmem_offset, bn - 1)
  BY <1>3, <1>4, <1>5, <1>6, MapsSame
<1> QED
  BY <1>1, <1>2, <1>7 DEF Contents, Finished

LEMMA ContentsStep ==
  ASSUME RootsClean, TasksInv, UserEntries, FirstWalk, Contents,
         [TasksNext]_schedVars
  PROVE  Contents'
<1>1. /\ step = "store_root" => Clean(mem, block)
      /\ step \in {"stack", "map_stack"} => Clean(mem, Root)
      /\ step = "map_exec" /\ pc = "idle" => MapsTask(mem, Root, stack, pmem_offset, bn)
  BY DEF Contents
<1>2. CASE Scan /\ UNCHANGED <<callerVars, walkVars, taskVars>>
  <2>1. TasksInv' /\ spaces' = {} /\ pc' = "idle"
    BY <1>2, ScanTasks DEF callerVars, walkVars
  <2>2. step' # "store_root" /\ ~ Building' /\ ~ Finished'
    BY <2>1 DEF TasksInv, Control
  <2> QED
    BY <2>1, <2>2 DEF Contents, Building
<1>3. CASE SchedulerInit \/ NewTask \/ ModuleCall
  <2>1. pc' = "idle" /\ step' \in {"idle", "pml4_table", "root"} /\ ~ Finished'
    BY <1>3, TableTasks
       DEF SchedulerInit, NewTask, ModuleCall, ModuleSpace, TasksInv, Control, Finished, pagingVars, walkVars,
           spaceVars
  <2> QED
    BY <2>1 DEF Contents
<1>4. CASE SpaceDone
  <2>1. /\ UNCHANGED pagingVars /\ pc = "idle" /\ step = "map_exec" /\ step' = "idle"
        /\ UNCHANGED <<pml4, task_pml4, stack, pmem_offset, bn>>
    BY <1>4, TableTasks DEF SpaceDone, spaceVars, argVars
  <2>2. mem' = mem /\ pc' = pc
    BY <2>1 DEF pagingVars, memVars, walkVars
  <2>3. Root' = Root
    BY <2>1, <2>2, RootSame
  <2> QED
    BY <1>1, <2>1, <2>2, <2>3 DEF Contents
<1>5. CASE step \in {"pml4_table", "root", "stack"} /\ CallerFails /\ UNCHANGED taskVars
  <2>1. mem' = mem /\ pc' = "idle" /\ step' = step /\ Root' = Root
    BY <1>5, FailsTasks DEF walkVars, taskVars
  <2> QED
    BY <1>1, <1>5, <2>1 DEF Contents, Finished
<1>6. CASE NewTaskBlock
  <2>1. pc' = "idle" /\ step' = "root"
    BY <1>6, DataBlockTasks DEF NewTaskBlock
  <2> QED
    BY <2>1 DEF Contents, Finished
<1>7. CASE GetStack
  <2>1. /\ pc' = "idle" /\ mem' = mem /\ step = "stack" /\ step' = "map_stack"
        /\ UNCHANGED <<pml4, task_pml4>>
    BY <1>7, DataBlockTasks DEF GetStack, argVars
  <2>2. Root' = Root
    BY <2>1, RootSame
  <2> QED
    BY <1>1, <2>1, <2>2 DEF Contents, Finished
<1>8. CASE GetRoot
  <2>1. /\ pc' = "idle" /\ mem' = mem /\ step' = "store_root" /\ Clean(mem, block')
    BY <1>8, GetRootTasks DEF GetRoot
  <2> QED
    BY <2>1 DEF Contents, Finished
<1>9. CASE StoreLocal \/ StoreInFrame
  <2>1. pc = "idle" /\ pc' = pc /\ Root' = block /\ step = "store_root" /\ step' = "stack"
    BY <1>9, StoreLocalTasks, StoreInFrameTasks DEF StoreLocal, StoreInFrame, pagingVars, walkVars
  <2>2. block \in spaces
    BY <2>1 DEF TasksInv, Control
  <2>3. mem'[block] = mem[block]
    BY <1>9, <2>2, StoreLocalTasks, StoreInFrameTasks DEF pagingVars, memVars
  <2> QED
    BY <1>1, <2>1, <2>3 DEF Contents, Finished, Clean
<1>10. CASE MapStack
  <2>1. /\ mem' = mem /\ pc' = "test" /\ step = "map_stack" /\ step' = "map_exec" /\ bn' = 0
        /\ Root' = Root
    BY <1>10, MapStackTasks DEF MapStack, memVars
  <2>2. MapsNothing(mem', Root)
    BY <1>1, <2>1, CleanMapsNothing DEF MapsNothing
  <2> QED
    BY <2>1, <2>2 DEF Contents, Finished
<1>11. CASE MapExec
  <2>1. /\ mem' = mem /\ pc = "idle" /\ pc' = "test" /\ step = "map_exec" /\ step' = step
        /\ bn \in Nat /\ bn' = bn + 1 /\ Root' = Root
        /\ UNCHANGED <<stack, pmem_offset>>
    BY <1>11, MapExecTasks DEF MapExec, memVars, argVars
  <2>2. MapsTask(mem', Root', stack', pmem_offset', bn' - 1) /\ bn' # 0
    <3>1. bn' - 1 = bn /\ bn' # 0
      BY <2>1
    <3> QED
      BY <1>1, <2>1, <3>1
  <2> QED
    BY <2>1, <2>2 DEF Contents, Finished
<1>12. CASE MapStep /\ UNCHANGED taskVars
  <2>1. CASE WriteEntry
    <3>1. /\ MapsTask(mem', Root, stack, pmem_offset, bn) /\ Root' = Root /\ pc # "idle"
          /\ pc' = "idle"
      BY <1>12, <2>1, WriteEntryContents, MapStepTasks DEF WriteEntry
    <3>2. step = "map_exec" /\ UNCHANGED <<step, stack, pmem_offset, bn>>
      BY <1>12, <3>1 DEF TasksInv, Control, taskVars, spaceVars, argVars
    <3> QED
      BY <3>1, <3>2 DEF Contents
  <2>2. CASE ~ WriteEntry
    BY <1>12, <2>2, OnTheWayContents
  <2> QED
    BY <2>1, <2>2
<1>13. CASE UNCHANGED schedVars
  <2>1. /\ UNCHANGED <<mem, block, pc>>
        /\ UNCHANGED <<step, pml4, task_pml4, stack, pmem_offset, bn>>
    BY <1>13 DEF schedVars, pagingVars, memVars, walkVars, taskVars, spaceVars, argVars
  <2>2. Root' = Root
    BY <2>1, RootSame
  <2> QED
    BY <2>1, <2>2 DEF Contents, Finished
<1> QED
  BY <1>2, <1>3, <1>4, <1>5, <1>6, <1>7, <1>8, <1>9, <1>10, <1>11, <1>12, <1>13,
     ModuleCallIs
     DEF TasksNext, InitTaskSpace

(* Rights and contents together: the rights are right because the space    *)
(* under construction is new.                                              *)
SpaceInv == UserEntries /\ FirstWalk /\ Contents

LEMMA SpaceInvariance == RootsClean => (TasksSpec => []SpaceInv)
<1> SUFFICES ASSUME RootsClean PROVE TasksSpec => []SpaceInv
  OBVIOUS
<1>1. TasksStart => SpaceInv
  <2> SUFFICES ASSUME TasksStart PROVE SpaceInv
    OBVIOUS
  <2>1. spaces = {} /\ pc = "idle" /\ step = "off"
    BY DEF TasksStart, PagingStart
  <2> QED
    BY <2>1, NoSpaceGrants DEF SpaceInv, UserEntries, FirstWalk, Contents, Finished
<1>2. TasksInv /\ SpaceInv /\ [TasksNext]_schedVars => SpaceInv'
  <2> SUFFICES ASSUME TasksInv, SpaceInv, [TasksNext]_schedVars PROVE SpaceInv'
    OBVIOUS
  <2>1. UserEntries /\ FirstWalk /\ Contents
    BY DEF SpaceInv
  <2>2. step = "map_stack" => Clean(mem, Root)
    BY <2>1 DEF Contents
  <2> QED
    BY <2>1, <2>2, UserStep, FirstWalkStep, ContentsStep DEF SpaceInv
<1> QED
  BY <1>1, <1>2, TasksInvariance, PTL DEF TasksSpec

(* A module whose space has been built sees its stack, which it can write, *)
(* as many of its own pages as the caller asked for, in their order, which *)
(* it can read, and nothing of anyone else's: whatever frames the          *)
(* structures came from.  One that _start starts sees its first page.      *)
THEOREM ModuleSpaceCorrect == RootsClean => (TasksSpec => []ModuleSpaceExact)
<1>1. TasksInv /\ SpaceInv => ModuleSpaceExact
  <2> SUFFICES ASSUME TasksInv, SpaceInv, Finished, NEW v \in VPage
               PROVE  Translation(task_pml4, v) =
                        IF v = StackPage THEN [addr |-> stack, bits |-> {PRESENT, "W", "U"}]
                        ELSE IF \E k \in 1 .. n_blocks : v = ExecPages[k]
                        THEN [addr |-> pmem_offset + (CHOOSE k \in 1 .. n_blocks : v = ExecPages[k]) - 1,
                              bits |-> {PRESENT, "U"}]
                        ELSE Unmapped
    BY DEF ModuleSpaceExact, Finished
  <2>1. Translation(task_pml4, v) = TranslationIn(mem, task_pml4, v)
    BY TranslationIs
  <2>2. MapsTask(mem, task_pml4, stack, pmem_offset, n_blocks)
    BY DEF SpaceInv, Contents, TasksInv, Control, Arguments, Finished, Root
  <2>3. ASSUME v # StackPage, \E k \in 1 .. n_blocks : v = ExecPages[k]
        PROVE  TranslationIn(mem, task_pml4, v) =
                 [addr |-> pmem_offset + (CHOOSE k \in 1 .. n_blocks : v = ExecPages[k]) - 1,
                  bits |-> {PRESENT, "U"}]
    <3>1. PICK j : j = CHOOSE k \in 1 .. n_blocks : v = ExecPages[k]
      OBVIOUS
    <3>2. j \in 1 .. n_blocks /\ v = ExecPages[j]
      BY <2>3, <3>1
    <3> QED
      BY <2>2, <3>1, <3>2 DEF MapsTask
  <2> QED
    BY <2>1, <2>2, <2>3 DEF MapsTask
<1> QED
  BY <1>1, TasksInvariance, SpaceInvariance, PTL

(* What TranslationsKept says of one step, about the memories before and   *)
(* after it.                                                               *)
Stays(r, v) ==
  \/ TranslationIn(mem', r, v) = TranslationIn(mem, r, v)
  \/ pc # "idle" /\ r = Root /\ v = call.vaddr /\ TranslationIn(mem, r, v) = Unmapped

(* The page that is given to a space was not in it before: the stack is    *)
(* the first, and the pages of the executable are different ones.          *)
LEMMA WriteEntryStays ==
  ASSUME TasksInv, SpaceInv, WriteEntry
  PROVE  \A r \in spaces, v \in VPage : Stays(r, v)
<1>1. pc # "idle"
  BY DEF WriteEntry
<1>2. step = "map_exec" /\ call = IF bn = 0 THEN StackCall ELSE ExecCall
  BY <1>1 DEF TasksInv, Control
<1>3. /\ bn \in 0 .. n_blocks /\ Arguments
      /\ IF bn = 0 THEN MapsNothing(mem, Root) ELSE MapsTask(mem, Root, stack, pmem_offset, bn - 1)
  BY <1>1, <1>2 DEF TasksInv, Control, Building, SpaceInv, Contents
<1>4. call.root = Root
  BY <1>2 DEF StackCall, ExecCall
<1>5. TranslationIn(mem, Root, call.vaddr) = Unmapped
  <2>1. CASE bn = 0
    <3>1. call.vaddr = StackPage /\ StackPage \in VPage
      BY <1>2, <2>1, TasksAssumption DEF StackCall
    <3> QED
      BY <1>3, <2>1, <3>1 DEF MapsNothing
  <2>2. CASE bn # 0
    <3>1. bn \in 1 .. N_BLOCKS /\ N_BLOCKS \in 1 .. Len(ExecPages)
      BY <1>3, <2>2, BlocksNat, TasksAssumption
    <3>2. call.vaddr = ExecPages[bn]
      BY <1>2, <2>2 DEF ExecCall
    <3>3. bn \in DOMAIN ExecPages /\ \A k \in 1 .. bn - 1 : k \in DOMAIN ExecPages /\ k # bn
      BY <3>1, TasksAssumption
    <3>4. /\ ExecPages[bn] \in VPage /\ ExecPages[bn] # StackPage
          /\ \A k \in 1 .. bn - 1 : ExecPages[bn] # ExecPages[k]
      BY <3>3, TasksAssumption
    <3> QED
      BY <1>3, <2>2, <3>2, <3>4 DEF MapsTask
  <2> QED
    BY <2>1, <2>2
<1>6. \A r \in spaces, v \in VPage :
        ~ (r = Root /\ v = call.vaddr) => TranslationIn(mem', r, v) = TranslationIn(mem, r, v)
  BY <1>4, WriteEntryTranslates DEF TasksInv
<1> QED
  BY <1>1, <1>5, <1>6 DEF Stays

LEMMA StaysStep ==
  ASSUME RootsClean, TasksInv, SpaceInv, [TasksNext]_schedVars
  PROVE  \A r \in spaces, v \in VPage : Stays(r, v)
<1>1. ASSUME \A s \in spaces \cup Pdpts \cup Pdts \cup PageTables : mem'[s] = mem[s]
      PROVE  \A r \in spaces, v \in VPage : Stays(r, v)
  BY <1>1, StructuresUntouched DEF TasksInv, Stays
<1>2. CASE Scan /\ UNCHANGED <<callerVars, walkVars, taskVars>>
  BY <1>2, ScanTasks
<1>3. CASE SchedulerInit \/ NewTask \/ ModuleCall \/ SpaceDone
  BY <1>1, <1>3, TableTasks DEF pagingVars, memVars
<1>4. CASE CallerFails /\ UNCHANGED taskVars
  BY <1>1, <1>4, FailsTasks
<1>5. CASE NewTaskBlock \/ GetStack
  BY <1>1, <1>5, DataBlockTasks
<1>6. CASE GetRoot
  BY <1>1, <1>6, GetRootTasks
<1>7. CASE StoreLocal
  BY <1>1, <1>7, StoreLocalTasks DEF pagingVars, memVars
<1>8. CASE StoreInFrame
  BY <1>1, <1>8, StoreInFrameTasks
<1>9. CASE MapStack \/ MapExec
  BY <1>1, <1>9, MapStackTasks, MapExecTasks DEF memVars
<1>10. CASE MapStep
  <2>1. CASE WriteEntry
    BY <2>1, WriteEntryStays
  <2>2. CASE ZeroTable \/ LinkTable
    BY <2>2, ZeroTableTranslates, LinkTableTranslates DEF TasksInv, Stays
  <2>3. CASE Descend \/ AllocTable \/ AllocFails
    BY <1>1, <2>3 DEF Descend, AllocTable, AllocFails, GetPhysBlock, GetPhysBlockFails, memVars
  <2> QED
    BY <1>10, <2>1, <2>2, <2>3 DEF MapStep
<1>11. CASE UNCHANGED schedVars
  BY <1>1, <1>11 DEF schedVars, pagingVars, memVars
<1> QED
  BY <1>2, <1>3, <1>4, <1>5, <1>6, <1>7, <1>8, <1>9, <1>10, <1>11, ModuleCallIs
     DEF TasksNext, InitTaskSpace

(* What a space maps it maps for good: later tasks and modules, whatever   *)
(* frames they take and fill, change no page of it.                        *)
THEOREM TranslationsCorrect == RootsClean => (TasksSpec => TranslationsKept)
<1> SUFFICES ASSUME RootsClean PROVE TasksSpec => TranslationsKept
  OBVIOUS
<1> DEFINE StepKeeps ==
      \A r \in spaces, v \in VPage :
        Translation(r, v)' # Translation(r, v) =>
          pc # "idle" /\ r = Root /\ v = call.vaddr /\ Translation(r, v) = Unmapped
<1>1. TasksInv /\ SpaceInv /\ [TasksNext]_schedVars => [StepKeeps]_schedVars
  <2> SUFFICES ASSUME TasksInv, SpaceInv, [TasksNext]_schedVars, NEW r \in spaces, NEW v \in VPage,
                      Translation(r, v)' # Translation(r, v)
               PROVE  pc # "idle" /\ r = Root /\ v = call.vaddr /\ Translation(r, v) = Unmapped
    OBVIOUS
  <2>1. Translation(r, v) = TranslationIn(mem, r, v)
    BY TranslationIs
  <2>2. Translation(r, v)' = TranslationIn(mem', r, v)
    BY DEF Translation, TranslationIn, Entry1, Entry2, Entry3, Entry4
  <2>3. Stays(r, v)
    BY StaysStep
  <2> QED
    BY <2>1, <2>2, <2>3 DEF Stays
<1>2. TasksSpec => [][StepKeeps]_schedVars
  BY <1>1, TasksInvariance, SpaceInvariance, PTL DEF TasksSpec
<1> QED
  BY <1>2 DEF TranslationsKept

==============================================================================
