-------------------------------- MODULE Tasks --------------------------------
(***************************************************************************)
(* The task table (scheduler.c), and the address spaces of tasks           *)
(* (init_task_space_from_mem, proc.c).                                     *)
(*                                                                         *)
(* new_task is what the scheduler offers; _start (main.c) builds the space *)
(* of a boot module by itself, of its first page; and proc.h offers the    *)
(* function to anybody, for as many pages as they say.  All run here under *)
(* structures that map physical memory at its own addresses, as proc.c     *)
(* assumes.                                                                *)
(*                                                                         *)
(* init_task_space_from_mem stores the address of the new pml4 through its *)
(* first parameter.  _start passes the address of a local variable;        *)
(* new_task passes the frame it keeps in pml4_table, so there the address  *)
(* lands in the first word of that frame.                                  *)
(***************************************************************************)
EXTENDS Paging

CONSTANTS
  N_TASKS,    \* slots of the task table
  Modules,    \* first pages of the boot modules
  N_BLOCKS,   \* the most pages that a caller asks for
  StackPage,  \* the virtual page below __FLUX_BASE_VIRT
  ExecPages   \* the virtual pages from address 0 up

(* A module lies in memory that is not usable RAM.  The stack is above all *)
(* executables, whose pages are different ones.                            *)
ASSUME TasksAssumption ==
  /\ N_TASKS \in Nat
  /\ Modules \subseteq Page
  /\ N_BLOCKS \in 1 .. Len(ExecPages)
  /\ \A m \in Modules : m .. m + N_BLOCKS - 1 \subseteq Page \ Frame
  /\ StackPage \in VPage
  /\ ExecPages \in Seq(VPage)
  /\ \A j, k \in DOMAIN ExecPages : ExecPages[j] = ExecPages[k] => j = k
  /\ \A k \in DOMAIN ExecPages : ExecPages[k] # StackPage
  /\ {"W", "U"} \subseteq Flag

VARIABLES
  tasks,         \* the task table
  current_task,  \* index of the running task, or -1
  new,           \* the slot new_task has claimed, or -1
  step,          \* where new_task and init_task_space_from_mem are
  pml4,          \* the frame whose first word pml4 points to, or LOCAL
  task_pml4,     \* the local variable of _start, or of the other caller
  stack,         \* stack_block_start
  pmem_offset,   \* the executable's first page ...
  n_blocks,      \* ... and how many of its pages are asked for
  bn             \* pages of it mapped so far

argVars == <<pml4, pmem_offset, n_blocks>>
spaceVars == <<argVars, task_pml4, stack, bn>>
taskVars == <<tasks, current_task, new, step, spaceVars>>
schedVars == <<pagingVars, taskVars>>

LOCAL_VARIABLE == NULL

(* The registers a new task is to start with, those that are not plain     *)
(* data: code and data segment of ring 3, and no stack or space yet.       *)
Seg == INSTANCE Structures

ModuleData == Seg!INIT_SEGMENT_SELECTOR(Seg!Ring3, {}, {2})
default_regs_userspace ==
  [cs |-> Seg!INIT_SEGMENT_SELECTOR(Seg!Ring3, {}, {0, 1}),
   ds |-> ModuleData, ss |-> ModuleData, rip |-> 0, rsp |-> 0, cr3 |-> NULL]

Slots == 0 .. N_TASKS - 1
FreeSlots_All == Slots
FreeSlots == {i \in Slots : ~ tasks[i].present}

(* The page of the executable to map next, and its rights. *)
ExecFrame_First == pmem_offset
ExecFrame == pmem_offset + bn
ExecFlags_Writeable == {"W", "U"}
ExecFlags == {"U"}

(* *pml4 *)
Root == IF pml4 = LOCAL_VARIABLE THEN task_pml4 ELSE Marker(pml4)

-----------------------------------------------------------------------------
(***************************************************************************)
(* The task table.                                                         *)
(***************************************************************************)

(* scheduler_init. *)
SchedulerInit ==
  /\ Idle
  /\ step = "off"
  /\ current_task' = -1
  /\ tasks' = [i \in Slots |-> [tasks[i] EXCEPT !.present = FALSE]]
  /\ step' = "idle"
  /\ UNCHANGED <<pagingVars, new, spaceVars>>

(* new_task claims the first free slot before it has anything to put in it.*)
NewTask ==
  /\ Idle
  /\ step = "idle"
  /\ \E i \in FreeSlots :
       /\ \A j \in FreeSlots : i <= j
       /\ tasks' = [tasks EXCEPT ![i].present = TRUE, ![i].state = "READY"]
       /\ new' = i
  /\ step' = "pml4_table"
  /\ UNCHANGED <<pagingVars, current_task, spaceVars>>

(* tsk->pml4_table = get_phys_block(), the default registers, and the call *)
(* of init_task_space_from_mem(tsk->pml4_table, 0, 0).                     *)
NewTaskBlock ==
  /\ step = "pml4_table"
  /\ GetDataBlock
  /\ tasks' = [tasks EXCEPT ![new].pml4_table = first_page_frame,
                            ![new].regs = default_regs_userspace]
  /\ pml4' = first_page_frame
  /\ pmem_offset' = 0
  /\ n_blocks' = 0
  /\ step' = "root"
  /\ UNCHANGED <<current_task, new, task_pml4, stack, bn>>

(* init_task_space_from_mem(&task_pml4, .., n), for a module. *)
ModuleSpace(n) ==
  /\ Idle
  /\ step = "idle"
  /\ pml4' = LOCAL_VARIABLE
  /\ pmem_offset' \in Modules
  /\ n_blocks' = n
  /\ step' = "root"
  /\ UNCHANGED <<pagingVars, tasks, current_task, new, task_pml4, stack, bn>>

(* _start asks for one page of each module, however long it is ... *)
StartModule == ModuleSpace(1)

(* ... and who else includes proc.h, for any number. *)
OtherCaller == \E n \in 0 .. N_BLOCKS : ModuleSpace(n)

-----------------------------------------------------------------------------
(***************************************************************************)
(* init_task_space_from_mem.                                               *)
(***************************************************************************)

(* The first get_phys_block, whose result goes where pml4 points. *)
GetRoot ==
  /\ step = "root"
  /\ NewSpace
  /\ step' = "store_root"
  /\ UNCHANGED <<tasks, current_task, new, spaceVars>>

(* *pml4 = the block: a local variable of the caller ... *)
StoreLocal ==
  /\ step = "store_root"
  /\ pml4 = LOCAL_VARIABLE
  /\ task_pml4' = block
  /\ step' = "stack"
  /\ UNCHANGED <<pagingVars, tasks, current_task, new, argVars, stack, bn>>

(* ... or the first word of the frame that new_task allocated. *)
StoreInFrame ==
  /\ step = "store_root"
  /\ pml4 # LOCAL_VARIABLE
  /\ SetMarker(pml4, block)
  /\ step' = "stack"
  /\ UNCHANGED <<first_page_frame, n_free_page_frames, phase, scanVars, held, block>>
  /\ UNCHANGED <<callerVars, walkVars, tasks, current_task, new, spaceVars>>

(* The stack, stack_block_start. *)
GetStack ==
  /\ step = "stack"
  /\ GetDataBlock
  /\ stack' = first_page_frame
  /\ step' = "map_stack"
  /\ UNCHANGED <<tasks, current_task, new, argVars, task_pml4, bn>>

(* It is mapped just below the kernel ... *)
MapStack ==
  /\ step = "map_stack"
  /\ MapCall(Root, stack, StackPage, {"W", "U"})
  /\ bn' = 0
  /\ step' = "map_exec"
  /\ UNCHANGED <<memVars, callerVars>>
  /\ UNCHANGED <<tasks, current_task, new, argVars, task_pml4, stack>>

(* ... and the executable from address 0, one page a turn. *)
MapExec ==
  /\ step = "map_exec"
  /\ bn < n_blocks
  /\ MapCall(Root, ExecFrame, ExecPages[bn + 1], ExecFlags)
  /\ bn' = bn + 1
  /\ UNCHANGED <<memVars, callerVars>>
  /\ UNCHANGED <<tasks, current_task, new, step, argVars, task_pml4, stack>>

(* Return; new_task returns the slot. *)
SpaceDone ==
  /\ Idle
  /\ step = "map_exec"
  /\ bn >= n_blocks
  /\ new' = -1
  /\ step' = "idle"
  /\ UNCHANGED <<pagingVars, tasks, current_task, spaceVars>>

-----------------------------------------------------------------------------
TasksStart ==
  /\ PagingStart
  /\ tasks = [i \in Slots |->
                [present |-> FALSE, state |-> "RUNNING", pml4_table |-> NULL,
                 regs |-> [default_regs_userspace EXCEPT !.cs = {}, !.ds = {}, !.ss = {}]]]
  /\ current_task = 0
  /\ new = -1
  /\ step = "off"
  /\ pml4 = LOCAL_VARIABLE
  /\ task_pml4 = NULL
  /\ stack = NULL
  /\ pmem_offset = 0
  /\ n_blocks = 0
  /\ bn = 0

InitTaskSpace == GetRoot \/ StoreLocal \/ StoreInFrame \/ GetStack \/ MapStack \/ MapExec

TasksNext ==
  \/ Scan /\ UNCHANGED <<callerVars, walkVars, taskVars>>
  \/ SchedulerInit
  \/ NewTask
  \/ NewTaskBlock
  \/ StartModule
  \/ OtherCaller
  \/ InitTaskSpace
  \/ SpaceDone
  \/ MapStep /\ UNCHANGED taskVars
  \/ step \in {"pml4_table", "root", "stack"} /\ CallerFails /\ UNCHANGED taskVars

TasksSpec == TasksStart /\ [][TasksNext]_schedVars

-----------------------------------------------------------------------------
(***************************************************************************)
(* Properties.                                                             *)
(***************************************************************************)

Structures == spaces \cup Pdpts \cup Pdts \cup PageTables

(* A page that one space can write is mapped nowhere else: tasks share     *)
(* executables, which they only read, and never a stack.                   *)
SpacesIsolated ==
  \A r, s \in spaces, v, w \in VPage :
    LET one == Translation(r, v)
        two == Translation(s, w)
    IN  "W" \in one.bits /\ Present(two) /\ one.addr = two.addr => r = s /\ v = w

(* No space reaches a paging structure or a free frame: a task that runs   *)
(* in its own space can neither change a translation nor damage the free   *)
(* list.                                                                   *)
KernelFramesUnreachable ==
  \A r \in spaces, v \in VPage :
    Present(Translation(r, v)) => Translation(r, v).addr \notin Structures \cup FreeSet

(* The space of a module, once built, holds its stack and as many pages of *)
(* its executable as the caller asked for, each at its place and with the  *)
(* rights that proc.c gives them, and nothing else: of a module that       *)
(* _start starts, the first page and no more.                              *)
ModuleSpaceExact ==
  step = "idle" /\ pml4 = LOCAL_VARIABLE /\ task_pml4 # NULL =>
    \A v \in VPage :
      Translation(task_pml4, v) =
        IF v = StackPage THEN [addr |-> stack, bits |-> {PRESENT, "W", "U"}]
        ELSE IF \E k \in 1 .. n_blocks : v = ExecPages[k]
        THEN [addr |-> pmem_offset + (CHOOSE k \in 1 .. n_blocks : v = ExecPages[k]) - 1,
              bits |-> {PRESENT, "U"}]
        ELSE Unmapped

(* The frame and the registers that new_task puts in a slot stay there: no *)
(* later call takes the slot of a task that exists.                        *)
TasksKeepTheirFrame ==
  [][\A i \in Slots : tasks[i].pml4_table # NULL => tasks'[i] = tasks[i]]_schedVars

(* A space that is complete never changes again, and the one in the making *)
(* only at the page it is being given, which it did not map yet: no frame  *)
(* that is taken, cleared, linked or filled for a later task, and no       *)
(* leftover in it, shows through in a space that exists.                   *)
TranslationsKept ==
  [][\A r \in spaces, v \in VPage :
       Translation(r, v)' # Translation(r, v) =>
         pc # "idle" /\ r = Root /\ v = call.vaddr /\ Translation(r, v) = Unmapped]_schedVars

Made(i) == tasks[i].present /\ new # i

(* proc.c: "Map the stack to just below kernel".  In the pml4_table of a   *)
(* task that new_task has made, the stack is mapped there.                 *)
StackMapped ==
  \A i \in Slots : Made(i) => Present(Translation(tasks[i].pml4_table, StackPage))
==============================================================================
