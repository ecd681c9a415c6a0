------------------------------ MODULE MCTasks ------------------------------
(* Values of Tasks' constants for TLC: structures of two entries, a table  *)
(* of two tasks, and one module of two pages.                              *)
EXTENDS Tasks

CONSTANT Last   \* highest page number

MCPage == 0 .. Last
MCIndex == {0, 1}
MCFlag == {"P", "W", "U"}
MCMemmap == << [base |-> 0, length |-> 2, type |-> "RESERVED"],
               [base |-> 2, length |-> 2, type |-> "KERNEL_AND_MODULES"],
               [base |-> 4, length |-> Last - 3, type |-> "USABLE"] >>

(* RAM is all zeros, or full of entries of another system's structures but  *)
(* for the frames that become the pml4s of the first three spaces: three    *)
(* modules, two tasks and a module, a module and a task, a task and modules.*)
Clean(S) == [p \in MCPage |-> [j \in Index |->
              IF p \in S THEN Pointer(NULL) ELSE [addr |-> 3, bits |-> {"P", "W", "U"}]]]
MCRamImage == {Clean(MCPage), Clean({Last, Last - 8, Last - 16}),
               Clean({Last - 1, Last - 7, Last - 12}), Clean({Last, Last - 9, Last - 14}),
               Clean({Last - 1, Last - 6, Last - 14})}
MCStoreImage == {}
MCRequest == {}
MCModules == {2}
MCStackPage == <<1, 1, 0, 1>>
MCExecPages == << <<0, 0, 0, 0>>, <<0, 0, 0, 1>> >>
==============================================================================
