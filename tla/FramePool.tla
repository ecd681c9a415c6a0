------------------------------ MODULE FramePool ------------------------------
(***************************************************************************)
(* What the physical memory manager of mem.h promises its clients, with no *)
(* linked list and no counter: a pool of free frames and the frames the    *)
(* clients hold.  A frame is handed out only if it is free, and is given   *)
(* back only by the client that holds it.                                  *)
(***************************************************************************)
CONSTANTS
  Frame,     \* the 4 KiB frames of usable RAM
  NoBlock    \* what block is before the first allocation

VARIABLES
  free,      \* frames nobody uses
  held,      \* frames the clients use
  block      \* what the last allocation returned

vars == <<free, held, block>>

Init ==
  /\ free = {}
  /\ held = {}
  /\ block = NoBlock

(* A frame that the pool has never seen joins it (mem_init). *)
Add(f) ==
  /\ f \notin free \cup held
  /\ free' = free \cup {f}
  /\ UNCHANGED <<held, block>>

(* get_phys_block: some free frame is handed out, and returned. *)
Get(f) ==
  /\ f \in free
  /\ free' = free \ {f}
  /\ held' = held \cup {f}
  /\ block' = f

(* put_phys_block: a frame goes back to the pool. *)
Put(f) ==
  /\ f \in held
  /\ held' = held \ {f}
  /\ free' = free \cup {f}
  /\ UNCHANGED block

Next == \E f \in Frame : Add(f) \/ Get(f) \/ Put(f)

Spec == Init /\ [][Next]_vars
==============================================================================
