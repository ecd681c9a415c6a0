---------------------------- MODULE AddressSpace ----------------------------
(***************************************************************************)
(* What map_page_specific_pml4 promises, with no paging structure in sight:*)
(* each address space gives every virtual page a translation or none, and  *)
(* a call changes the translation of the page it names, and no other, in   *)
(* one step, at its end.                                                   *)
(***************************************************************************)
EXTENDS FiniteSets

CONSTANTS
  Space,     \* names of address spaces
  VPage,     \* virtual pages
  Frame,     \* what a virtual page can be translated to
  Right,     \* the rights a translation may grant (present among them)
  Request,   \* the calls: [root, vaddr, paddr, flags]
  NoCall,    \* no call is under way
  Unmapped   \* the page has no translation

VARIABLES
  translation,   \* for each space that exists, what its pages translate to
  call           \* the call under way

vars == <<translation, call>>

Init ==
  /\ translation = [s \in {} |-> Unmapped]
  /\ call = NoCall

(* A new address space maps nothing. *)
Create(s) ==
  /\ s \notin DOMAIN translation
  /\ translation' = [r \in DOMAIN translation \cup {s} |->
                       IF r = s THEN [v \in VPage |-> Unmapped] ELSE translation[r]]
  /\ UNCHANGED call

Begin(c) ==
  /\ call = NoCall
  /\ c.root \in DOMAIN translation
  /\ call' = c
  /\ UNCHANGED translation

(* The page now translates to the frame asked for.  It grants some of the  *)
(* rights asked for, never one that was not.                               *)
Complete(rights) ==
  /\ call # NoCall
  /\ rights \subseteq call.flags
  /\ translation' = [translation EXCEPT ![call.root][call.vaddr] =
                       [addr |-> call.paddr, bits |-> rights \cup {"P"}]]
  /\ call' = NoCall

Next ==
  \/ \E s \in Space : Create(s)
  \/ \E c \in Request : Begin(c)
  \/ \E rights \in SUBSET Right : Complete(rights)

Spec == Init /\ [][Next]_vars
==============================================================================
