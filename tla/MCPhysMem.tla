------------------------------ MODULE MCPhysMem ------------------------------
(* Values of PhysMem's constants for TLC: a machine of six pages.           *)
EXTENDS PhysMem

MCPage == 0 .. 5
MCIndex == {0, 1}
MCFlag == {"P"}

(* Two usable regions around a reserved one, and an empty usable entry.     *)
MCMemmap ==
  << [base |-> 0, length |-> 1, type |-> "RESERVED"],
     [base |-> 1, length |-> 2, type |-> "USABLE"],
     [base |-> 3, length |-> 1, type |-> "KERNEL_AND_MODULES"],
     [base |-> 3, length |-> 0, type |-> "USABLE"],
     [base |-> 4, length |-> 2, type |-> "USABLE"] >>

(* A word that looks like a marker naming a usable frame, and one that does *)
(* not: a present page-table entry.                                         *)
LooksLikeMarker == Pointer(2)
LooksLikeEntry == [addr |-> 4, bits |-> {"P"}]

(* RAM holds zeros, or whatever a previous kernel left there; the clients   *)
(* leave either of these in their frames, or an entry where the marker was. *)
Zeros == [j \in Index |-> Pointer(NULL)]
Leftovers == [j \in Index |-> IF j = 0 THEN LooksLikeMarker ELSE LooksLikeEntry]

MCRamImage == [MCPage -> {Zeros, Leftovers}]
MCStoreImage == {Leftovers, [j \in Index |-> LooksLikeEntry]}
==============================================================================
