------------------------------- MODULE MCBoot -------------------------------
(* A machine for Boot: structures of three entries, so 81 virtual pages; the*)
(* kernel's window is the top nine, the direct map starts at 54.  The       *)
(* kernel is one of three regions, by the bootloader's answer; the others   *)
(* are modules.  Of the eleven frames of RAM the map needs                  *)
(*   all eleven if it is the first, so _start's own block is missing,       *)
(*   ten if it is the second: the frame left is page 5, and the module at   *)
(*     page 14, so high that its virtual address wraps to page 5 of the     *)
(*     lower half, happens to be mapped there,                              *)
(*   eight if it is the third.                                              *)
EXTENDS Boot

CONSTANT Last   \* highest page number

MCPage == 0 .. Last
MCIndex == 0 .. 2
MCFlag == {"P", "W", "U"}

Region(first, n, kind) == [base |-> first, length |-> n, type |-> kind]

MCMemmap ==
  << Region(0, 2, "RESERVED"), Region(2, 1, "KERNEL_AND_MODULES"),
     Region(3, 2, "KERNEL_AND_MODULES"), Region(5, 9, "USABLE"),
     Region(14, 1, "KERNEL_AND_MODULES"), Region(15, 2, "USABLE") >>
MCKernelBases == {2, 3, 14}

(* RAM is all zeros, or full of leftovers but for the first frame taken.    *)
Zeros == [j \in Index |-> Pointer(NULL)]
Leftovers == [j \in Index |-> [addr |-> 2, bits |-> {"P", "W"}]]
FirstTaken == CHOOSE f \in Frame : \A g \in Frame : g <= f
MCRamImage ==
  {[p \in MCPage |-> Zeros],
   [p \in MCPage |-> IF p = FirstTaken THEN Zeros ELSE Leftovers]}

MCStoreImage == {}
MCRequest == {}
==============================================================================
