------------------------------ MODULE MCPaging ------------------------------
(* Values of Paging's constants for TLC: nine pages, structures of two     *)
(* entries.  A first space needs up to seven structures, a second the rest.*)
EXTENDS Paging

CONSTANT Last       \* highest page number

MCPage == 0 .. Last
MCIndex == {0, 1}
MCFlag == {"P", "W", "U"}
MCMemmap == << [base |-> 0, length |-> 1, type |-> "RESERVED"],
               [base |-> 1, length |-> Last, type |-> "USABLE"] >>

Zeros == [j \in Index |-> Pointer(NULL)]

(* Leftovers of another system, entries of its paging structures among them.*)
Leftovers == [j \in Index |-> [addr |-> 2, bits |-> {"P", "W"}]]

(* RAM is all zeros, or full of leftovers but for the clean pages.          *)
Clean(S) == [p \in MCPage |-> IF p \in S THEN Zeros ELSE Leftovers]
MCRamImage == {Clean(MCPage), Clean({Last, Last - 1}), Clean({Last, Last - 4})}
DirtyRam == {Clean({})}
MCStoreImage == {Leftovers}

Asks(v, p, f) == [vaddr |-> v, paddr |-> p, flags |-> f]

(* Pages that share all structures, none but the pml4, and all but one; any *)
(* rights; one page of them remapped elsewhere.                             *)
AnyRequests ==
  { Asks(<<0, 0, 0, 0>>, 1, {"W", "U"}), Asks(<<0, 0, 0, 0>>, 0, {"U"}),
    Asks(<<0, 0, 0, 1>>, 1, {"W", "U"}), Asks(<<0, 0, 1, 0>>, 2, {"U"}),
    Asks(<<1, 0, 0, 0>>, 1, {"W"}) }

==============================================================================
