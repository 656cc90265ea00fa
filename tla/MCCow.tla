-------------------------------- MODULE MCCow --------------------------------
(***************************************************************************)
(* A small instance of CowFork for TLC.                                    *)
(***************************************************************************)
EXTENDS CowFork, TLC

CONSTANTS a, b

\* Tables: the scratch addresses; the program's text and data; shared pages;
\* and the stacks.
Tables == [va \in VA |-> CASE va \in {UTEMP, PFTEMP} -> 0
                           [] va \in {Stack, UXStack} -> 3
                           [] va \in Shared -> 2
                           [] OTHER -> 1]

\* Bound: pages in use, next to a directory and a page table for every slot
FewPages ==
  Cardinality(InUse(pte)) + 2 * Cardinality({e \in Envs : prog[e] # Unused}) <= 13

\* The slots apart from the first program's are interchangeable.
Slots == {0, a, b}
Others == Permutations({a, b})
=============================================================================
