------------------------------- MODULE MCCrud -------------------------------
(***************************************************************************)
(* Values for the constants of CrudStore that a .cfg cannot write down.    *)
(***************************************************************************)
EXTENDS CrudRefinement, TLC

\* A document of one block and one of two, so that a shorter document may
\* replace a longer one.
ShortAndLong == {<<"a">>, <<"b", "c">>}

\* Two writers of the same file, one reader.
Swap == Permutations(Threads) \cup Permutations(Inodes)

InodeSwap == Permutations(Inodes)
=============================================================================
