------------------------------- MODULE MCPages -------------------------------
(***************************************************************************)
(* Values for the constants of GamePages that a .cfg cannot write down.    *)
(***************************************************************************)
EXTENDS GamePages, TLC

\* Nothing, radishes, and an upgrade bought with some of them.
FewCounts == {[radish |-> 0, upgrades |-> ("hoe" :> 0)],
              [radish |-> 1, upgrades |-> ("hoe" :> 1)]}

Swap == Permutations(Threads) \cup Permutations(Pages) \cup Permutations(SessionIds)
=============================================================================
