------------------------------- MODULE MCGame -------------------------------
(***************************************************************************)
(* Values for the constants of GameStore that a .cfg cannot write down.    *)
(***************************************************************************)
EXTENDS GameRefinement, TLC

\* One save mentions one upgrade, the other both, one of them sold out.
TwoSaves == {[radish |-> 3, upgrades |-> ("hoe" :> 1 @@ "can" :> NotMentioned)],
             [radish |-> 5, upgrades |-> ("hoe" :> 0 @@ "can" :> 4)]}

OneSave == {[radish |-> 5, upgrades |-> ("hoe" :> 2)]}

Swap == Permutations(Threads) \cup Permutations(Names) \cup Permutations(Passwords)
=============================================================================
