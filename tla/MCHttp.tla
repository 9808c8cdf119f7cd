------------------------------- MODULE MCHttp -------------------------------
(***************************************************************************)
(* Bounds and symmetry for the runs of HttpServer.                         *)
(***************************************************************************)
EXTENDS HttpServer, TLC

TwoEach == [c \in Conns |-> 2]

\* Two messages on all connections but one, which has one.
OneIsShort == [TwoEach EXCEPT ![CHOOSE c \in Conns : TRUE] = 1]

Swap == Permutations(Threads) \cup Permutations(Conns) \cup Permutations(Sessions)
=============================================================================
