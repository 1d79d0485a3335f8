--------------------------- MODULE MCJobDispatch ---------------------------
(* Small instances of JobDispatch: one client, which speaks v1 or SV2, and   *)
(* one or two goroutines of NewBlockAvailable at a time.                     *)
EXTENDS JobDispatch, TLC

MCClients == {"c1"}
MCNetworkTarget == [b \in Blocks |-> 2]
MCDiffs == {2, 4}
MCWallets == {"A"}
MCWorkers == {"w1", "w2"}

\* A client without a worker name, and one with two of them to choose from.
MCNoName == [c \in MCClients |-> {<<"A", "anonymous">>}]
MCTwoNames == [c \in MCClients |-> {<<"A", "w1">>, <<"A", "w2">>}]

\* Goroutines are interchangeable, and so are templates with one target.
MCSymmetry == Permutations(Goroutines) \union Permutations(Blocks)
=============================================================================
