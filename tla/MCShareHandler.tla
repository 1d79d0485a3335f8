-------------------------- MODULE MCShareHandler --------------------------
(* Small instances of ShareHandler.  Two connections come from one address  *)
(* and may use the same worker name.                                        *)
EXTENDS ShareHandler, TLC

MCClients == {"c1", "c2"}
MCOneClient == {"c1"}
MCSameAddr == [c \in MCClients |-> "10.0.0.1"]
MCOneAddr == [c \in MCOneClient |-> "10.0.0.1"]

MCBlocks3 == {"b1", "b2", "b3"}
MCBlueScore == [b \in MCBlocks3 |-> CASE b = "b1" -> 1 [] b = "b2" -> 2 [] OTHER -> 4]
MCBlocks2 == {"b1", "b2"}
MCBlueScore2 == [b \in MCBlocks2 |-> IF b = "b1" THEN 1 ELSE 2]

\* With a maximal target of 8: difficulty 2 gives the share target 4,
\* difficulty 4 gives 2.  The nonces stand for a block and for a share at
\* difficulty 2 only.
MCPow(n) == IF n = "block" THEN 1 ELSE 3
MCShareNonces == {"share"}
MCBlockShare == {"block", "share"}
MCNetworkTarget2 == [b \in MCBlocks2 |-> 1]
MCNetworkTarget3 == [b \in MCBlocks3 |-> 1]
MCPowValue(B, N) == [b \in B |-> [n \in N |-> MCPow(n)]]
MCPow2 == MCPowValue(MCBlocks2, MCBlockShare)
MCPow3 == MCPowValue(MCBlocks3, MCShareNonces)

MCDiffs == {2, 4}
MCDiff == {2}
MCWallets == {"A"}
MCWorkers == {"w"}
MCIdentities == [c \in MCClients |->
                   IF c = "c1" THEN {<<"A", "w">>} ELSE {<<"A", "w">>, <<"A", "anonymous">>}]
MCSameIdentity == [c \in MCClients |-> {<<"A", "w">>}]
MCOneIdentity == [c \in MCOneClient |-> {<<"A", "w">>}]
MCNobody == {}
MCFirstClient == {"c1"}
MCSecondBlock == {"b2"}
MCSecondClient == {"c2"}
MCOneSubmit == [c \in MCClients |-> 1]
MCTwoSubmits == [c \in MCOneClient |-> 2]
MCTwoAndOne == [c \in MCClients |-> IF c = "c1" THEN 2 ELSE 1]
\* Interchangeable nonces, none of which meets a target.
MCWeakPow == [b \in Blocks |-> [n \in Nonces |-> 6]]
MCNonceSymmetry == Permutations(Nonces)
MCJobId == {1}
MCJobIds3 == {1, 2, 3}
=============================================================================
