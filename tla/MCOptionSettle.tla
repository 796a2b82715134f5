---------------------------- MODULE MCOptionSettle ----------------------------
(* Instances of the option sweep for TLC.  Scale = 1: nothing is truncated.  *)
EXTENDS OptionSettle

CONSTANTS h1, s1, s2

MCHandlers == {h1}
MCSweepers == {s1, s2}
MCThreads3 == MCHandlers \cup MCSweepers
MCEdgeIds == 1..2
MCNone == {}
MCLimit == {"limit"}
MCClients == {Unnamed}
MCPrices == {1}
MCVolumes == {1}
=============================================================================
