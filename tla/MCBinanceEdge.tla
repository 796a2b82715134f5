---------------------------- MODULE MCBinanceEdge ----------------------------
(* Instances of the Binance edge for TLC.  Scale = 2: an amount of 3 is 1.5, *)
(* so 1.5 units at 1.5 cost 2.25, of which the last place cannot be kept.    *)
EXTENDS BinanceEdge, TLC

CONSTANTS t1, t2, c1

MCThreads1 == {t1}
MCThreads2 == {t1, t2}
MCEdgeIds2 == 1..2
MCEdgeIds3 == 1..3
MCEmuIds == {101}
MCIds23 == MCEdgeIds2 \cup MCEmuIds
MCIds3 == MCEdgeIds3
MCClients == {c1, Unnamed}
MCUnnamed == {Unnamed}
MCKinds == {"limit", "market"}
MCLimit == {"limit"}
MCEmuKinds == {"limit", "ioc"}
MCPrices == {2, 3}
MCPrice == {3}
MCVolumes == {1, 2}
MCNone == {}

ThreadSymmetry == Permutations(Threads)
=============================================================================
