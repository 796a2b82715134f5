---------------------------- MODULE MCTransferHub ----------------------------
(* Instances of the transfer hub for TLC.  Quantum = 2: the chain keeps one  *)
(* binary place less than the ledger, so 1 underflows and 3 is cut to 2.     *)
EXTENDS TransferHub

CONSTANTS v1, v2, w1, w2, out

MCVenues == {v1, v2}
MCVenue == {v1}
MCWorkers == {w1, w2}
MCWorker == {w1}
MCAmounts == {1, 3}
MCAmount == {2}
=============================================================================
