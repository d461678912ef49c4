--------------------------- MODULE MC_SnapchainNode ---------------------------
(* Instantiation of SnapchainNode for TLC: model values for the sentinels   *)
(* and the transaction batches.                                            *)
EXTENDS SnapchainNode

CONSTANTS t1, t2

MC_TxBatches == {t1, t2}
=============================================================================
