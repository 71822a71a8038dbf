----------------------- MODULE MCChannelConsolidation -----------------------
(* Small instances of ChannelConsolidation.                                *)
EXTENDS ChannelConsolidation, TLC

CONSTANTS w1, w2

WorkerSymmetry == Permutations({w1, w2})
=============================================================================
