------------------------------ MODULE MCEvidence ------------------------------
(* Evidence on a small instance. Nothing tells the channels apart, so that *)
(* they may be permuted.                                                   *)
EXTENDS Evidence, TLC

ChannelSymmetry == Permutations(Channels)
=============================================================================
