---------------------------- MODULE MCNNChannel ----------------------------
(* A small campaign: two queue entries, two suggested bytes, one death of  *)
(* the network.                                                            *)
EXTENDS NNChannel

MCBytes == {0, 1}
=============================================================================
