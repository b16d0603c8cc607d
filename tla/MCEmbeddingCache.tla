-------------------------- MODULE MCEmbeddingCache --------------------------
(* TLC instance of EmbeddingCache: two receivers racing one invalidator. *)
EXTENDS EmbeddingCache, TLC

ReceiverSymmetry == Permutations(Receiver)
=============================================================================
