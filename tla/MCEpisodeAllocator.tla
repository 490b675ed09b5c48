------------------------- MODULE MCEpisodeAllocator -------------------------
(* An instance of EpisodeAllocator for TLC *)
EXTENDS EpisodeAllocator, TLC

Symmetry == Permutations(Workers)
=============================================================================
