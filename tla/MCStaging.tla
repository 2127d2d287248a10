----------------------------- MODULE MCStaging ------------------------------
(* A small instance of StagingAllocator: chunks of a few bytes, alignment 2 *)
(* and odd sizes, so that padding, splits and merges all happen.            *)
EXTENDS StagingAllocator, TLC

CONSTANTS h1, h2, b1, b2

MCHolders == {h1, h2}
MCBuffers == {b1, b2}
MCChunkSize == [upload |-> 9, copy |-> 2]
Symmetry == Permutations(MCHolders) \union Permutations(MCBuffers)
=============================================================================
