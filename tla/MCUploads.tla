------------------------------ MODULE MCUploads ------------------------------
(* Uploads of two blocks in a row, of two layers of a block, and of a block whose *)
(* image height pads it.                                                          *)
EXTENDS Uploads

R(offset, width, height, pitch, rows, slices) ==
  [offset |-> offset, width |-> width, height |-> height,
   pitch |-> pitch, rows |-> rows, slices |-> slices]

MCRegions == {R(0, 2, 1, 2, 1, 1), R(0, 1, 1, 1, 1, 2), R(0, 1, 1, 1, 2, 1)}

\* All of the memory and its last two blocks.
MCRanges == {[offset |-> 0, size |-> WholeSize], [offset |-> 1, size |-> 2]}
Symmetry == Permutations(Threads) \union Permutations(Patterns)
MCHashOf == [p \in Patterns |-> p]
=============================================================================
