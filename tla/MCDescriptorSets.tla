-------------------------- MODULE MCDescriptorSets --------------------------
(* Two threads (one suffices for the cached sets), two images and three     *)
(* views, so that two threads can race to create the view of one image and  *)
(* the driver hands out destroyed handles.                                  *)
EXTENDS DescriptorSets, TLC

CONSTANTS t1, t2, i1, i2, v1, v2, v3, s1, s2

MCThreads == {t1, t2}
MCOneThread == {t1}
MCImages == {i1, i2}
MCViews == {v1, v2, v3}
MCSets == {s1, s2}
Symmetry ==
  Permutations(Threads) \union Permutations(Images)
    \union Permutations(MCViews) \union Permutations(MCSets)
=============================================================================
