--------------------------- MODULE MCVirtualImages ---------------------------
(* Two threads and two images; a blocked image is retried every third      *)
(* copy.  No symmetry: the run checks a liveness property.                  *)
EXTENDS VirtualImages

CONSTANTS t1, t2, i1, i2

MCThreads == {t1, t2}
MCImages == {i1, i2}
=============================================================================
