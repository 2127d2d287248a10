--------------------------- MODULE StagingRanges ----------------------------
(***************************************************************************)
(* The free-list arithmetic of a staging chunk, on sets of ranges: what    *)
(* allocate_from_chunk and merge_chunk_free_ranges compute when the order  *)
(* of the list is forgotten.                                               *)
(***************************************************************************)
EXTENDS Integers

CONSTANT Alignment  \* max(16, minStorageBufferOffsetAlignment)

ASSUME AlignmentAssumption == Alignment \in Nat \ {0}

StagingChunkRange == [offset : Nat, size : Nat \ {0}]

End(r) == r.offset + r.size

SameBytes(p, q) == p.offset < End(q) /\ q.offset < End(p)

Covered(R, x) == \E r \in R : r.offset <= x /\ x < End(r)

\* Mutant of align_up: rounds to the previous multiple.
align_down(value) == value - (value % Alignment)

align_up(value) ==
  LET remainder == value % Alignment
  IN  IF remainder = 0 THEN value ELSE value + Alignment - remainder

Padding(r) == align_up(r.offset) - r.offset

\* Mutant of Fits: the padding is not part of what must fit.
Fits_NoPadding(r, n) == r.size >= n

Fits(r, n) == r.size >= Padding(r) /\ r.size - Padding(r) >= n

FirstFit(R, n, r) ==
  /\ Fits(r, n)
  /\ \A q \in R : Fits(q, n) => r.offset <= q.offset

\* Mutant of Carve: an empty rest stays in the list.
Carve_KeepEmpty(R, r, n) ==
  (R \ {r}) \union {[offset |-> r.offset, size |-> Padding(r)],
                    [offset |-> align_up(r.offset) + n, size |-> r.size - Padding(r) - n]}

\* Mutant of Carve: the bytes skipped for alignment are forgotten.
Carve_LosePadding(R, r, n) ==
  (R \ {r}) \union {x \in {[offset |-> align_up(r.offset) + n,
                            size |-> r.size - Padding(r) - n]} : x.size # 0}

\* What is left of the free ranges R when n bytes are cut out of range r.
Carve(R, r, n) ==
  LET prefix == [offset |-> r.offset, size |-> Padding(r)]
      suffix == [offset |-> align_up(r.offset) + n, size |-> r.size - Padding(r) - n]
  IN  (R \ {r}) \union {x \in {prefix, suffix} : x.size # 0}

\* Mutant of Merge: released ranges are pushed and never coalesced.
Merge_None(R) == R

\* The longest runs of bytes that the ranges R cover: each starts where a range p
\* starts, ends where a range q ends, and touches no other byte of R.
IsRun(R, p, q) ==
  /\ p.offset < End(q)
  /\ \A x \in p.offset .. End(q) - 1 : Covered(R, x)
  /\ \A r \in R : r.offset < p.offset => End(r) < p.offset
  /\ \A r \in R : End(q) < End(r) => End(q) < r.offset

Merge(R) ==
  {[offset |-> pq[1].offset, size |-> End(pq[2]) - pq[1].offset] :
     pq \in {pq \in R \X R : IsRun(R, pq[1], pq[2])}}
=============================================================================
