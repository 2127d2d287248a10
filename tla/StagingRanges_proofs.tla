------------------------ MODULE StagingRanges_proofs ------------------------
(***************************************************************************)
(* What splitting and merging free ranges can and cannot do, for every     *)
(* alignment and every set of ranges; and that the vector the code keeps   *)
(* follows the sets, whatever order it is released in.                     *)
(***************************************************************************)
EXTENDS FreeList, WellFoundedInduction, FiniteSetTheorems, TLAPS

Separate(R) == \A p, q \in R : p # q => End(p) < q.offset \/ End(q) < p.offset

Inside(x, y) == y.offset <= x.offset /\ End(x) <= End(y)

\* align_up never moves an offset down, so the padding it asks for is a size.
LEMMA AlignUp ==
  ASSUME NEW v \in Nat
  PROVE  /\ align_up(v) \in Nat
         /\ v <= align_up(v)
  <1>1. v % Alignment \in 0 .. Alignment - 1
    BY AlignmentAssumption
  <1>2. QED
    BY <1>1, AlignmentAssumption DEF align_up

\* Cutting n bytes out of r leaves the other ranges alone and, of r, at most two
\* pieces that lie on either side of the n bytes.
LEMMA CarvePieces ==
  ASSUME NEW R \in SUBSET StagingChunkRange, NEW r \in R, NEW n \in Nat \ {0},
         Fits(r, n), NEW x \in Carve(R, r, n)
  PROVE  /\ x \in StagingChunkRange
         /\ \/ x \in R \ {r}
            \/ x = [offset |-> r.offset, size |-> Padding(r)]
            \/ x = [offset |-> align_up(r.offset) + n,
                    size |-> r.size - Padding(r) - n]
         /\ x \notin R \ {r} => Inside(x, r)
  <1> DEFINE prefix == [offset |-> r.offset, size |-> Padding(r)]
             suffix == [offset |-> align_up(r.offset) + n,
                        size |-> r.size - Padding(r) - n]
  <1>1. /\ r \in StagingChunkRange /\ r.offset \in Nat /\ r.size \in Nat
        /\ align_up(r.offset) \in Nat /\ r.offset <= align_up(r.offset)
    BY AlignUp DEF StagingChunkRange
  <1>2. /\ Padding(r) \in Nat
        /\ Padding(r) = align_up(r.offset) - r.offset
        /\ r.size - Padding(r) - n \in Nat
    BY <1>1 DEF Padding, Fits
  <1>3. x \in R \ {r} \/ (x = prefix /\ x.size # 0) \/ (x = suffix /\ x.size # 0)
    BY DEF Carve
  <1>4. CASE x \in R \ {r}
    BY <1>4
  <1>5. CASE x = prefix /\ x.size # 0
    BY <1>1, <1>2, <1>5 DEF StagingChunkRange, Inside, End, Fits
  <1>6. CASE x = suffix /\ x.size # 0
    BY <1>1, <1>2, <1>6 DEF StagingChunkRange, Inside, End, Fits
  <1>7. QED
    BY <1>3, <1>4, <1>5, <1>6

\* The bytes cut out are inside r and in no range that is left.
LEMMA CarveTakes ==
  ASSUME NEW R \in SUBSET StagingChunkRange, NEW r \in R, NEW n \in Nat \ {0},
         Fits(r, n), Separate(R)
  PROVE  LET cut == [offset |-> align_up(r.offset), size |-> n]
         IN  /\ Inside(cut, r)
             /\ \A x \in Carve(R, r, n) : ~SameBytes(cut, x)
  <1> DEFINE cut == [offset |-> align_up(r.offset), size |-> n]
  <1>1. /\ r.offset \in Nat /\ r.size \in Nat
        /\ align_up(r.offset) \in Nat /\ r.offset <= align_up(r.offset)
    BY AlignUp DEF StagingChunkRange
  <1>2. Inside(cut, r)
    BY <1>1 DEF Inside, End, Fits, Padding
  <1>3. ASSUME NEW x \in Carve(R, r, n)
        PROVE  ~SameBytes(cut, x)
    <2>1. CASE x \in R \ {r}
      <3>1. x.offset \in Nat /\ x.size \in Nat
        BY <2>1 DEF StagingChunkRange
      <3>2. End(x) < r.offset \/ End(r) < x.offset
        BY <2>1 DEF Separate
      <3>3. QED
        BY <1>1, <1>2, <3>1, <3>2 DEF SameBytes, Inside, End
    <2>2. CASE x = [offset |-> r.offset, size |-> Padding(r)]
      BY <1>1, <2>2 DEF SameBytes, End, Padding
    <2>3. CASE x = [offset |-> align_up(r.offset) + n, size |-> r.size - Padding(r) - n]
      BY <1>1, <2>3 DEF SameBytes, End, Padding
    <2>4. QED
      BY <1>3, CarvePieces, <2>1, <2>2, <2>3
  <1>4. QED
    BY <1>2, <1>3

\* Splitting keeps ranges apart: the pieces of r have the n >= 1 bytes between them.
LEMMA CarveSeparate ==
  ASSUME NEW R \in SUBSET StagingChunkRange, NEW r \in R, NEW n \in Nat \ {0},
         Fits(r, n), Separate(R)
  PROVE  Separate(Carve(R, r, n))
  <1> DEFINE prefix == [offset |-> r.offset, size |-> Padding(r)]
             suffix == [offset |-> align_up(r.offset) + n,
                        size |-> r.size - Padding(r) - n]
  <1>1. SUFFICES ASSUME NEW p \in Carve(R, r, n), NEW q \in Carve(R, r, n), p # q
                 PROVE  End(p) < q.offset \/ End(q) < p.offset
    BY DEF Separate
  <1>2. /\ p \in StagingChunkRange /\ q \in StagingChunkRange
        /\ p \in R \ {r} \/ p = prefix \/ p = suffix
        /\ q \in R \ {r} \/ q = prefix \/ q = suffix
        /\ p \notin R \ {r} => Inside(p, r)
        /\ q \notin R \ {r} => Inside(q, r)
    BY CarvePieces
  <1>3. /\ r.offset \in Nat /\ r.size \in Nat
        /\ align_up(r.offset) \in Nat /\ r.offset <= align_up(r.offset)
        /\ p.offset \in Nat /\ p.size \in Nat /\ q.offset \in Nat /\ q.size \in Nat
    BY <1>2, AlignUp DEF StagingChunkRange
  <1>4. CASE p \in R \ {r} /\ q \in R \ {r}
    BY <1>1, <1>4 DEF Separate
  <1>5. CASE p \in R \ {r} /\ q \notin R \ {r}
    <2>1. End(p) < r.offset \/ End(r) < p.offset
      BY <1>5 DEF Separate
    <2>2. QED
      BY <1>2, <1>3, <1>5, <2>1 DEF Inside, End
  <1>6. CASE q \in R \ {r} /\ p \notin R \ {r}
    <2>1. End(q) < r.offset \/ End(r) < q.offset
      BY <1>6 DEF Separate
    <2>2. QED
      BY <1>2, <1>3, <1>6, <2>1 DEF Inside, End
  <1>7. CASE p \notin R \ {r} /\ q \notin R \ {r}
    <2>1. (p = prefix /\ q = suffix) \/ (p = suffix /\ q = prefix)
      BY <1>1, <1>2, <1>7
    <2>2. End(prefix) = align_up(r.offset) /\ suffix.offset = align_up(r.offset) + n
      BY <1>3 DEF End, Padding
    <2>3. QED
      BY <1>3, <2>1, <2>2
  <1>8. QED
    BY <1>4, <1>5, <1>6, <1>7

\* Each merged range is a run between the ends of two ranges of R.
LEMMA MergeRun ==
  ASSUME NEW R \in SUBSET StagingChunkRange, NEW m \in Merge(R)
  PROVE  /\ m \in StagingChunkRange
         /\ \E p, q \in R : IsRun(R, p, q) /\ m.offset = p.offset /\ End(m) = End(q)
  <1>1. PICK p \in R, q \in R :
          /\ IsRun(R, p, q)
          /\ m = [offset |-> p.offset, size |-> End(q) - p.offset]
    BY DEF Merge
  <1>2. p.offset \in Nat /\ p.size \in Nat /\ q.offset \in Nat /\ q.size \in Nat
    BY DEF StagingChunkRange
  <1>3. p.offset < End(q)
    BY <1>1 DEF IsRun
  <1>4. QED
    BY <1>1, <1>2, <1>3 DEF StagingChunkRange, End

\* Merging frees no byte that was not free: what is apart from every range of R
\* is apart from every merged one.
LEMMA MergeInvents ==
  ASSUME NEW R \in SUBSET StagingChunkRange, NEW m \in Merge(R),
         NEW a, a.offset \in Nat, a.size \in Nat \ {0},
         \A r \in R : ~SameBytes(a, r)
  PROVE  ~SameBytes(a, m)
  <1>1. PICK p \in R, q \in R :
          IsRun(R, p, q) /\ m.offset = p.offset /\ End(m) = End(q)
    BY MergeRun
  <1>2. /\ p.offset \in Nat /\ p.size \in Nat /\ q.offset \in Nat /\ q.size \in Nat
        /\ m.offset \in Nat /\ m.size \in Nat
    BY MergeRun DEF StagingChunkRange
  <1>3. SUFFICES ASSUME SameBytes(a, m)
                 PROVE  FALSE
    OBVIOUS
  <1> DEFINE x == IF a.offset < m.offset THEN m.offset ELSE a.offset
  <1>4. /\ x \in p.offset .. End(q) - 1
        /\ a.offset <= x /\ x < End(a)
    BY <1>1, <1>2, <1>3 DEF SameBytes, End
  <1>5. PICK r \in R : r.offset <= x /\ x < End(r)
    BY <1>1, <1>4 DEF IsRun, Covered
  <1>6. r.offset \in Nat /\ r.size \in Nat
    BY DEF StagingChunkRange
  <1>7. SameBytes(a, r)
    BY <1>2, <1>4, <1>5, <1>6 DEF SameBytes, End
  <1>8. QED
    BY <1>7

\* Merged ranges neither overlap nor touch.
LEMMA MergeSeparate ==
  ASSUME NEW R \in SUBSET StagingChunkRange
  PROVE  Separate(Merge(R))
  <1>1. ASSUME NEW m \in Merge(R), NEW w \in Merge(R), m.offset < w.offset
        PROVE  End(m) < w.offset
    <2>1. PICK p \in R, q \in R :
            IsRun(R, p, q) /\ m.offset = p.offset /\ End(m) = End(q)
      BY MergeRun
    <2>2. PICK s \in R, t \in R :
            IsRun(R, s, t) /\ w.offset = s.offset /\ End(w) = End(t)
      BY MergeRun
    <2>3. /\ p.offset \in Nat /\ p.size \in Nat /\ q.offset \in Nat /\ q.size \in Nat
          /\ s.offset \in Nat /\ s.size \in Nat \ {0}
          /\ m.offset \in Nat /\ w.offset \in Nat
      BY MergeRun DEF StagingChunkRange
    <2>4. SUFFICES ASSUME s.offset <= End(q)
                   PROVE  FALSE
      BY <2>1, <2>2, <2>3 DEF End
    <2>5. s.offset - 1 \in p.offset .. End(q) - 1
      BY <1>1, <2>1, <2>2, <2>3, <2>4 DEF End
    <2>6. PICK r \in R : r.offset <= s.offset - 1 /\ s.offset - 1 < End(r)
      BY <2>1, <2>5 DEF IsRun, Covered
    <2>7. r.offset \in Nat /\ r.size \in Nat
      BY DEF StagingChunkRange
    <2>8. r.offset < s.offset => End(r) < s.offset
      BY <2>2 DEF IsRun
    <2>9. QED
      BY <2>3, <2>6, <2>7, <2>8 DEF End
  <1>2. ASSUME NEW m \in Merge(R), NEW w \in Merge(R), m.offset = w.offset
        PROVE  End(w) <= End(m)
    <2>1. PICK p \in R, q \in R :
            IsRun(R, p, q) /\ m.offset = p.offset /\ End(m) = End(q)
      BY MergeRun
    <2>2. PICK s \in R, t \in R :
            IsRun(R, s, t) /\ w.offset = s.offset /\ End(w) = End(t)
      BY MergeRun
    <2>3. /\ p.offset \in Nat /\ p.size \in Nat /\ q.offset \in Nat /\ q.size \in Nat
          /\ s.offset \in Nat /\ s.size \in Nat /\ t.offset \in Nat /\ t.size \in Nat
      BY DEF StagingChunkRange
    <2>4. SUFFICES ASSUME End(q) < End(t)
                   PROVE  FALSE
      BY <2>1, <2>2, <2>3 DEF End
    <2>5. p.offset < End(q)
      BY <2>1 DEF IsRun
    <2>6. End(q) \in s.offset .. End(t) - 1
      <3>1. s.offset < End(q)
        BY <1>2, <2>1, <2>2, <2>5
      <3>2. End(q) \in Nat /\ End(t) \in Nat
        BY <2>3 DEF End
      <3>3. QED
        BY <2>3, <2>4, <3>1, <3>2
    <2>7. PICK r \in R : r.offset <= End(q) /\ End(q) < End(r)
      BY <2>2, <2>6 DEF IsRun, Covered
    <2>8. r.offset \in Nat /\ r.size \in Nat
      BY DEF StagingChunkRange
    <2>9. End(q) < End(r) => End(q) < r.offset
      BY <2>1 DEF IsRun
    <2>10. QED
      BY <2>3, <2>7, <2>8, <2>9 DEF End
  <1>3. SUFFICES ASSUME NEW m \in Merge(R), NEW w \in Merge(R), m # w
                 PROVE  End(m) < w.offset \/ End(w) < m.offset
    BY DEF Separate
  <1>4. m \in StagingChunkRange /\ w \in StagingChunkRange
    BY MergeRun
  <1>5. m.offset # w.offset
    <2>1. SUFFICES ASSUME m.offset = w.offset
                   PROVE  m = w
      BY <1>3
    <2>2. End(m) = End(w)
      BY <1>2, <1>4, <2>1 DEF StagingChunkRange, End
    <2>3. m.size = w.size
      BY <1>4, <2>1, <2>2 DEF StagingChunkRange, End
    <2>4. QED
      BY <1>4, <2>1, <2>3 DEF StagingChunkRange
  <1>6. m.offset < w.offset \/ w.offset < m.offset
    BY <1>4, <1>5 DEF StagingChunkRange
  <1>7. QED
    BY <1>1, <1>6

-----------------------------------------------------------------------------
(* No byte is lost.                                                        *)

\* A set of naturals has a least one: what stands for induction here.
LEMMA LeastNumber ==
  ASSUME NEW T \in SUBSET Nat, T # {}
  PROVE  \E m \in T : \A k \in T : m <= k
  <1> DEFINE R == {ss \in Nat \X Nat : ss[1] < ss[2]}
  <1>1. IsWellFoundedOn(R, Nat)
    BY NatLessThanWellFounded DEF OpToRel
  <1>2. \A k, m \in Nat : <<k, m>> \notin R => m <= k
    OBVIOUS
  <1> HIDE DEF R
  <1>3. PICK m \in T : \A k \in T : <<k, m>> \notin R
    BY <1>1, WFMin
  <1>4. QED
    BY <1>2, <1>3

\* A bounded set of ranges that covers x covers a longest run of bytes around x.
LEMMA LongestRun ==
  ASSUME NEW R \in SUBSET StagingChunkRange, NEW N \in Nat, \A r \in R : End(r) <= N,
         NEW x \in Nat, Covered(R, x)
  PROVE  \E lo, hi \in Nat :
           /\ lo <= x /\ x < hi
           /\ \A y \in lo .. hi - 1 : Covered(R, y)
           /\ ~Covered(R, hi)
           /\ \A r \in R : r.offset < lo => End(r) < lo
  <1> DEFINE Lows == {l \in Nat : l <= x /\ \A y \in l .. x : Covered(R, y)}
             Highs == {h \in Nat : x < h /\ ~Covered(R, h)}
  <1>1. \A r \in R : r.offset \in Nat /\ r.size \in Nat \ {0} /\ End(r) \in Nat
    BY DEF StagingChunkRange, End
  <1>2. PICK lo \in Lows : \A l \in Lows : lo <= l
    <2>1. x \in Lows
      OBVIOUS
    <2> HIDE DEF Lows
    <2>2. Lows \in SUBSET Nat
      BY DEF Lows
    <2>3. QED
      BY <2>1, <2>2, LeastNumber
  <1>3. PICK hi \in Highs : \A h \in Highs : hi <= h
    <2>1. N \in Highs
      BY <1>1 DEF Covered
    <2> HIDE DEF Highs
    <2>2. Highs \in SUBSET Nat
      BY DEF Highs
    <2>3. QED
      BY <2>1, <2>2, LeastNumber
  <1>4. \A y \in lo .. hi - 1 : Covered(R, y)
    <2> TAKE y \in lo .. hi - 1
    <2>1. CASE y <= x
      BY <2>1
    <2>2. CASE x < y
      <3>1. y \notin Highs
        BY <1>3
      <3>2. QED
        BY <2>2, <3>1
    <2>3. QED
      BY <2>1, <2>2
  <1>5. ASSUME NEW r \in R, r.offset < lo PROVE End(r) < lo
    <2>1. SUFFICES ASSUME lo <= End(r) PROVE r.offset \in Lows
      BY <1>1, <1>2, <1>5
    <2>2. \A y \in r.offset .. x : Covered(R, y)
      BY <1>1, <1>2, <2>1 DEF Covered
    <2>3. QED
      BY <1>1, <1>2, <1>5, <2>2
  <1>6. QED
    BY <1>2, <1>3, <1>4, <1>5

\* Merging loses no byte, and finds none.
LEMMA MergeCovers ==
  ASSUME NEW R \in SUBSET StagingChunkRange, NEW N \in Nat, \A r \in R : End(r) <= N,
         NEW x \in Nat
  PROVE  Covered(Merge(R), x) <=> Covered(R, x)
  <1>1. \A r \in R : r.offset \in Nat /\ r.size \in Nat \ {0} /\ End(r) \in Nat
    BY DEF StagingChunkRange, End
  <1>2. ASSUME Covered(Merge(R), x) PROVE Covered(R, x)
    <2>1. PICK m \in Merge(R) : m.offset <= x /\ x < End(m)
      BY <1>2 DEF Covered
    <2>2. PICK p \in R, q \in R : IsRun(R, p, q) /\ m.offset = p.offset /\ End(m) = End(q)
      BY MergeRun
    <2>3. x \in p.offset .. End(q) - 1
      BY <1>1, <2>1, <2>2
    <2>4. QED
      BY <2>2, <2>3 DEF IsRun
  <1>3. ASSUME Covered(R, x) PROVE Covered(Merge(R), x)
    <2>1. PICK lo \in Nat, hi \in Nat :
            /\ lo <= x /\ x < hi
            /\ \A y \in lo .. hi - 1 : Covered(R, y)
            /\ ~Covered(R, hi)
            /\ \A r \in R : r.offset < lo => End(r) < lo
      BY <1>3, LongestRun
    <2>2. PICK p \in R : p.offset = lo
      <3>1. Covered(R, lo)
        BY <2>1
      <3>2. QED
        BY <1>1, <2>1, <3>1 DEF Covered
    <2>3. PICK q \in R : End(q) = hi
      <3>1. PICK q \in R : q.offset <= hi - 1 /\ hi - 1 < End(q)
        BY <2>1 DEF Covered
      <3>2. ~(hi < End(q))
        BY <1>1, <2>1, <3>1 DEF Covered
      <3>3. QED
        BY <1>1, <3>1, <3>2
    <2>4. IsRun(R, p, q)
      <3>1. \A r \in R : hi < End(r) => hi < r.offset
        BY <1>1, <2>1 DEF Covered
      <3>2. QED
        BY <2>1, <2>2, <2>3, <3>1 DEF IsRun
    <2> DEFINE m == [offset |-> p.offset, size |-> End(q) - p.offset]
    <2>5. m \in Merge(R)
      <3>1. <<p, q>> \in {pq \in R \X R : IsRun(R, pq[1], pq[2])}
        BY <2>4
      <3>2. QED
        BY <3>1 DEF Merge
    <2>6. m.offset <= x /\ x < End(m)
      BY <1>1, <2>1, <2>2, <2>3 DEF End
    <2> HIDE DEF m
    <2>7. QED
      BY <2>5, <2>6 DEF Covered
  <1>4. QED
    BY <1>2, <1>3

\* Cutting n bytes out of r takes these bytes, and no others.
LEMMA CarveCovers ==
  ASSUME NEW R \in SUBSET StagingChunkRange, NEW r \in R, NEW n \in Nat \ {0},
         Fits(r, n), NEW x \in Nat, Covered(R, x)
  PROVE  \/ Covered(Carve(R, r, n), x)
         \/ align_up(r.offset) <= x /\ x < align_up(r.offset) + n
  <1> DEFINE prefix == [offset |-> r.offset, size |-> Padding(r)]
             suffix == [offset |-> align_up(r.offset) + n,
                        size |-> r.size - Padding(r) - n]
  <1>1. /\ r.offset \in Nat /\ r.size \in Nat
        /\ align_up(r.offset) \in Nat /\ r.offset <= align_up(r.offset)
    BY AlignUp DEF StagingChunkRange
  <1>2. PICK q \in R : q.offset <= x /\ x < End(q)
    BY DEF Covered
  <1>3. CASE q # r
    BY <1>2, <1>3 DEF Carve, Covered
  <1>4. CASE q = r /\ x < align_up(r.offset)
    <2>1. prefix.size # 0 /\ prefix.offset <= x /\ x < End(prefix)
      BY <1>1, <1>2, <1>4 DEF Padding, End
    <2>2. prefix \in Carve(R, r, n)
      BY <2>1 DEF Carve
    <2>3. QED
      BY <2>1, <2>2 DEF Covered
  <1>5. CASE q = r /\ align_up(r.offset) + n <= x
    <2>1. suffix.size # 0 /\ suffix.offset <= x /\ x < End(suffix)
      BY <1>1, <1>2, <1>5 DEF Padding, End, Fits
    <2>2. suffix \in Carve(R, r, n)
      BY <2>1 DEF Carve
    <2>3. QED
      BY <2>1, <2>2 DEF Covered
  <1>6. QED
    BY <1>1, <1>3, <1>4, <1>5

\* The remainder of a multiple of the alignment.
LEMMA MultipleAligned ==
  ASSUME NEW k \in Nat
  PROVE  (Alignment * k) % Alignment = 0
  <1> DEFINE q == (Alignment * k) \div Alignment
             r == (Alignment * k) % Alignment
  <1>1. Alignment * k \in Nat
    BY AlignmentAssumption
  <1>2. Alignment * k = Alignment * q + r /\ q \in Nat /\ r \in 0 .. Alignment - 1
    BY <1>1, AlignmentAssumption
  <1> HIDE DEF q, r
  <1>3. Alignment * (k - q) = r
    BY <1>2, AlignmentAssumption
  <1>4. ~(k - q >= 1)
    <2>1. k - q >= 1 => Alignment * (k - q) >= Alignment * 1
      BY <1>2, AlignmentAssumption
    <2>2. QED
      BY <1>2, <1>3, <2>1, AlignmentAssumption
  <1>5. ~(k - q <= -1)
    <2>1. k - q <= -1 => Alignment * (k - q) <= Alignment * (-1)
      BY <1>2, AlignmentAssumption
    <2>2. QED
      BY <1>2, <1>3, <2>1, AlignmentAssumption
  <1>6. k - q = 0
    BY <1>2, <1>4, <1>5
  <1>7. QED
    BY <1>3, <1>6, AlignmentAssumption DEF r

\* align_up returns a multiple of the alignment.
LEMMA AlignedUp ==
  ASSUME NEW v \in Nat
  PROVE  align_up(v) % Alignment = 0
  <1>1. v = Alignment * (v \div Alignment) + (v % Alignment) /\ v \div Alignment \in Nat
    BY AlignmentAssumption
  <1>2. v + Alignment - (v % Alignment) = Alignment * ((v \div Alignment) + 1)
    BY <1>1, AlignmentAssumption
  <1>3. QED
    BY <1>1, <1>2, MultipleAligned DEF align_up
-----------------------------------------------------------------------------
(* The vector of free ranges, as a sequence.                               *)

List == Seq(StagingChunkRange)

\* Sorted, and no two ranges touch.
Apart(s) == \A i, j \in DOMAIN s : i < j => End(s[i]) < s[j].offset

Increasing(s) == \A i, j \in DOMAIN s : i < j => s[i].offset < s[j].offset

\* A range is never empty.
LEMMA RangeFacts ==
  ASSUME NEW r \in StagingChunkRange
  PROVE  r.offset \in Nat /\ r.size \in Nat \ {0} /\ End(r) \in Nat /\ r.offset < End(r)
  BY DEF StagingChunkRange, End

LEMMA ListFacts ==
  ASSUME NEW s \in List
  PROVE  /\ Len(s) \in Nat /\ DOMAIN s = 1 .. Len(s)
         /\ \A i \in 1 .. Len(s) : s[i] \in StagingChunkRange
         /\ ToSet(s) \in SUBSET StagingChunkRange
         /\ ToSet(s) = {s[i] : i \in 1 .. Len(s)}
  BY DEF List, ToSet

\* A function on 1 .. n is a sequence.
LEMMA IsList ==
  ASSUME NEW n \in Nat, NEW s \in [1 .. n -> StagingChunkRange]
  PROVE  s \in List /\ Len(s) = n /\ ToSet(s) = {s[i] : i \in 1 .. n}
  <1>1. s \in Seq(StagingChunkRange)
    OBVIOUS
  <1>2. Len(s) = n
    BY <1>1
  <1>3. QED
    BY <1>1, <1>2 DEF List, ToSet

LEMMA ConcatList ==
  ASSUME NEW s \in List, NEW w \in List
  PROVE  /\ s \o w \in List /\ ToSet(s \o w) = ToSet(s) \union ToSet(w)
         /\ Apart(s) /\ Apart(w) /\ (\A p \in ToSet(s), q \in ToSet(w) : End(p) < q.offset)
              => Apart(s \o w)
  <1> DEFINE c == s \o w
             m == Len(s)
             n == Len(w)
  <1>1. /\ m \in Nat /\ n \in Nat /\ DOMAIN s = 1 .. m /\ DOMAIN w = 1 .. n
        /\ ToSet(s) = {s[i] : i \in 1 .. m} /\ ToSet(w) = {w[i] : i \in 1 .. n}
    BY ListFacts
  <1>2. /\ c \in List /\ Len(c) = m + n
        /\ \A i \in 1 .. m + n : c[i] = IF i <= m THEN s[i] ELSE w[i - m]
    BY DEF List
  <1>3. DOMAIN c = 1 .. m + n /\ ToSet(c) = {c[i] : i \in 1 .. m + n}
    BY <1>2, ListFacts
  <1> HIDE DEF c, m, n
  <1>4. ToSet(c) \subseteq ToSet(s) \union ToSet(w)
    <2>1. \A i \in 1 .. m + n : i \in 1 .. m \/ (i - m \in 1 .. n /\ ~(i <= m))
      BY <1>1
    <2>2. QED
      BY <1>1, <1>2, <1>3, <2>1
  <1>5. ToSet(s) \subseteq ToSet(c)
    <2>1. \A i \in 1 .. m : i \in 1 .. m + n /\ c[i] = s[i]
      BY <1>1, <1>2
    <2>2. QED
      BY <1>1, <1>3, <2>1
  <1>6. ToSet(w) \subseteq ToSet(c)
    <2>1. \A i \in 1 .. n : m + i \in 1 .. m + n /\ c[m + i] = w[i]
      BY <1>1, <1>2
    <2>2. QED
      BY <1>1, <1>3, <2>1
  <1>7. ASSUME Apart(s), Apart(w), \A p \in ToSet(s), q \in ToSet(w) : End(p) < q.offset
        PROVE  Apart(c)
    <2>1. SUFFICES ASSUME NEW i \in 1 .. m + n, NEW j \in 1 .. m + n, i < j
                   PROVE  End(c[i]) < c[j].offset
      BY <1>3 DEF Apart
    <2>2. CASE j <= m
      <3>1. i \in 1 .. m /\ j \in 1 .. m /\ c[i] = s[i] /\ c[j] = s[j]
        BY <1>1, <1>2, <2>1, <2>2
      <3>2. QED
        BY <1>1, <1>7, <2>1, <3>1 DEF Apart
    <2>3. CASE i <= m /\ ~(j <= m)
      <3>1. i \in 1 .. m /\ j - m \in 1 .. n /\ c[i] = s[i] /\ c[j] = w[j - m]
        BY <1>1, <1>2, <2>1, <2>3
      <3>2. s[i] \in ToSet(s) /\ w[j - m] \in ToSet(w)
        BY <1>1, <3>1
      <3>3. QED
        BY <1>7, <3>1, <3>2
    <2>4. CASE ~(i <= m)
      <3>1. i - m \in 1 .. n /\ j - m \in 1 .. n /\ i - m < j - m
            /\ c[i] = w[i - m] /\ c[j] = w[j - m]
        BY <1>1, <1>2, <2>1, <2>4
      <3>2. QED
        BY <1>1, <1>7, <3>1 DEF Apart
    <2>5. QED
      BY <1>1, <2>2, <2>3, <2>4
  <1>8. QED
    BY <1>2, <1>4, <1>5, <1>6, <1>7 DEF c

LEMMA SingleList ==
  ASSUME NEW r \in StagingChunkRange
  PROVE  <<r>> \in List /\ Len(<<r>>) = 1 /\ ToSet(<<r>>) = {r} /\ Apart(<<r>>) /\ Increasing(<<r>>)
  <1>1. <<r>> \in List /\ Len(<<r>>) = 1 /\ <<r>>[1] = r
    BY DEF List
  <1>2. DOMAIN <<r>> = {1}
    BY <1>1 DEF List
  <1>3. ToSet(<<r>>) = {r}
    BY <1>1, <1>2 DEF ToSet
  <1>4. QED
    BY <1>1, <1>2, <1>3 DEF Apart, Increasing

LEMMA EmptyList == <<>> \in List /\ ToSet(<<>>) = {} /\ Apart(<<>>)
  BY DEF List, ToSet, Apart

LEMMA AppendList ==
  ASSUME NEW s \in List, NEW r \in StagingChunkRange
  PROVE  /\ Append(s, r) \in List /\ Append(s, r) # <<>> /\ Len(Append(s, r)) = Len(s) + 1
         /\ ToSet(Append(s, r)) = ToSet(s) \union {r} /\ Last(Append(s, r)) = r
         /\ Apart(s) /\ (\A p \in ToSet(s) : End(p) < r.offset) => Apart(Append(s, r))
  <1>1. Append(s, r) = s \o <<r>>
    BY DEF List
  <1>2. /\ Append(s, r) \in List /\ Append(s, r) # <<>> /\ Len(Append(s, r)) = Len(s) + 1
        /\ Append(s, r)[Len(s) + 1] = r
    BY DEF List
  <1>3. QED
    BY <1>1, <1>2, SingleList, ConcatList DEF Last

\* A part of a list.
LEMMA PartList ==
  ASSUME NEW s \in List, NEW a \in 1 .. Len(s) + 1, NEW b \in 0 .. Len(s), a <= b + 1
  PROVE  LET part == SubSeq(s, a, b)
         IN  /\ part \in List /\ ToSet(part) = {s[i] : i \in a .. b}
             /\ Apart(s) => Apart(part)
  <1> DEFINE part == SubSeq(s, a, b)
             n == b - a + 1
  <1>1. Len(s) \in Nat /\ DOMAIN s = 1 .. Len(s) /\ a \in Nat /\ b \in Nat /\ n \in Nat
    BY ListFacts
  <1>2. /\ part \in List /\ Len(part) = n
        /\ \A i \in 1 .. n : part[i] = s[a + i - 1]
    BY <1>1 DEF List
  <1>3. DOMAIN part = 1 .. n /\ ToSet(part) = {part[i] : i \in 1 .. n}
    BY <1>2, ListFacts
  <1> HIDE DEF part
  <1>4. ToSet(part) = {s[i] : i \in a .. b}
    <2>1. \A i \in 1 .. n : a + i - 1 \in a .. b
      BY <1>1
    <2>2. \A i \in a .. b : i - a + 1 \in 1 .. n /\ a + (i - a + 1) - 1 = i
      BY <1>1
    <2>3. ToSet(part) \subseteq {s[i] : i \in a .. b}
      BY <1>2, <1>3, <2>1
    <2>4. {s[i] : i \in a .. b} \subseteq ToSet(part)
      <3>1. \A i \in a .. b : part[i - a + 1] = s[i]
        BY <1>2, <2>2
      <3>2. QED
        BY <1>3, <2>2, <3>1
    <2>5. QED
      BY <2>3, <2>4
  <1>5. ASSUME Apart(s) PROVE Apart(part)
    <2>1. SUFFICES ASSUME NEW i \in 1 .. n, NEW j \in 1 .. n, i < j
                   PROVE  End(part[i]) < part[j].offset
      BY <1>3 DEF Apart
    <2>2. a + i - 1 \in DOMAIN s /\ a + j - 1 \in DOMAIN s /\ a + i - 1 < a + j - 1
      BY <1>1, <2>1
    <2>3. QED
      BY <1>2, <1>5, <2>1, <2>2 DEF Apart
  <1>6. QED
    BY <1>2, <1>4, <1>5 DEF part

\* What is sorted and apart as a list is separate as a set.
LEMMA ApartSeparate ==
  ASSUME NEW s \in List, Apart(s)
  PROVE  Separate(ToSet(s))
  <1>1. SUFFICES ASSUME NEW p \in ToSet(s), NEW q \in ToSet(s), p # q
                 PROVE  End(p) < q.offset \/ End(q) < p.offset
    BY DEF Separate
  <1>2. PICK i \in 1 .. Len(s) : s[i] = p
    BY ListFacts
  <1>3. PICK j \in 1 .. Len(s) : s[j] = q
    BY ListFacts
  <1>4. i < j \/ j < i
    BY <1>1, <1>2, <1>3, ListFacts
  <1>5. QED
    BY <1>2, <1>3, <1>4, ListFacts DEF Apart

-----------------------------------------------------------------------------
(* Separate ranges are determined by the bytes they cover.                 *)

SameCover(P, Q) == \A x \in Nat : Covered(P, x) <=> Covered(Q, x)

LEMMA CoverDetermines ==
  ASSUME NEW P \in SUBSET StagingChunkRange, NEW Q \in SUBSET StagingChunkRange,
         Separate(P), Separate(Q), SameCover(P, Q)
  PROVE  P \subseteq Q
  <1>1. SUFFICES ASSUME NEW r \in P PROVE r \in Q
    OBVIOUS
  <1>2. \A p \in P \union Q :
          p.offset \in Nat /\ p.size \in Nat \ {0} /\ End(p) \in Nat /\ p.offset < End(p)
    BY RangeFacts
  <1>3. PICK q \in Q : q.offset <= r.offset /\ r.offset < End(q)
    <2>1. Covered(P, r.offset) /\ r.offset \in Nat
      BY <1>2 DEF Covered
    <2>2. QED
      BY <2>1 DEF SameCover, Covered
  <1>4. q.offset = r.offset
    <2>1. SUFFICES ASSUME q.offset <= r.offset - 1 PROVE FALSE
      BY <1>2, <1>3
    <2>2. r.offset - 1 \in Nat /\ Covered(Q, r.offset - 1)
      BY <1>2, <1>3, <2>1 DEF Covered
    <2>3. PICK p \in P : p.offset <= r.offset - 1 /\ r.offset - 1 < End(p)
      BY <2>2 DEF SameCover, Covered
    <2>4. p # r
      BY <1>2, <2>3
    <2>5. End(p) < r.offset \/ End(r) < p.offset
      BY <2>4 DEF Separate
    <2>6. QED
      BY <1>2, <2>3, <2>5
  <1>5. ~(End(r) < End(q))
    <2>1. SUFFICES ASSUME End(r) < End(q) PROVE FALSE
      OBVIOUS
    <2>2. Covered(Q, End(r)) /\ End(r) \in Nat
      BY <1>2, <1>4, <2>1 DEF Covered
    <2>3. PICK p \in P : p.offset <= End(r) /\ End(r) < End(p)
      BY <2>2 DEF SameCover, Covered
    <2>4. p # r
      BY <1>2, <2>3
    <2>5. End(p) < r.offset \/ End(r) < p.offset
      BY <2>4 DEF Separate
    <2>6. QED
      BY <1>2, <2>3, <2>5
  <1>6. ~(End(q) < End(r))
    <2>1. SUFFICES ASSUME End(q) < End(r) PROVE FALSE
      OBVIOUS
    <2>2. Covered(P, End(q)) /\ End(q) \in Nat
      BY <1>2, <1>3, <2>1 DEF Covered
    <2>3. PICK p \in Q : p.offset <= End(q) /\ End(q) < End(p)
      BY <2>2 DEF SameCover, Covered
    <2>4. p # q
      BY <1>2, <2>3
    <2>5. End(p) < q.offset \/ End(q) < p.offset
      BY <2>4 DEF Separate
    <2>6. QED
      BY <1>2, <2>3, <2>5
  <1>7. End(q) = End(r)
    BY <1>2, <1>5, <1>6
  <1>8. q = r
    BY <1>2, <1>4, <1>7 DEF StagingChunkRange, End
  <1>9. QED
    BY <1>8

\* A list that is sorted and apart and covers what R covers is R, merged.
LEMMA ListIsMerge ==
  ASSUME NEW s \in List, Apart(s), NEW R \in SUBSET StagingChunkRange,
         NEW N \in Nat, \A r \in R : End(r) <= N, SameCover(ToSet(s), R)
  PROVE  ToSet(s) = Merge(R)
  <1>1. Merge(R) \in SUBSET StagingChunkRange /\ Separate(Merge(R))
    BY MergeRun, MergeSeparate
  <1>2. ToSet(s) \in SUBSET StagingChunkRange /\ Separate(ToSet(s))
    BY ListFacts, ApartSeparate
  <1>3. SameCover(ToSet(s), Merge(R)) /\ SameCover(Merge(R), ToSet(s))
    BY MergeCovers DEF SameCover
  <1>4. QED
    BY <1>1, <1>2, <1>3, CoverDetermines

-----------------------------------------------------------------------------
(* Sorting and sweeping.                                                   *)

\* A list in order and one more range are sorted by putting the range in its place.
LEMMA SortedSays ==
  ASSUME NEW s \in List, Apart(s), NEW r \in StagingChunkRange,
         \A q \in ToSet(s) : q.offset # r.offset
  PROVE  LET w == Sorted(Append(s, r))
         IN  /\ w \in List /\ Increasing(w) /\ Len(w) = Len(s) + 1
             /\ ToSet(w) = ToSet(s) \union {r}
  <1> DEFINE n == Len(s)
             whole == Append(s, r)
             Later == {j \in 1 .. n + 1 : j = n + 1 \/ r.offset < s[j].offset}
             InOrder(w) == ToSet(w) = ToSet(whole) /\ Increasing(w)
  <1>1. /\ n \in Nat /\ ToSet(s) = {s[i] : i \in 1 .. n}
        /\ \A i \in 1 .. n : s[i] \in StagingChunkRange /\ s[i].offset \in Nat /\ r.offset \in Nat
        /\ \A i \in 1 .. n : s[i].offset # r.offset
    BY ListFacts, RangeFacts
  <1>2. whole \in List /\ Len(whole) = n + 1 /\ ToSet(whole) = ToSet(s) \union {r}
    BY AppendList
  <1>3. DOMAIN whole = 1 .. n + 1
    BY <1>2, ListFacts
  <1>4. \A i, j \in 1 .. n : i < j => s[i].offset < s[j].offset
    BY RangeFacts, ListFacts DEF Apart
  <1> HIDE DEF whole, n
  <1>5. PICK k \in Later : \A j \in Later : k <= j
    <2>1. n + 1 \in Later /\ Later \in SUBSET Nat
      BY <1>1
    <2> HIDE DEF Later
    <2>2. QED
      BY <2>1, LeastNumber
  <1>6. /\ \A i \in 1 .. n : i < k => s[i].offset < r.offset
        /\ \A i \in 1 .. n : k <= i => r.offset < s[i].offset
    <2>1. \A i \in 1 .. n : i < k => i \notin Later
      BY <1>1, <1>5
    <2>2. ASSUME NEW i \in 1 .. n, k <= i PROVE r.offset < s[i].offset
      <3>1. k \in 1 .. n /\ r.offset < s[k].offset
        BY <1>1, <1>5, <2>2
      <3>2. k = i \/ s[k].offset < s[i].offset
        BY <1>1, <1>4, <2>2, <3>1
      <3>3. QED
        BY <1>1, <2>2, <3>1, <3>2
    <2>3. QED
      BY <1>1, <2>1, <2>2
  <1>7. k \in 1 .. n + 1
    BY <1>5
  <1> HIDE DEF Later
  <1> DEFINE w == [i \in 1 .. n + 1 |-> IF i < k THEN s[i] ELSE IF i = k THEN r ELSE s[i - 1]]
  <1>8. /\ \A i \in 1 .. n + 1 : i < k => i \in 1 .. n
        /\ \A i \in 1 .. n + 1 : k < i => i - 1 \in 1 .. n
    BY <1>1, <1>7
  <1>9. w \in [DOMAIN whole -> ToSet(whole)]
    <2>1. ASSUME NEW i \in 1 .. n + 1 PROVE w[i] \in ToSet(whole)
      <3>1. CASE i < k
        BY <1>1, <1>2, <1>8, <3>1
      <3>2. CASE i = k
        BY <1>2, <3>2
      <3>3. CASE k < i
        BY <1>1, <1>2, <1>7, <1>8, <3>3
      <3>4. QED
        BY <1>1, <1>7, <3>1, <3>2, <3>3
    <2>2. w = [i \in 1 .. n + 1 |-> w[i]]
      OBVIOUS
    <2> HIDE DEF w
    <2>3. QED
      BY <1>3, <2>1, <2>2
  <1>10. DOMAIN w = 1 .. n + 1
    OBVIOUS
  <1>11. ToSet(whole) \subseteq ToSet(w)
    <2>1. ASSUME NEW i \in 1 .. n PROVE \E j \in 1 .. n + 1 : w[j] = s[i]
      <3>1. CASE i < k
        <4>1. i \in 1 .. n + 1 /\ w[i] = s[i]
          BY <1>1, <3>1
        <4>2. QED
          BY <4>1
      <3>2. CASE ~(i < k)
        <4>1. i + 1 \in 1 .. n + 1 /\ ~(i + 1 < k) /\ i + 1 # k /\ (i + 1) - 1 = i
          BY <1>1, <1>7, <3>2
        <4>2. w[i + 1] = s[i]
          BY <4>1
        <4>3. QED
          BY <4>1, <4>2
      <3>3. QED
        BY <3>1, <3>2
    <2>2. w[k] = r
      BY <1>7
    <2> HIDE DEF w
    <2>3. ToSet(w) = {w[i] : i \in 1 .. n + 1}
      BY <1>10 DEF ToSet
    <2>4. r \in ToSet(w)
      BY <1>7, <2>2, <2>3
    <2>5. \A i \in 1 .. n : s[i] \in ToSet(w)
      BY <2>1, <2>3
    <2>6. QED
      BY <1>1, <1>2, <2>4, <2>5
  <1>12. ToSet(w) \subseteq ToSet(whole)
    <2> HIDE DEF w
    <2>1. QED
      BY <1>3, <1>9 DEF ToSet
  <1>13. Increasing(w)
    <2>1. SUFFICES ASSUME NEW i \in 1 .. n + 1, NEW j \in 1 .. n + 1, i < j
                   PROVE  w[i].offset < w[j].offset
      BY DEF Increasing
    <2>2. CASE j < k
      BY <1>1, <1>4, <1>7, <1>8, <2>1, <2>2
    <2>3. CASE j = k
      BY <1>1, <1>6, <1>7, <1>8, <2>1, <2>3
    <2>4. CASE k < j
      <3>1. w[j] = s[j - 1] /\ j - 1 \in 1 .. n /\ k <= j - 1
        BY <1>1, <1>7, <1>8, <2>1, <2>4
      <3>2. CASE i < k
        <4>1. w[i] = s[i] /\ i \in 1 .. n /\ i < j - 1
          BY <1>1, <1>7, <1>8, <2>1, <3>1, <3>2
        <4>2. QED
          BY <1>4, <3>1, <4>1
      <3>3. CASE i = k
        BY <1>6, <3>1, <3>3
      <3>4. CASE k < i
        <4>1. w[i] = s[i - 1] /\ i - 1 \in 1 .. n /\ i - 1 < j - 1
          BY <1>1, <1>7, <1>8, <2>1, <3>1, <3>4
        <4>2. QED
          BY <1>4, <3>1, <4>1
      <3>5. QED
        BY <1>1, <1>7, <2>1, <3>2, <3>3, <3>4
    <2>5. QED
      BY <1>1, <1>7, <2>1, <2>2, <2>3, <2>4
  <1>14. InOrder(w)
    BY <1>11, <1>12, <1>13
  <1> HIDE DEF w
  <1> DEFINE best == Sorted(whole)
  <1>15. best \in [DOMAIN whole -> ToSet(whole)] /\ InOrder(best)
    <2>1. best = CHOOSE f \in [DOMAIN whole -> ToSet(whole)] : InOrder(f)
      BY DEF Sorted, Increasing
    <2> HIDE DEF InOrder, best
    <2>2. QED
      BY <1>9, <1>14, <2>1
  <1>16. best \in [1 .. n + 1 -> StagingChunkRange] /\ n + 1 \in Nat
    BY <1>1, <1>2, <1>3, <1>15, ListFacts
  <1> HIDE DEF best
  <1>17. best \in List /\ Len(best) = n + 1
    BY <1>16, IsList
  <1>18. QED
    BY <1>2, <1>15, <1>17 DEF best, whole, n

\* One round of the merging loop keeps the ranges apart and covers the next range too.
LEMMA SweepStepSays ==
  ASSUME NEW done \in List, Apart(done), NEW next \in StagingChunkRange,
         \A p \in ToSet(done) : p.offset < next.offset
  PROVE  LET d == SweepStep(done, next)
         IN  /\ d \in List /\ Apart(d)
             /\ \A p \in ToSet(d) : p.offset <= next.offset
             /\ \A x \in Nat : Covered(ToSet(d), x) <=> Covered(ToSet(done) \union {next}, x)
  <1> DEFINE n == Len(done)
             last == Last(done)
             front == Front(done)
             end == Max({End(last), End(next)})
             joined == AsRange(last.offset, end - last.offset)
  <1>1. next.offset \in Nat /\ End(next) \in Nat /\ next.offset < End(next)
    BY RangeFacts
  <1>2. CASE done = <<>>
    <2>1. SweepStep(done, next) = Append(done, next) /\ ToSet(done) = {}
      BY <1>2, EmptyList DEF SweepStep
    <2>2. /\ Append(done, next) \in List /\ Apart(Append(done, next))
          /\ ToSet(Append(done, next)) = ToSet(done) \union {next}
      BY <2>1, AppendList
    <2>3. \A p \in ToSet(Append(done, next)) : p.offset <= next.offset
      BY <1>1, <2>1, <2>2
    <2>4. QED
      BY <2>1, <2>2, <2>3
  <1>3. ASSUME done # <<>>
        PROVE  /\ n \in Nat \ {0} /\ last = done[n] /\ last \in ToSet(done)
               /\ last \in StagingChunkRange
               /\ last.offset \in Nat /\ End(last) \in Nat /\ last.offset < End(last)
               /\ last.offset < next.offset
               /\ front \in List /\ Apart(front) /\ ToSet(done) = ToSet(front) \union {last}
               /\ \A p \in ToSet(front) : End(p) < last.offset
    <2>1. n \in Nat \ {0} /\ DOMAIN done = 1 .. n /\ ToSet(done) = {done[i] : i \in 1 .. n}
      BY <1>3, ListFacts DEF List
    <2>2. last = done[n] /\ last \in ToSet(done) /\ last \in StagingChunkRange
      BY <2>1, ListFacts DEF Last
    <2>3. front = SubSeq(done, 1, n - 1)
      BY DEF Front
    <2>4. 1 \in 1 .. n + 1 /\ n - 1 \in 0 .. n /\ 1 <= (n - 1) + 1
      BY <2>1
    <2> HIDE DEF n, last, front
    <2>5. front \in List /\ Apart(front) /\ ToSet(front) = {done[i] : i \in 1 .. n - 1}
      BY <2>3, <2>4, PartList DEF n
    <2>6. \A i \in 1 .. n : i = n \/ i \in 1 .. n - 1
      BY <2>1
    <2>7. ToSet(done) = ToSet(front) \union {last}
      BY <2>1, <2>2, <2>5, <2>6
    <2>8. \A p \in ToSet(front) : End(p) < last.offset
      BY <2>1, <2>2, <2>5 DEF Apart
    <2>9. last.offset < next.offset
      BY <2>2
    <2>10. QED
      BY <2>1, <2>2, <2>5, <2>7, <2>8, <2>9, RangeFacts
  <1>4. CASE done # <<>> /\ ~(End(last) >= next.offset)
    <2>1. SweepStep(done, next) = Append(done, next)
      BY <1>4 DEF SweepStep
    <2> HIDE DEF n, last, front, end, joined
    <2>2. \A p \in ToSet(done) : End(p) < next.offset
      <3>1. TAKE p \in ToSet(done)
      <3>2. End(p) \in Nat
        BY RangeFacts, ListFacts
      <3>3. QED
        BY <1>1, <1>3, <1>4, <3>2
    <2>3. /\ Append(done, next) \in List /\ Apart(Append(done, next))
          /\ ToSet(Append(done, next)) = ToSet(done) \union {next}
      BY <2>2, AppendList
    <2>4. \A p \in ToSet(Append(done, next)) : p.offset <= next.offset
      BY <1>1, <2>3, RangeFacts, ListFacts
    <2>5. QED
      BY <2>1, <2>3, <2>4
  <1>5. CASE done # <<>> /\ End(last) >= next.offset
    <2>1. SweepStep(done, next) = Append(front, joined)
      BY <1>5 DEF SweepStep
    <2>2. end \in {End(last), End(next)} /\ End(last) <= end /\ End(next) <= end
      <3>1. \E m \in {End(last), End(next)} : \A y \in {End(last), End(next)} : m >= y
        BY <1>1, <1>3, <1>5
      <3> DEFINE T == {End(last), End(next)}
      <3>2. end \in T /\ \A y \in T : end >= y
        <4>1. (\E m \in T : \A y \in T : m >= y) /\ end = Max(T)
          BY <3>1
        <4> HIDE DEF T, end
        <4>2. QED
          BY <4>1 DEF Max
      <3>3. QED
        BY <1>1, <1>3, <1>5, <3>2
    <2> HIDE DEF end
    <2>3. joined.offset = last.offset /\ joined.size = end - last.offset
          /\ joined \in StagingChunkRange /\ End(joined) = end
      BY <1>1, <1>3, <1>5, <2>2 DEF StagingChunkRange, AsRange, End
    <2> HIDE DEF n, last, front, joined
    <2>4. /\ Append(front, joined) \in List /\ Apart(Append(front, joined))
          /\ ToSet(Append(front, joined)) = ToSet(front) \union {joined}
      BY <1>3, <1>5, <2>3, AppendList
    <2>5. \A p \in ToSet(Append(front, joined)) : p.offset <= next.offset
      <3>1. \A p \in ToSet(front) : p.offset < next.offset /\ p.offset \in Nat
        BY <1>3, <1>5, ListFacts, RangeFacts
      <3>2. QED
        BY <1>1, <1>3, <1>5, <2>3, <2>4, <3>1
    <2>6. ASSUME NEW x \in Nat
          PROVE  Covered(ToSet(front) \union {joined}, x)
                   <=> Covered(ToSet(front) \union {last, next}, x)
      <3>1. (joined.offset <= x /\ x < End(joined))
              <=> \/ last.offset <= x /\ x < End(last)
                  \/ next.offset <= x /\ x < End(next)
        BY <1>1, <1>3, <1>5, <2>2, <2>3
      <3>2. QED
        BY <3>1 DEF Covered
    <2>7. ToSet(done) \union {next} = ToSet(front) \union {last, next}
      BY <1>3, <1>5
    <2>8. QED
      BY <2>1, <2>4, <2>5, <2>6, <2>7
  <1>6. QED
    BY <1>2, <1>4, <1>5

\* A statement about 0 .. n that passes from each number to the next holds of n: T is the
\* set of the numbers it is true of.
LEMMA Upwards ==
  ASSUME NEW n \in Nat, NEW T, 0 \in T, \A k \in 1 .. n : k - 1 \in T => k \in T
  PROVE  n \in T
  <1> DEFINE Bad == {k \in 0 .. n : k \notin T}
  <1>1. SUFFICES ASSUME n \notin T PROVE FALSE
    OBVIOUS
  <1>2. Bad \in SUBSET Nat /\ n \in Bad
    BY <1>1
  <1> HIDE DEF Bad
  <1>3. PICK k \in Bad : \A j \in Bad : k <= j
    BY <1>2, LeastNumber
  <1> USE DEF Bad
  <1>4. k \in 1 .. n /\ k - 1 \in 0 .. n
    BY <1>3
  <1>5. k - 1 \in T
    BY <1>3, <1>4
  <1>6. QED
    BY <1>3, <1>4, <1>5

\* The lists after each round of the merging loop.
Rounds(list) ==
  CHOOSE swept : swept = [k \in 0 .. Len(list) |->
                            IF k = 0 THEN <<>> ELSE SweepStep(swept[k - 1], list[k])]

RoundsUpTo(list, n, f) ==
  /\ f = [k \in 0 .. n |-> f[k]] /\ f[0] = <<>>
  /\ \A k \in 1 .. n : f[k] = SweepStep(f[k - 1], list[k])

LEMMA RoundsSay ==
  ASSUME NEW s \in List
  PROVE  RoundsUpTo(s, Len(s), Rounds(s)) /\ Swept(s) = Rounds(s)[Len(s)]
  <1> DEFINE N == Len(s)
             T == {n \in 0 .. N : \E f : RoundsUpTo(s, n, f)}
  <1>1. N \in Nat
    BY ListFacts
  <1> HIDE DEF N
  <1>2. 0 \in T
    <2> DEFINE f == [k \in 0 .. 0 |-> <<>>]
    <2>1. f = [k \in 0 .. 0 |-> f[k]] /\ f[0] = <<>>
      OBVIOUS
    <2> HIDE DEF f
    <2>2. RoundsUpTo(s, 0, f)
      BY <2>1 DEF RoundsUpTo
    <2>3. QED
      BY <1>1, <2>2
  <1>3. ASSUME NEW n \in 1 .. N, n - 1 \in T PROVE n \in T
    <2>1. PICK f : RoundsUpTo(s, n - 1, f)
      BY <1>3
    <2> DEFINE g == [k \in 0 .. n |-> IF k = n THEN SweepStep(f[n - 1], s[n]) ELSE f[k]]
    <2>2. n \in Nat \ {0} /\ g = [k \in 0 .. n |-> g[k]]
      BY <1>1
    <2>3. g[0] = <<>> /\ g[n] = SweepStep(g[n - 1], s[n])
      BY <2>1, <2>2 DEF RoundsUpTo
    <2>4. ASSUME NEW k \in 1 .. n, k # n PROVE g[k] = SweepStep(g[k - 1], s[k])
      <3>1. k \in 1 .. n - 1 /\ g[k] = f[k] /\ g[k - 1] = f[k - 1]
        BY <2>2, <2>4
      <3>2. QED
        BY <2>1, <3>1 DEF RoundsUpTo
    <2> HIDE DEF g
    <2>5. RoundsUpTo(s, n, g)
      BY <2>2, <2>3, <2>4 DEF RoundsUpTo
    <2>6. QED
      BY <1>1, <2>5
  <1>4. PICK f : RoundsUpTo(s, N, f)
    <2> HIDE DEF T
    <2>1. N \in T
      BY <1>1, <1>2, <1>3, Upwards
    <2>2. QED
      BY <2>1 DEF T
  <1>5. f = [k \in 0 .. N |-> IF k = 0 THEN <<>> ELSE SweepStep(f[k - 1], s[k])]
    <2>1. \A k \in 0 .. N : k = 0 \/ (k # 0 /\ k \in 1 .. N)
      BY <1>1
    <2>2. QED
      BY <1>4, <2>1 DEF RoundsUpTo
  <1> DEFINE r == Rounds(s)
  <1>6. r = [k \in 0 .. N |-> IF k = 0 THEN <<>> ELSE SweepStep(r[k - 1], s[k])]
    BY <1>5 DEF Rounds, N
  <1>7. Swept(s) = r[N]
    BY DEF Swept, Rounds, N
  <1> HIDE DEF r
  <1>8. RoundsUpTo(s, N, r)
    <2>1. r = [k \in 0 .. N |-> r[k]] /\ r[0] = <<>>
      BY <1>1, <1>6
    <2>2. \A k \in 1 .. N : k \in 0 .. N /\ k # 0
      BY <1>1
    <2>3. \A k \in 1 .. N : r[k] = SweepStep(r[k - 1], s[k])
      BY <1>6, <2>2
    <2>4. QED
      BY <2>1, <2>3 DEF RoundsUpTo
  <1>9. QED
    BY <1>7, <1>8 DEF r, N

\* The merging loop covers what the sorted list covers, with ranges that are apart.
LEMMA SweptSays ==
  ASSUME NEW s \in List, Increasing(s)
  PROVE  Swept(s) \in List /\ Apart(Swept(s)) /\ SameCover(ToSet(Swept(s)), ToSet(s))
  <1> DEFINE N == Len(s)
             f == Rounds(s)
             First(k) == {s[i] : i \in 1 .. k}
             Right(k) == /\ f[k] \in List /\ Apart(f[k])
                         /\ k # 0 => \A p \in ToSet(f[k]) : p.offset <= s[k].offset
                         /\ SameCover(ToSet(f[k]), First(k))
             T == {k \in 0 .. N : Right(k)}
  <1>1. /\ N \in Nat /\ DOMAIN s = 1 .. N /\ ToSet(s) = First(N)
        /\ \A i \in 1 .. N : s[i] \in StagingChunkRange /\ s[i].offset \in Nat
    BY ListFacts, RangeFacts
  <1>2. RoundsUpTo(s, N, f) /\ Swept(s) = f[N]
    BY RoundsSay
  <1> HIDE DEF N, f
  <1>3. Right(0)
    <2>1. f[0] = <<>> /\ First(0) = {}
      BY <1>2 DEF RoundsUpTo
    <2>2. QED
      BY <2>1, EmptyList DEF SameCover
  <1>4. ASSUME NEW k \in 1 .. N, Right(k - 1) PROVE Right(k)
    <2>1. f[k] = SweepStep(f[k - 1], s[k]) /\ s[k] \in StagingChunkRange /\ s[k].offset \in Nat
      BY <1>1, <1>2 DEF RoundsUpTo
    <2>2. \A p \in ToSet(f[k - 1]) : p.offset < s[k].offset
      <3>1. CASE k = 1
        BY <1>2, <3>1, EmptyList DEF RoundsUpTo
      <3>2. CASE k # 1
        <4>1. k - 1 \in 1 .. N /\ k - 1 # 0 /\ k - 1 < k
          BY <1>1, <3>2
        <4>2. s[k - 1].offset < s[k].offset /\ s[k - 1].offset \in Nat
          BY <1>1, <4>1 DEF Increasing
        <4>3. \A p \in ToSet(f[k - 1]) : p.offset \in Nat
          BY <1>4, ListFacts, RangeFacts
        <4>4. QED
          BY <1>4, <2>1, <4>1, <4>2, <4>3
      <3>3. QED
        BY <3>1, <3>2
    <2>3. /\ f[k] \in List /\ Apart(f[k])
          /\ \A p \in ToSet(f[k]) : p.offset <= s[k].offset
          /\ \A x \in Nat : Covered(ToSet(f[k]), x) <=> Covered(ToSet(f[k - 1]) \union {s[k]}, x)
      BY <1>4, <2>1, <2>2, SweepStepSays
    <2>4. First(k) = First(k - 1) \union {s[k]}
      <3>1. \A i \in 1 .. k : i \in 1 .. k - 1 \/ i = k
        BY <1>1
      <3>2. \A i \in 1 .. k - 1 : i \in 1 .. k
        BY <1>1
      <3>3. k \in 1 .. k
        BY <1>1
      <3>4. QED
        BY <3>1, <3>2, <3>3
    <2> HIDE DEF First
    <2>5. ASSUME NEW x \in Nat PROVE Covered(ToSet(f[k]), x) <=> Covered(First(k), x)
      <3>1. Covered(ToSet(f[k - 1]), x) <=> Covered(First(k - 1), x)
        BY <1>4 DEF SameCover
      <3>2. Covered(ToSet(f[k - 1]) \union {s[k]}, x) <=> Covered(First(k - 1) \union {s[k]}, x)
        BY <3>1 DEF Covered
      <3>3. QED
        BY <2>3, <2>4, <3>2
    <2>6. QED
      BY <2>3, <2>5 DEF SameCover
  <1> HIDE DEF Right
  <1>5. N \in T
    <2>1. 0 \in T /\ \A k \in 1 .. N : k - 1 \in T => k \in T
      BY <1>1, <1>3, <1>4
    <2> HIDE DEF T
    <2>2. QED
      BY <1>1, <2>1, Upwards
  <1>6. QED
    BY <1>1, <1>2, <1>5 DEF Right

\* A range given back to a list that is apart from it.
LEMMA MergeListSays ==
  ASSUME NEW s \in List, Apart(s), NEW r \in StagingChunkRange,
         \A q \in ToSet(s) : q.offset # r.offset
  PROVE  LET m == merge_chunk_free_ranges(Append(s, r))
         IN  m \in List /\ Apart(m) /\ SameCover(ToSet(m), ToSet(s) \union {r})
  <1> DEFINE whole == Append(s, r)
  <1>1. /\ whole \in List /\ ToSet(whole) = ToSet(s) \union {r}
        /\ Len(whole) = Len(s) + 1 /\ Len(s) \in Nat
    BY AppendList, ListFacts
  <1>2. CASE Len(s) = 0
    <2>1. merge_chunk_free_ranges(whole) = whole
      BY <1>1, <1>2 DEF merge_chunk_free_ranges
    <2>2. ToSet(s) = {}
      BY <1>2, ListFacts
    <2>3. Apart(whole)
      BY <2>2, AppendList
    <2>4. QED
      BY <1>1, <2>1, <2>3 DEF SameCover
  <1>3. CASE Len(s) # 0
    <2>1. merge_chunk_free_ranges(whole) = Swept(Sorted(whole))
      BY <1>1, <1>3 DEF merge_chunk_free_ranges
    <2>2. /\ Sorted(whole) \in List /\ Increasing(Sorted(whole))
          /\ ToSet(Sorted(whole)) = ToSet(s) \union {r}
      BY SortedSays
    <2>3. /\ Swept(Sorted(whole)) \in List /\ Apart(Swept(Sorted(whole)))
          /\ SameCover(ToSet(Swept(Sorted(whole))), ToSet(Sorted(whole)))
      BY <2>2, SweptSays
    <2>4. QED
      BY <2>1, <2>2, <2>3
  <1>4. QED
    BY <1>2, <1>3

-----------------------------------------------------------------------------
(* A vector given back.                                                    *)

\* The lists after each allocation of the vector is given back.
Returns(list, vector) ==
  CHOOSE released : released = [k \in 0 .. Len(vector) |->
                                  IF k = 0 THEN list
                                  ELSE merge_chunk_free_ranges(Append(released[k - 1], vector[k]))]

ReturnsUpTo(list, vector, n, f) ==
  /\ f = [k \in 0 .. n |-> f[k]] /\ f[0] = list
  /\ \A k \in 1 .. n : f[k] = merge_chunk_free_ranges(Append(f[k - 1], vector[k]))

LEMMA ReturnsSay ==
  ASSUME NEW s, NEW v \in List
  PROVE  ReturnsUpTo(s, v, Len(v), Returns(s, v)) /\ Released(s, v) = Returns(s, v)[Len(v)]
  <1> DEFINE N == Len(v)
             T == {n \in 0 .. N : \E f : ReturnsUpTo(s, v, n, f)}
  <1>1. N \in Nat
    BY ListFacts
  <1> HIDE DEF N
  <1>2. 0 \in T
    <2> DEFINE f == [k \in 0 .. 0 |-> s]
    <2>1. f = [k \in 0 .. 0 |-> f[k]] /\ f[0] = s
      OBVIOUS
    <2> HIDE DEF f
    <2>2. ReturnsUpTo(s, v, 0, f)
      BY <2>1 DEF ReturnsUpTo
    <2>3. QED
      BY <1>1, <2>2
  <1>3. ASSUME NEW n \in 1 .. N, n - 1 \in T PROVE n \in T
    <2>1. PICK f : ReturnsUpTo(s, v, n - 1, f)
      BY <1>3
    <2> DEFINE next == merge_chunk_free_ranges(Append(f[n - 1], v[n]))
               g == [k \in 0 .. n |-> IF k = n THEN next ELSE f[k]]
    <2>2. n \in Nat \ {0} /\ g = [k \in 0 .. n |-> g[k]]
      BY <1>1
    <2>3. g[0] = s /\ g[n] = merge_chunk_free_ranges(Append(g[n - 1], v[n]))
      <3>1. g[0] = f[0] /\ g[n] = next /\ g[n - 1] = f[n - 1]
        BY <2>2
      <3> HIDE DEF g
      <3>2. QED
        BY <2>1, <3>1 DEF ReturnsUpTo
    <2>4. ASSUME NEW k \in 1 .. n, k # n
          PROVE  g[k] = merge_chunk_free_ranges(Append(g[k - 1], v[k]))
      <3>1. k \in 1 .. n - 1 /\ g[k] = f[k] /\ g[k - 1] = f[k - 1]
        BY <2>2, <2>4
      <3>2. QED
        BY <2>1, <3>1 DEF ReturnsUpTo
    <2> HIDE DEF g
    <2>5. ReturnsUpTo(s, v, n, g)
      BY <2>2, <2>3, <2>4 DEF ReturnsUpTo
    <2>6. QED
      BY <1>1, <2>5
  <1>4. PICK f : ReturnsUpTo(s, v, N, f)
    <2> HIDE DEF T
    <2>1. N \in T
      BY <1>1, <1>2, <1>3, Upwards
    <2>2. QED
      BY <2>1 DEF T
  <1>5. f = [k \in 0 .. N |-> IF k = 0 THEN s
                              ELSE merge_chunk_free_ranges(Append(f[k - 1], v[k]))]
    <2>1. \A k \in 0 .. N : k = 0 \/ (k # 0 /\ k \in 1 .. N)
      BY <1>1
    <2>2. QED
      BY <1>4, <2>1 DEF ReturnsUpTo
  <1> DEFINE r == Returns(s, v)
  <1>6. r = [k \in 0 .. N |-> IF k = 0 THEN s
                              ELSE merge_chunk_free_ranges(Append(r[k - 1], v[k]))]
    BY <1>5 DEF Returns, N
  <1>7. Released(s, v) = r[N]
    BY DEF Released, Returns, N
  <1> HIDE DEF r
  <1>8. ReturnsUpTo(s, v, N, r)
    <2>1. r = [k \in 0 .. N |-> r[k]] /\ r[0] = s
      BY <1>1, <1>6
    <2>2. \A k \in 1 .. N : k \in 0 .. N /\ k # 0
      BY <1>1
    <2>3. \A k \in 1 .. N : r[k] = merge_chunk_free_ranges(Append(r[k - 1], v[k]))
      BY <1>6, <2>2
    <2>4. QED
      BY <2>1, <2>3 DEF ReturnsUpTo
  <1>9. QED
    BY <1>7, <1>8 DEF r, N

\* Ranges that share no byte with the list, nor with each other, given back in any order.
LEMMA ReleasedSays ==
  ASSUME NEW s \in List, Apart(s), NEW v \in List,
         \A i \in 1 .. Len(v) : \A q \in ToSet(s) : ~SameBytes(v[i], q),
         \A i, j \in 1 .. Len(v) : i # j => ~SameBytes(v[i], v[j])
  PROVE  LET w == Released(s, v)
         IN  w \in List /\ Apart(w) /\ SameCover(ToSet(w), ToSet(s) \union ToSet(v))
  <1> DEFINE N == Len(v)
             f == Returns(s, v)
             First(k) == ToSet(s) \union {v[i] : i \in 1 .. k}
             Right(k) == f[k] \in List /\ Apart(f[k]) /\ SameCover(ToSet(f[k]), First(k))
             T == {k \in 0 .. N : Right(k)}
  <1>1. /\ N \in Nat /\ ToSet(v) = {v[i] : i \in 1 .. N}
        /\ \A i \in 1 .. N : v[i] \in StagingChunkRange
    BY ListFacts
  <1>2. ReturnsUpTo(s, v, N, f) /\ Released(s, v) = f[N]
    BY ReturnsSay
  <1>3. \A i \in 1 .. N : \A q \in ToSet(s) : ~SameBytes(v[i], q)
    OBVIOUS
  <1>4. \A i, j \in 1 .. N : i # j => ~SameBytes(v[i], v[j])
    OBVIOUS
  <1> HIDE DEF N, f
  <1>5. Right(0)
    <2>1. f[0] = s /\ First(0) = ToSet(s)
      BY <1>2 DEF ReturnsUpTo
    <2>2. QED
      BY <2>1 DEF SameCover
  <1>6. ASSUME NEW k \in 1 .. N, Right(k - 1) PROVE Right(k)
    <2>1. /\ f[k] = merge_chunk_free_ranges(Append(f[k - 1], v[k]))
          /\ v[k] \in StagingChunkRange
      BY <1>1, <1>2 DEF ReturnsUpTo
    <2>2. ASSUME NEW q \in ToSet(f[k - 1]), q.offset = v[k].offset PROVE FALSE
      <3>1. /\ v[k].offset \in Nat /\ End(v[k]) \in Nat /\ v[k].offset < End(v[k])
            /\ q.offset < End(q)
        BY <1>6, <2>1, RangeFacts, ListFacts
      <3>2. Covered(ToSet(f[k - 1]), v[k].offset)
        BY <2>2, <3>1 DEF Covered
      <3>3. Covered(First(k - 1), v[k].offset)
        BY <1>6, <3>1, <3>2 DEF SameCover
      <3>4. PICK p \in First(k - 1) : p.offset <= v[k].offset /\ v[k].offset < End(p)
        BY <3>3 DEF Covered
      <3>5. p \in StagingChunkRange /\ ~SameBytes(v[k], p)
        <4>1. CASE p \in ToSet(s)
          BY <1>3, <4>1, ListFacts
        <4>2. ASSUME NEW i \in 1 .. k - 1, p = v[i] PROVE p \in StagingChunkRange /\ ~SameBytes(v[k], p)
          <5>1. i \in 1 .. N /\ i # k
            BY <1>1
          <5>2. QED
            BY <1>1, <1>4, <4>2, <5>1
        <4>3. QED
          BY <4>1, <4>2
      <3>6. p.offset \in Nat /\ End(p) \in Nat
        BY <3>5, RangeFacts
      <3>7. SameBytes(v[k], p)
        BY <3>1, <3>4, <3>6 DEF SameBytes
      <3>8. QED
        BY <3>5, <3>7
    <2>3. f[k] \in List /\ Apart(f[k]) /\ SameCover(ToSet(f[k]), ToSet(f[k - 1]) \union {v[k]})
      BY <1>6, <2>1, <2>2, MergeListSays
    <2>4. First(k) = First(k - 1) \union {v[k]}
      <3>1. \A i \in 1 .. k : i \in 1 .. k - 1 \/ i = k
        BY <1>1
      <3>2. \A i \in 1 .. k - 1 : i \in 1 .. k
        BY <1>1
      <3>3. k \in 1 .. k
        BY <1>1
      <3>4. QED
        BY <3>1, <3>2, <3>3
    <2> HIDE DEF First
    <2>5. ASSUME NEW x \in Nat PROVE Covered(ToSet(f[k]), x) <=> Covered(First(k), x)
      <3>1. Covered(ToSet(f[k - 1]), x) <=> Covered(First(k - 1), x)
        BY <1>6 DEF SameCover
      <3>2. Covered(ToSet(f[k - 1]) \union {v[k]}, x) <=> Covered(First(k - 1) \union {v[k]}, x)
        BY <3>1 DEF Covered
      <3>3. QED
        BY <2>3, <2>4, <3>2 DEF SameCover
    <2>6. QED
      BY <2>3, <2>5 DEF SameCover
  <1> HIDE DEF Right
  <1>7. N \in T
    <2>1. 0 \in T /\ \A k \in 1 .. N : k - 1 \in T => k \in T
      BY <1>1, <1>5, <1>6
    <2> HIDE DEF T
    <2>2. QED
      BY <1>1, <2>1, Upwards
  <1>8. QED
    BY <1>1, <1>2, <1>7 DEF Right

\* A vector that lists a set lists all of it, nothing twice.
LEMMA VectorSays ==
  ASSUME NEW S \in SUBSET StagingChunkRange, IsFiniteSet(S), NEW v \in SetToSeqs(S)
  PROVE  /\ v \in List /\ ToSet(v) = S
         /\ \A i, j \in 1 .. Len(v) : i # j => v[i] # v[j]
  <1> DEFINE n == Cardinality(S)
  <1>1. n \in Nat /\ IsFiniteSet(1 .. n) /\ Cardinality(1 .. n) = n
    BY FS_CardinalityType, FS_Interval
  <1>2. v \in [1 .. n -> S] /\ \A i, j \in 1 .. n : i # j => v[i] # v[j]
    BY DEF SetToSeqs
  <1> HIDE DEF n
  <1>3. v \in [1 .. n -> StagingChunkRange]
    BY <1>2
  <1>4. v \in List /\ Len(v) = n /\ ToSet(v) = {v[i] : i \in 1 .. n}
    BY <1>1, <1>3, IsList
  <1>5. v \in Injection(1 .. n, S)
    BY <1>2 DEF Injection, IsInjective
  <1>6. v \in Surjection(1 .. n, S)
    BY <1>1, <1>5, FS_Injection DEF n
  <1>7. \A x \in S : \E i \in 1 .. n : v[i] = x
    BY <1>6 DEF Surjection
  <1>8. QED
    BY <1>2, <1>4, <1>7

-----------------------------------------------------------------------------
(* FreeList: the vector follows the sets.                                  *)

\* The two pieces of a range that is cut.
LEMMA PiecesOf ==
  ASSUME NEW r \in StagingChunkRange, NEW n \in Nat \ {0}, Fits(r, n)
  PROVE  LET prefix == AsRange(r.offset, Padding(r))
             suffix == AsRange(align_up(r.offset) + n, r.size - Padding(r) - n)
         IN  /\ prefix.offset = r.offset /\ prefix.size = Padding(r) /\ prefix.size \in Nat
             /\ suffix.offset = align_up(r.offset) + n /\ suffix.size \in Nat
             /\ suffix.offset \in Nat
             /\ r.offset <= suffix.offset
             /\ End(prefix) = align_up(r.offset) /\ End(suffix) = End(r)
             /\ End(prefix) <= End(r) /\ End(prefix) < suffix.offset
             /\ prefix.size # 0 => prefix \in StagingChunkRange
             /\ suffix.size # 0 => suffix \in StagingChunkRange
  <1> DEFINE o == r.offset
             z == r.size
             a == align_up(o)
             d == Padding(r)
             prefix == AsRange(o, d)
             suffix == AsRange(a + n, z - d - n)
  <1>1. o \in Nat /\ z \in Nat /\ End(r) = o + z
    BY DEF StagingChunkRange, End
  <1>2. d = a - o /\ z >= d /\ z - d >= n
    BY DEF Padding, Fits
  <1>3. a \in Nat /\ o <= a
    <2> HIDE DEF o
    <2>1. QED
      BY <1>1, AlignUp
  <1>4. /\ prefix.offset = o /\ prefix.size = d /\ End(prefix) = o + d
        /\ suffix.offset = a + n /\ suffix.size = z - d - n
        /\ End(suffix) = (a + n) + (z - d - n)
    BY DEF AsRange, End
  <1>5. /\ prefix.size # 0 /\ o \in Nat /\ d \in Nat => prefix \in StagingChunkRange
        /\ suffix.size # 0 /\ a + n \in Nat /\ z - d - n \in Nat => suffix \in StagingChunkRange
    BY DEF AsRange, StagingChunkRange
  <1> HIDE DEF o, z, a, d, prefix, suffix
  <1>6. /\ d \in Nat /\ o + d = a /\ z - d - n \in Nat /\ a + n \in Nat /\ o <= a + n
        /\ (a + n) + (z - d - n) = o + z /\ a < a + n /\ a <= o + z
    BY <1>1, <1>2, <1>3
  <1>7. /\ prefix.offset = o /\ prefix.size = d /\ prefix.size \in Nat
        /\ suffix.offset = a + n /\ suffix.size \in Nat /\ suffix.offset \in Nat
        /\ o <= suffix.offset
        /\ End(prefix) = a /\ End(suffix) = End(r)
        /\ End(prefix) <= End(r) /\ End(prefix) < suffix.offset
        /\ prefix.size # 0 => prefix \in StagingChunkRange
        /\ suffix.size # 0 => suffix \in StagingChunkRange
    BY <1>1, <1>4, <1>5, <1>6
  <1>8. QED
    BY <1>7 DEF o, z, a, d, prefix, suffix

\* Erasing a range and putting its pieces in its place is Carve.
LEMMA CutList ==
  ASSUME NEW s \in List, Apart(s), NEW i \in 1 .. Len(s), NEW n \in Nat \ {0}, Fits(s[i], n)
  PROVE  LET w == SubSeq(s, 1, i - 1) \o Split(s[i], n) \o SubSeq(s, i + 1, Len(s))
         IN  w \in List /\ Apart(w) /\ ToSet(w) = Carve(ToSet(s), s[i], n)
  <1> DEFINE r == s[i]
             A == SubSeq(s, 1, i - 1)
             B == Split(r, n)
             C == SubSeq(s, i + 1, Len(s))
             prefix == AsRange(r.offset, Padding(r))
             suffix == AsRange(align_up(r.offset) + n, r.size - Padding(r) - n)
  <1>1. /\ Len(s) \in Nat /\ DOMAIN s = 1 .. Len(s) /\ i \in Nat
        /\ \A k \in 1 .. Len(s) : s[k] \in StagingChunkRange /\ s[k].offset \in Nat
             /\ End(s[k]) \in Nat /\ s[k].offset < End(s[k])
        /\ ToSet(s) = {s[k] : k \in 1 .. Len(s)}
    BY ListFacts, RangeFacts
  <1>2. r \in StagingChunkRange
    BY <1>1
  <1>3. A \in List /\ Apart(A) /\ ToSet(A) = {s[k] : k \in 1 .. i - 1}
    <2>1. 1 \in 1 .. Len(s) + 1 /\ i - 1 \in 0 .. Len(s) /\ 1 <= (i - 1) + 1
      BY <1>1
    <2>2. QED
      BY <2>1, PartList
  <1>4. C \in List /\ Apart(C) /\ ToSet(C) = {s[k] : k \in i + 1 .. Len(s)}
    <2>1. i + 1 \in 1 .. Len(s) + 1 /\ Len(s) \in 0 .. Len(s) /\ i + 1 <= Len(s) + 1
      BY <1>1
    <2>2. QED
      BY <2>1, PartList
  <1>5. /\ \A p \in ToSet(A) : p \in ToSet(s) /\ p # r /\ End(p) < r.offset
        /\ \A p \in ToSet(C) : p \in ToSet(s) /\ p # r /\ End(r) < p.offset
    <2>1. \A k \in 1 .. i - 1 : k \in 1 .. Len(s) /\ k < i
      BY <1>1
    <2>2. \A k \in i + 1 .. Len(s) : k \in 1 .. Len(s) /\ i < k
      BY <1>1
    <2>3. /\ \A k \in 1 .. i - 1 : End(s[k]) < r.offset
          /\ \A k \in i + 1 .. Len(s) : End(r) < s[k].offset
      BY <1>1, <2>1, <2>2 DEF Apart
    <2>4. /\ \A k \in 1 .. i - 1 : s[k] # r
          /\ \A k \in i + 1 .. Len(s) : s[k] # r
      BY <1>1, <2>1, <2>2, <2>3
    <2> HIDE DEF r, A, C
    <2>5. QED
      BY <1>1, <1>3, <1>4, <2>1, <2>2, <2>3, <2>4
  <1>6. ToSet(s) \ {r} = ToSet(A) \union ToSet(C)
    <2>1. \A k \in 1 .. Len(s) : k = i \/ k \in 1 .. i - 1 \/ k \in i + 1 .. Len(s)
      BY <1>1
    <2>2. ToSet(s) \ {r} \subseteq ToSet(A) \union ToSet(C)
      BY <1>1, <1>3, <1>4, <2>1
    <2> HIDE DEF r, A, C
    <2>3. QED
      BY <1>5, <2>2
  <1>7. /\ prefix.offset = r.offset /\ r.offset <= suffix.offset
        /\ End(prefix) <= End(r) /\ End(suffix) = End(r) /\ End(prefix) < suffix.offset
        /\ prefix.size # 0 => prefix \in StagingChunkRange
        /\ suffix.size # 0 => suffix \in StagingChunkRange
    <2> HIDE DEF r
    <2>1. Fits(r, n)
      BY DEF r
    <2>2. QED
      BY <1>2, <2>1, PiecesOf
  <1>9. B \in List /\ Apart(B) /\ ToSet(B) = {x \in {prefix, suffix} : x.size # 0}
    <2>1. B = IfNotEmpty(prefix) \o IfNotEmpty(suffix)
      BY DEF Split
    <2>2. /\ prefix.size # 0 => prefix \in StagingChunkRange
          /\ suffix.size # 0 => suffix \in StagingChunkRange
      BY <1>7
    <2>3. prefix.size # 0 /\ suffix.size # 0 => End(prefix) < suffix.offset
      BY <1>7
    <2> HIDE DEF prefix, suffix, B
    <2>4. /\ IfNotEmpty(prefix) \in List /\ Apart(IfNotEmpty(prefix))
          /\ ToSet(IfNotEmpty(prefix)) = IF prefix.size # 0 THEN {prefix} ELSE {}
      BY <2>2, SingleList, EmptyList DEF IfNotEmpty
    <2>5. /\ IfNotEmpty(suffix) \in List /\ Apart(IfNotEmpty(suffix))
          /\ ToSet(IfNotEmpty(suffix)) = IF suffix.size # 0 THEN {suffix} ELSE {}
      BY <2>2, SingleList, EmptyList DEF IfNotEmpty
    <2>6. B \in List /\ ToSet(B) = ToSet(IfNotEmpty(prefix)) \union ToSet(IfNotEmpty(suffix))
      BY <2>1, <2>4, <2>5, ConcatList
    <2>7. \A p \in ToSet(IfNotEmpty(prefix)), q \in ToSet(IfNotEmpty(suffix)) : End(p) < q.offset
      BY <2>3, <2>4, <2>5
    <2>8. Apart(B)
      BY <2>1, <2>4, <2>5, <2>7, ConcatList
    <2>9. QED
      BY <2>4, <2>5, <2>6, <2>8
  <1>10. \A x \in ToSet(B) : r.offset <= x.offset /\ End(x) <= End(r) /\ x.offset \in Nat /\ End(x) \in Nat
    <2> HIDE DEF prefix, suffix, r, B
    <2>1. r.offset <= prefix.offset /\ End(prefix) <= End(r)
      BY <1>2, <1>7, RangeFacts
    <2>2. r.offset <= suffix.offset /\ End(suffix) <= End(r)
      BY <1>2, <1>7, RangeFacts
    <2>3. \A x \in ToSet(B) : x.offset \in Nat /\ End(x) \in Nat
      BY <1>9, ListFacts, RangeFacts
    <2>4. QED
      BY <1>9, <2>1, <2>2, <2>3
  <1>11. Carve(ToSet(s), r, n) = (ToSet(s) \ {r}) \union {x \in {prefix, suffix} : x.size # 0}
    BY DEF Carve, AsRange
  <1>12. r.offset \in Nat /\ End(r) \in Nat /\ r.offset < End(r)
    BY <1>2, RangeFacts
  <1> HIDE DEF r, A, B, C, prefix, suffix
  <1>13. \A p \in ToSet(A) \union ToSet(C) : p.offset \in Nat /\ End(p) \in Nat
    BY <1>3, <1>4, ListFacts, RangeFacts
  <1>14. A \o B \in List /\ Apart(A \o B) /\ ToSet(A \o B) = ToSet(A) \union ToSet(B)
    <2>1. \A p \in ToSet(A), q \in ToSet(B) : End(p) < q.offset
      BY <1>5, <1>10, <1>12, <1>13
    <2>2. QED
      BY <1>3, <1>9, <2>1, ConcatList
  <1>15. /\ A \o B \o C \in List /\ Apart(A \o B \o C)
         /\ ToSet(A \o B \o C) = ToSet(A) \union ToSet(B) \union ToSet(C)
    <2>1. \A p \in ToSet(A), q \in ToSet(C) : End(p) < q.offset
      BY <1>5, <1>12, <1>13
    <2>2. \A p \in ToSet(B), q \in ToSet(C) : End(p) < q.offset
      BY <1>5, <1>10, <1>12, <1>13
    <2>3. \A p \in ToSet(A \o B), q \in ToSet(C) : End(p) < q.offset
      BY <1>14, <2>1, <2>2
    <2>4. QED
      BY <1>4, <1>14, <2>3, ConcatList
  <1>16. QED
    BY <1>6, <1>9, <1>11, <1>15 DEF r, A, B, C

\* No byte is on the list and given out, or given out twice, and all are of the chunk.
ListInv ==
  /\ free_ranges \in List /\ Apart(free_ranges)
  /\ live \in SUBSET StagingChunkRange /\ IsFiniteSet(live)
  /\ \A a \in live, r \in FreeSet : ~SameBytes(a, r)
  /\ \A a, b \in live : a # b => ~SameBytes(a, b)
  /\ \A r \in FreeSet \union live : End(r) <= ChunkSize

\* What the steps of the vector are on sets.
CutsFirst(n) ==
  \E r \in FreeSet :
    /\ FirstFit(FreeSet, n, r)
    /\ FreeSet' = Carve(FreeSet, r, n)
    /\ live' = live \union {AsRange(align_up(r.offset), n)}
Merges == live' \subseteq live /\ FreeSet' = Merge(FreeSet \union (live \ live'))

LEMMA InitListInv == ListInit => ListInv
  <1> SUFFICES ASSUME ListInit PROVE ListInv
    OBVIOUS
  <1> DEFINE whole == AsRange(0, ChunkSize)
  <1>1. free_ranges = <<whole>> /\ live = {}
    BY DEF ListInit
  <1>2. whole \in StagingChunkRange /\ End(whole) = ChunkSize /\ ChunkSize \in Nat
    BY FreeListAssumption DEF StagingChunkRange, AsRange, End
  <1> HIDE DEF whole
  <1>3. free_ranges \in List /\ Apart(free_ranges) /\ FreeSet = {whole}
    BY <1>1, <1>2, SingleList DEF FreeSet
  <1>4. IsFiniteSet(live)
    BY <1>1, FS_EmptySet
  <1>5. QED
    BY <1>1, <1>2, <1>3, <1>4 DEF ListInv

LEMMA ListAllocate ==
  ASSUME ListInv, NEW n \in RequestSizes, Allocate(n)
  PROVE  ListInv' /\ CutsFirst(n)
  <1>1. PICK i \in DOMAIN free_ranges :
          /\ Fits(free_ranges[i], n)
          /\ \A j \in 1 .. i - 1 : ~Fits(free_ranges[j], n)
          /\ free_ranges' = SubSeq(free_ranges, 1, i - 1)
                              \o Split(free_ranges[i], n)
                              \o SubSeq(free_ranges, i + 1, Len(free_ranges))
          /\ live' = live \union {AsRange(align_up(free_ranges[i].offset), n)}
    BY DEF Allocate
  <1> DEFINE r == free_ranges[i]
             cut == AsRange(align_up(r.offset), n)
             R == FreeSet
  <1>2. /\ free_ranges \in List /\ Apart(free_ranges) /\ i \in 1 .. Len(free_ranges)
        /\ Len(free_ranges) \in Nat /\ n \in Nat \ {0}
        /\ R = {free_ranges[k] : k \in 1 .. Len(free_ranges)} /\ R \in SUBSET StagingChunkRange
        /\ r \in R /\ DOMAIN free_ranges = 1 .. Len(free_ranges)
    BY ListFacts, FreeListAssumption DEF ListInv, FreeSet
  <1>3. free_ranges' \in List /\ Apart(free_ranges') /\ FreeSet' = Carve(R, r, n)
    BY <1>1, <1>2, CutList DEF FreeSet
  <1>4. FirstFit(R, n, r)
    <2>1. SUFFICES ASSUME NEW q \in R, Fits(q, n) PROVE r.offset <= q.offset
      BY <1>1 DEF FirstFit
    <2>2. PICK k \in 1 .. Len(free_ranges) : q = free_ranges[k]
      BY <1>2
    <2>3. ~(k \in 1 .. i - 1)
      BY <1>1, <2>1, <2>2
    <2>4. k = i \/ i < k
      BY <1>2, <2>3
    <2>5. r.offset \in Nat /\ End(r) \in Nat /\ r.offset < End(r) /\ q.offset \in Nat
      BY <1>2, RangeFacts
    <2>6. i < k => End(r) < q.offset
      BY <1>2, <2>2 DEF Apart
    <2> HIDE DEF r
    <2>7. QED
      BY <2>2, <2>4, <2>5, <2>6 DEF r
  <1>5. Separate(R)
    BY <1>2, ApartSeparate DEF FreeSet
  <1>6. live' = live \union {cut}
    BY <1>1
  <1>7. /\ cut \in StagingChunkRange /\ Inside(cut, r)
        /\ \A x \in Carve(R, r, n) : ~SameBytes(cut, x)
    <2>1. align_up(r.offset) \in Nat
      BY <1>2, RangeFacts, AlignUp
    <2>2. QED
      BY <1>1, <1>2, <1>5, <2>1, CarveTakes DEF AsRange, StagingChunkRange
  <1>8. \A x \in Carve(R, r, n) : x \in StagingChunkRange /\ (x \in R \ {r} \/ Inside(x, r))
    BY <1>1, <1>2, CarvePieces
  <1> HIDE DEF r, cut, R
  <1>9. /\ \A a \in live : a \in StagingChunkRange /\ \A x \in R : ~SameBytes(a, x)
        /\ \A a, b \in live : a # b => ~SameBytes(a, b)
        /\ \A x \in R \union live : End(x) <= ChunkSize
        /\ IsFiniteSet(live)
    BY DEF ListInv, R
  <1>10. ASSUME NEW a \in live, NEW x \in StagingChunkRange, Inside(x, r)
         PROVE  ~SameBytes(a, x) /\ ~SameBytes(x, a)
    <2>1. /\ a.offset \in Nat /\ End(a) \in Nat /\ x.offset \in Nat /\ End(x) \in Nat
          /\ r.offset \in Nat /\ End(r) \in Nat /\ ~SameBytes(a, r)
      BY <1>2, <1>9, RangeFacts
    <2>2. QED
      BY <1>10, <2>1 DEF SameBytes, Inside
  <1>11. IsFiniteSet(live')
    BY <1>6, <1>9, FS_AddElement
  <1>12. \A a \in live', x \in FreeSet' : ~SameBytes(a, x)
    BY <1>3, <1>6, <1>7, <1>8, <1>9, <1>10
  <1>13. \A a, b \in live' : a # b => ~SameBytes(a, b)
    BY <1>6, <1>7, <1>9, <1>10
  <1>14. \A x \in FreeSet' \union live' : End(x) <= ChunkSize
    <2>1. End(r) <= ChunkSize /\ End(r) \in Nat /\ ChunkSize \in Nat
      BY <1>2, <1>9, RangeFacts, FreeListAssumption
    <2>2. \A x \in StagingChunkRange : Inside(x, r) => End(x) <= ChunkSize
      BY <2>1, RangeFacts DEF Inside
    <2>3. QED
      BY <1>3, <1>6, <1>7, <1>8, <1>9, <2>2
  <1>15. ListInv'
    BY <1>3, <1>6, <1>7, <1>9, <1>11, <1>12, <1>13, <1>14 DEF ListInv
  <1>16. CutsFirst(n)
    BY <1>2, <1>3, <1>4, <1>6 DEF CutsFirst, R, cut
  <1>17. QED
    BY <1>15, <1>16

LEMMA ListRelease ==
  ASSUME ListInv, NEW S \in SUBSET live, Release(S)
  PROVE  ListInv' /\ Merges
  <1>1. PICK v \in SetToSeqs(S) : free_ranges' = Released(free_ranges, v) /\ live' = live \ S
    BY DEF Release
  <1> DEFINE R == FreeSet \union S
  <1>2. /\ free_ranges \in List /\ Apart(free_ranges) /\ FreeSet \in SUBSET StagingChunkRange
        /\ S \in SUBSET StagingChunkRange /\ R \in SUBSET StagingChunkRange
        /\ IsFiniteSet(live) /\ IsFiniteSet(S)
        /\ \A r \in R : End(r) <= ChunkSize
        /\ ChunkSize \in Nat
    BY ListFacts, FS_Subset, FreeListAssumption DEF ListInv, FreeSet
  <1>3. v \in List /\ ToSet(v) = S /\ \A i, j \in 1 .. Len(v) : i # j => v[i] # v[j]
    BY <1>2, VectorSays
  <1>4. /\ \A i \in 1 .. Len(v) : \A q \in ToSet(free_ranges) : ~SameBytes(v[i], q)
        /\ \A i, j \in 1 .. Len(v) : i # j => ~SameBytes(v[i], v[j])
    <2>1. \A i \in 1 .. Len(v) : v[i] \in live
      BY <1>3, ListFacts
    <2>2. QED
      BY <1>3, <2>1 DEF ListInv, FreeSet
  <1>5. /\ free_ranges' \in List /\ Apart(free_ranges')
        /\ SameCover(FreeSet', R)
    BY <1>1, <1>2, <1>3, <1>4, ReleasedSays DEF FreeSet
  <1>6. FreeSet' = Merge(R)
    BY <1>2, <1>5, ListIsMerge DEF FreeSet
  <1>7. live \ live' = S
    BY <1>1
  <1>8. \A a \in live', m \in FreeSet' : ~SameBytes(a, m)
    <2>1. SUFFICES ASSUME NEW a \in live', NEW m \in Merge(R) PROVE ~SameBytes(a, m)
      BY <1>6
    <2>2. a \in live /\ a \notin S /\ a.offset \in Nat /\ a.size \in Nat \ {0}
      BY <1>1, <2>1, RangeFacts DEF ListInv
    <2>3. \A r \in R : ~SameBytes(a, r)
      BY <2>2 DEF ListInv
    <2> HIDE DEF R
    <2>4. QED
      BY <1>2, <2>2, <2>3, MergeInvents
  <1>9. \A r \in FreeSet' \union live' : End(r) <= ChunkSize
    <2>1. \A m \in Merge(R) : \E q \in R : End(m) = End(q)
      BY <1>2, MergeRun
    <2>2. \A a \in live' : End(a) <= ChunkSize
      BY <1>1 DEF ListInv
    <2> HIDE DEF R
    <2>3. QED
      BY <1>2, <1>6, <2>1, <2>2
  <1>10. IsFiniteSet(live')
    BY <1>1, <1>2, FS_Subset
  <1>11. ListInv'
    BY <1>1, <1>5, <1>8, <1>9, <1>10 DEF ListInv
  <1>12. Merges
    BY <1>1, <1>6, <1>7 DEF Merges
  <1>13. QED
    BY <1>11, <1>12

LEMMA NextList ==
  ASSUME ListInv, [ListNext]_list_vars
  PROVE  ListInv' /\ ((\E n \in RequestSizes : CutsFirst(n)) \/ Merges \/ UNCHANGED list_vars)
  <1>1. ASSUME NEW n \in RequestSizes, Allocate(n)
        PROVE  ListInv' /\ CutsFirst(n)
    BY <1>1, ListAllocate
  <1>2. ASSUME NEW S \in SUBSET live, Release(S)
        PROVE  ListInv' /\ Merges
    BY <1>2, ListRelease
  <1>3. CASE UNCHANGED list_vars
    BY <1>3 DEF list_vars, ListInv, FreeSet
  <1>4. QED
    BY <1>1, <1>2, <1>3 DEF ListNext

LEMMA ListInvAlways == ListSpec => []ListInv
  <1>1. ListInv /\ [ListNext]_list_vars => ListInv'
    BY NextList
  <1>2. QED
    BY <1>1, InitListInv, PTL DEF ListSpec

\* For every chunk, alignment and set of sizes, splits and sweeps leave the free list of a
\* chunk in the order of the offsets and without neighbours, however the vector of a command
\* buffer lists what it gives back (allocate_from_chunk, merge_chunk_free_ranges).
THEOREM AlwaysSortedApart == ListSpec => []SortedApart
  <1>1. ListInv => SortedApart
    <2> SUFFICES ASSUME ListInv, NEW i \in 1 .. Len(free_ranges) - 1
                 PROVE  End(free_ranges[i]) < free_ranges[i + 1].offset
      BY DEF SortedApart
    <2>1. Len(free_ranges) \in Nat /\ DOMAIN free_ranges = 1 .. Len(free_ranges)
      BY ListFacts DEF ListInv
    <2>2. i \in DOMAIN free_ranges /\ i + 1 \in DOMAIN free_ranges /\ i < i + 1
      BY <2>1
    <2>3. QED
      BY <2>2 DEF ListInv, Apart
  <1>2. QED
    BY <1>1, ListInvAlways, PTL

\* The vector the code keeps does what StagingRanges says of sets of ranges: first fit is the
\* lowest fit and cuts it as Carve does, a release of any vector merges as Merge does.  What
\* is proved of StagingAllocator holds of the code's lists by this.
THEOREM AlwaysFollowsRanges == ListSpec => FollowsRanges
  <1>1. ASSUME ListInv, [ListNext]_list_vars
        PROVE  [ \/ \E r \in FreeSet, n \in RequestSizes :
                      /\ FirstFit(FreeSet, n, r)
                      /\ FreeSet' = Carve(FreeSet, r, n)
                      /\ live' = live \union {AsRange(align_up(r.offset), n)}
                 \/ /\ live' \subseteq live
                    /\ FreeSet' = Merge(FreeSet \union (live \ live')) ]_list_vars
    BY <1>1, NextList DEF CutsFirst, Merges
  <1>2. QED
    BY <1>1, ListInvAlways, PTL DEF ListSpec, FollowsRanges

=============================================================================
