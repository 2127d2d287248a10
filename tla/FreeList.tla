------------------------------ MODULE FreeList ------------------------------
(***************************************************************************)
(* The free list of one chunk as the code keeps it: a vector of ranges,    *)
(* searched from the front, split in place, and sorted and swept after     *)
(* every release.  It is checked against the sets of StagingRanges, on     *)
(* which StagingAllocator is built.                                        *)
(***************************************************************************)
EXTENDS StagingRanges, SequencesExt

CONSTANTS ChunkSize, RequestSizes

ASSUME FreeListAssumption == ChunkSize \in Nat \ {0} /\ RequestSizes \subseteq Nat \ {0}

VARIABLES free_ranges,  \* StagingChunk::free_ranges
          live          \* ranges given out and not yet released

list_vars == <<free_ranges, live>>

AsRange(o, n) == [offset |-> o, size |-> n]

IfNotEmpty(r) == IF r.size = 0 THEN <<>> ELSE <<r>>

\* Mutant of Split: the bytes skipped for alignment are not given back to the list.
Split_LosePadding(r, n) ==
  IfNotEmpty(AsRange(align_up(r.offset) + n, r.size - Padding(r) - n))

\* What the range r becomes when n bytes are cut out of it, in list order.
Split(r, n) ==
  IfNotEmpty(AsRange(r.offset, Padding(r)))
    \o IfNotEmpty(AsRange(align_up(r.offset) + n, r.size - Padding(r) - n))

\* allocate_from_chunk
Allocate(n) ==
  \E i \in DOMAIN free_ranges :
    /\ Fits(free_ranges[i], n)
    /\ \A j \in 1 .. i - 1 : ~Fits(free_ranges[j], n)
    /\ free_ranges' = SubSeq(free_ranges, 1, i - 1)
                        \o Split(free_ranges[i], n)
                        \o SubSeq(free_ranges, i + 1, Len(free_ranges))
    /\ live' = live \union {AsRange(align_up(free_ranges[i].offset), n)}

\* Mutant of SweepStep: ranges that only touch are kept apart.
SweepStep_Strict(done, next) ==
  IF done # <<>> /\ End(Last(done)) > next.offset
  THEN Append(Front(done), AsRange(Last(done).offset,
                                   Max({End(Last(done)), End(next)}) - Last(done).offset))
  ELSE Append(done, next)

\* One round of the merging loop: next joins the last range kept, or follows it.
SweepStep(done, next) ==
  IF done # <<>> /\ End(Last(done)) >= next.offset
  THEN Append(Front(done), AsRange(Last(done).offset,
                                   Max({End(Last(done)), End(next)}) - Last(done).offset))
  ELSE Append(done, next)

\* std::sort by offset; no two offsets are equal, so that there is one order.
Sorted(list) ==
  CHOOSE s \in [DOMAIN list -> ToSet(list)] :
    /\ ToSet(s) = ToSet(list)
    /\ \A i, j \in DOMAIN s : i < j => s[i].offset < s[j].offset

Swept(list) ==
  LET swept[k \in 0 .. Len(list)] ==
        IF k = 0 THEN <<>> ELSE SweepStep(swept[k - 1], list[k])
  IN  swept[Len(list)]

\* merge_chunk_free_ranges
merge_chunk_free_ranges(list) == IF Len(list) < 2 THEN list ELSE Swept(Sorted(list))

\* The free list after the allocations in the vector are given back, one by one.
Released(list, vector) ==
  LET released[k \in 0 .. Len(vector)] ==
        IF k = 0 THEN list
        ELSE merge_chunk_free_ranges(Append(released[k - 1], vector[k]))
  IN  released[Len(vector)]

\* The loop of release_staging_allocations over one vector, in any order the
\* vector may list the allocations.
Release(S) ==
  \E vector \in SetToSeqs(S) :
    /\ free_ranges' = Released(free_ranges, vector)
    /\ live' = live \ S

ListInit ==
  /\ free_ranges = <<AsRange(0, ChunkSize)>>
  /\ live = {}

ListNext ==
  \/ \E n \in RequestSizes : Allocate(n)
  \/ \E S \in SUBSET live : S # {} /\ Release(S)

ListSpec == ListInit /\ [][ListNext]_list_vars

\* The list is sorted and no two ranges touch: without this order first fit would
\* not be the lowest fit, and the set of ranges would not determine the list.
SortedApart ==
  \A i \in 1 .. Len(free_ranges) - 1 : End(free_ranges[i]) < free_ranges[i + 1].offset

FreeSet == ToSet(free_ranges)

\* An allocation cuts the lowest range that fits, exactly as Carve says, and a
\* release leaves the merged form of the old ranges and the released ones, for
\* whatever order the vector lists them in.
FollowsRanges ==
  [][ \/ \E r \in FreeSet, n \in RequestSizes :
            /\ FirstFit(FreeSet, n, r)
            /\ FreeSet' = Carve(FreeSet, r, n)
            /\ live' = live \union {AsRange(align_up(r.offset), n)}
      \/ /\ live' \subseteq live
         /\ FreeSet' = Merge(FreeSet \union (live \ live')) ]_list_vars
=============================================================================
