--------------------------- MODULE Uploads_proofs ---------------------------
(***************************************************************************)
(* Proofs about Uploads, for any number of threads, memories, buffers,     *)
(* regions and cache entries.                                              *)
(* The argument: an entry of the maps that does not stem from a memory     *)
(* freed while mapped is the driver's mapping, so a pointer found through  *)
(* it is right when it is found; whatever makes it wrong later is done to  *)
(* the memory it points into, and disturbs the thread.  And an entry of    *)
(* the cache that no disturbed thread stored has the hash of its texels'   *)
(* source in its key, with the place the source was read at.               *)
(***************************************************************************)
EXTENDS Uploads, SequenceTheorems, WellFoundedInduction, TLAPS

-----------------------------------------------------------------------------
(* The invariant.                                                          *)

Copies == {"resolve", "hash", "decode", "stage"}

\* What the locals of a call hold, step by step.
InOrder(t) ==
  /\ at[t] = "idle" => call[t] = NoCall
  /\ at[t] \in {"track_map", "unmap"} <=> call[t].memory \in Memories
  /\ at[t] \in Copies => /\ call[t].buffer \in Buffers /\ call[t].region \in Regions
                         /\ binding[call[t].buffer] # NoBinding
  /\ at[t] \in {"hash", "decode"} => call[t].address \in Addresses
  /\ at[t] \in {"decode", "stage"} => call[t].hash \in Hash
  /\ at[t] = "stage" => call[t].texels \in Texels

CallsInOrder == \A t \in Threads : InOrder(t)

\* One thread at a time maps or unmaps a memory, and first takes the entry back.
HandledOnce ==
  /\ \A t, u \in Threads :
       call[t].memory = call[u].memory /\ call[t].memory \in Memories => t = u
  /\ \A t \in Threads : at[t] = "unmap" => maps[call[t].memory] = NoMapping

\* The driver maps memory that there is, apart.
MappedApart ==
  /\ \A m \in Memories : mapping[m] # NoMapping => holds[m] # None
  /\ \A m, n \in Memories :
       mapping[m].address = mapping[n].address /\ mapping[m] # NoMapping => m = n

\* What the layer knows of a buffer that is bound and of a memory that is mapped is right.
MapsRight ==
  /\ \A b \in Buffers : binding[b] # NoBinding => bindings[b] = binding[b]
  /\ \A m \in Memories \ orphaned : maps[m] # NoMapping => maps[m] = mapping[m]

\* The hash of a source that nobody touched since is the hash of the buffer's bytes.
HashRight ==
  \A t \in Threads : at[t] = "decode" /\ t \notin disturbed =>
    call[t].hash = <<HashOf[holds[binding[call[t].buffer].memory]], SliceStart(t)>>

\* Texels in the cache have the size and, unless suspect, the source of their key.
EntryRight(entry, S) ==
  /\ entry.texels.width = entry.key.width /\ entry.texels.height = entry.key.height
  /\ entry.key \notin S =>
       entry.key.hash = <<HashOf[entry.texels.source.pattern], entry.texels.source.first>>

CacheRight == \A n \in DOMAIN cache : EntryRight(cache[n], suspect)

IInv ==
  /\ TypeOK
  /\ CallsInOrder
  /\ HandledOnce
  /\ MappedApart
  /\ MapsRight
  /\ ReadsTheBuffer
  /\ HashRight
  /\ UploadsMatchSource
  /\ CacheRight
  /\ CacheWithinLimits

-----------------------------------------------------------------------------
(* The bytes of a sequence of entries.                                     *)

\* A set of naturals has a least one: what stands for induction here.
LEMMA LeastNumber ==
  ASSUME NEW T \in SUBSET Nat, T # {}
  PROVE  \E m \in T : \A k \in T : m <= k
<1> DEFINE R == {ss \in Nat \X Nat : ss[1] < ss[2]}
<1>1. IsWellFoundedOn(R, Nat)
  BY NatLessThanWellFounded DEF OpToRel
<1>2. \A k, m \in Nat : <<k, m>> \notin R => m <= k
  OBVIOUS
<1> HIDE DEF R
<1>3. PICK m \in T : \A k \in T : <<k, m>> \notin R
  BY <1>1, WFMin
<1> QED
  BY <1>2, <1>3

\* An entry has a number of bytes.
LEMMA SizeTyped == \A e \in Entry : SizeOf(e) \in Nat
<1>1. \A w, h \in Nat : w * h \in Nat
  OBVIOUS
<1> QED
  BY <1>1 DEF Entry, Texels, SizeOf

\* The running sums that BytesOf computes.
Sum(s) ==
  CHOOSE sum : sum = [n \in 0 .. Len(s) |-> IF n = 0 THEN 0 ELSE sum[n - 1] + SizeOf(s[n])]

Sums(s, n, f) ==
  /\ f \in [0 .. n -> Nat]
  /\ f[0] = 0
  /\ \A j \in 1 .. n : f[j] = f[j - 1] + SizeOf(s[j])

\* There are such sums.
LEMMA SumsExist ==
  ASSUME NEW s \in Seq(Entry), NEW n \in 0 .. Len(s)
  PROVE  \E f : Sums(s, n, f)
<1> DEFINE Bad == {k \in 0 .. Len(s) : ~\E f : Sums(s, k, f)}
<1>1. Sums(s, 0, [j \in 0 .. 0 |-> 0])
  BY DEF Sums
<1>2. ASSUME NEW k \in 1 .. Len(s), NEW f, Sums(s, k - 1, f)
      PROVE  Sums(s, k, [j \in 0 .. k |-> IF j = k THEN f[k - 1] + SizeOf(s[k]) ELSE f[j]])
  <2>1. SizeOf(s[k]) \in Nat
    BY SizeTyped
  <2>2. f \in [0 .. k - 1 -> Nat] /\ k - 1 \in 0 .. k - 1 /\ k \in Nat \ {0}
    BY <1>2 DEF Sums
  <2> DEFINE g == [j \in 0 .. k |-> IF j = k THEN f[k - 1] + SizeOf(s[k]) ELSE f[j]]
  <2>3. g \in [0 .. k -> Nat]
    BY <2>1, <2>2
  <2>4. g[0] = 0
    BY <1>2, <2>2 DEF Sums
  <2>5. ASSUME NEW j \in 1 .. k PROVE g[j] = g[j - 1] + SizeOf(s[j])
    BY <1>2, <2>2 DEF Sums
  <2> QED
    BY <2>3, <2>4, <2>5 DEF Sums
<1>3. CASE Bad = {}
  BY <1>3
<1>4. CASE Bad # {}
  <2>1. Bad \in SUBSET Nat
    OBVIOUS
  <2> HIDE DEF Bad
  <2>2. PICK k \in Bad : \A j \in Bad : k <= j
    BY <1>4, <2>1, LeastNumber
  <2> USE DEF Bad
  <2>3. k \in 1 .. Len(s) /\ k - 1 \in 0 .. Len(s)
    BY <1>1, <2>2
  <2>4. k - 1 \notin Bad
    BY <2>2, <2>3
  <2> QED
    BY <1>2, <2>2, <2>3, <2>4
<1> QED
  BY <1>3, <1>4

\* The sums, step by step.
LEMMA SumSays ==
  ASSUME NEW s \in Seq(Entry)
  PROVE  Sums(s, Len(s), Sum(s)) /\ BytesOf(s) = Sum(s)[Len(s)]
<1>1. PICK f : Sums(s, Len(s), f)
  BY SumsExist
<1>2. f = [n \in 0 .. Len(s) |-> IF n = 0 THEN 0 ELSE f[n - 1] + SizeOf(s[n])]
  BY <1>1 DEF Sums
<1> DEFINE P(sum) == sum = [n \in 0 .. Len(s) |-> IF n = 0 THEN 0 ELSE sum[n - 1] + SizeOf(s[n])]
           c == Sum(s)
<1>3. P(Sum(s))
  <2>1. \E sum : P(sum)
    BY <1>2
  <2>2. P(CHOOSE sum : P(sum))
    <3> HIDE DEF P
    <3> QED
      BY <2>1
  <2> QED
    BY <2>2 DEF Sum
<1> HIDE DEF c
<1>4. /\ c[0] = 0
      /\ \A n \in 1 .. Len(s) : c[n] = c[n - 1] + SizeOf(s[n])
      /\ DOMAIN c = 0 .. Len(s)
  BY <1>3 DEF c
<1>5. \A n \in 0 .. Len(s) : c[n] = f[n]
  <2> DEFINE Bad == {n \in 0 .. Len(s) : c[n] # f[n]}
  <2>1. SUFFICES Bad = {}
    OBVIOUS
  <2>2. SUFFICES ASSUME Bad # {} PROVE FALSE
    OBVIOUS
  <2>3. Bad \in SUBSET Nat
    OBVIOUS
  <2> HIDE DEF Bad
  <2>4. PICK n \in Bad : \A j \in Bad : n <= j
    BY <2>2, <2>3, LeastNumber
  <2> USE DEF Bad
  <2>5. n \in 1 .. Len(s) /\ n - 1 \in 0 .. Len(s)
    BY <1>1, <1>4, <2>4 DEF Sums
  <2>6. c[n - 1] = f[n - 1]
    BY <2>4, <2>5
  <2> QED
    BY <1>1, <1>4, <2>4, <2>5, <2>6 DEF Sums
<1>6. c = f
  BY <1>1, <1>4, <1>5, <1>3 DEF Sums, c
<1>7. BytesOf(s) = Sum(s)[Len(s)]
  BY DEF BytesOf, Sum
<1> QED
  BY <1>1, <1>6, <1>7 DEF c

Agree(s, a, q, b, n) ==
  /\ a + n <= Len(s) /\ b + n <= Len(q)
  /\ \A j \in 1 .. n : s[a + j] = q[b + j]

\* Sums over the same entries grow by the same.
LEMMA SumsAgree ==
  ASSUME NEW s \in Seq(Entry), NEW q \in Seq(Entry), NEW a \in Nat, NEW b \in Nat, NEW n \in Nat,
         Agree(s, a, q, b, n)
  PROVE  Sum(s)[a + n] - Sum(s)[a] = Sum(q)[b + n] - Sum(q)[b]
<1> DEFINE f == Sum(s)
           g == Sum(q)
           Bad == {j \in 0 .. n : f[a + j] - f[a] # g[b + j] - g[b]}
<1>0. /\ a + n <= Len(s) /\ b + n <= Len(q)
      /\ \A j \in 1 .. n : s[a + j] = q[b + j]
  BY DEF Agree
<1>1. SUFFICES ASSUME Bad # {} PROVE FALSE
  <2>1. n \in 0 .. n
    OBVIOUS
  <2> HIDE DEF f, g
  <2>2. Bad = {} => f[a + n] - f[a] = g[b + n] - g[b]
    BY <2>1
  <2> QED
    BY <2>2 DEF f, g
<1>2. /\ f \in [0 .. Len(s) -> Nat] /\ g \in [0 .. Len(q) -> Nat]
      /\ \A j \in 1 .. Len(s) : f[j] = f[j - 1] + SizeOf(s[j])
      /\ \A j \in 1 .. Len(q) : g[j] = g[j - 1] + SizeOf(q[j])
      /\ Len(s) \in Nat /\ Len(q) \in Nat
  BY SumSays DEF Sums
<1> HIDE DEF f, g
<1>3. Bad \in SUBSET Nat
  OBVIOUS
<1> HIDE DEF Bad
<1>4. PICK j \in Bad : \A i \in Bad : j <= i
  BY <1>1, <1>3, LeastNumber
<1>5. j \in 0 .. n /\ f[a + j] - f[a] # g[b + j] - g[b]
  BY <1>4 DEF Bad
<1>6. /\ \A i \in 0 .. n : a + i \in 0 .. Len(s) /\ b + i \in 0 .. Len(q)
      /\ a + 0 = a /\ b + 0 = b /\ a \in 0 .. Len(s) /\ b \in 0 .. Len(q)
  BY <1>0, <1>2
<1>7. f[a] \in Nat /\ g[b] \in Nat
  BY <1>2, <1>6
<1>8. j # 0
  BY <1>5, <1>6, <1>7
<1>9. j - 1 \in 0 .. n /\ j - 1 \notin Bad /\ j \in 1 .. n
  BY <1>4, <1>5, <1>8
<1>10. f[a + (j - 1)] - f[a] = g[b + (j - 1)] - g[b]
  BY <1>9 DEF Bad
<1>11. PICK x \in 1 .. Len(s) : x = a + j /\ x - 1 = a + (j - 1)
  BY <1>0, <1>2, <1>9
<1>12. PICK y \in 1 .. Len(q) : y = b + j /\ y - 1 = b + (j - 1)
  BY <1>0, <1>2, <1>9
<1>13. /\ f[x] = f[x - 1] + SizeOf(s[x]) /\ f[x - 1] \in Nat /\ SizeOf(s[x]) \in Nat
       /\ g[y] = g[y - 1] + SizeOf(q[y]) /\ g[y - 1] \in Nat
  <2>1. x - 1 \in 0 .. Len(s) /\ y - 1 \in 0 .. Len(q)
    BY <1>2
  <2>2. f[x - 1] \in Nat /\ g[y - 1] \in Nat
    BY <1>2, <2>1
  <2>3. f[x] = f[x - 1] + SizeOf(s[x]) /\ g[y] = g[y - 1] + SizeOf(q[y])
    BY <1>2
  <2>4. SizeOf(s[x]) \in Nat
    BY SizeTyped
  <2> QED
    BY <2>2, <2>3, <2>4
<1>14. s[x] = q[y]
  BY <1>0, <1>9, <1>11, <1>12
<1>15. f[x] - f[a] # g[y] - g[b] /\ f[x - 1] - f[a] = g[y - 1] - g[b]
  BY <1>5, <1>10, <1>11, <1>12
<1> HIDE DEF Bad
<1>16. SizeOf(s[x]) = SizeOf(q[y])
  BY <1>14
<1>17. PICK k \in Nat, l \in Nat, u \in Nat, v \in Nat, z \in Nat :
          /\ k = f[x - 1] /\ l = g[y - 1] /\ u = f[a] /\ v = g[b] /\ z = SizeOf(s[x])
  BY <1>7, <1>13
<1>18. k - u = l - v /\ (k + z) - u # (l + z) - v
  BY <1>13, <1>15, <1>16, <1>17
<1> QED
  BY <1>18

\* The bytes of all are no negative number.
LEMMA BytesTyped ==
  ASSUME NEW s \in Seq(Entry)
  PROVE  /\ BytesOf(s) \in Nat
         /\ \A k \in 0 .. Len(s) : Sum(s)[k] \in Nat
         /\ Sum(s)[0] = 0
<1>1. /\ Sum(s) \in [0 .. Len(s) -> Nat] /\ Sum(s)[0] = 0
      /\ BytesOf(s) = Sum(s)[Len(s)] /\ Len(s) \in 0 .. Len(s)
  BY SumSays DEF Sums
<1> QED
  BY <1>1

\* A part of a sequence has the sum of its entries.
LEMMA PartSays ==
  ASSUME NEW s \in Seq(Entry), NEW a \in 0 .. Len(s), NEW b \in a .. Len(s)
  PROVE  /\ SubSeq(s, a + 1, b) \in Seq(Entry) /\ Len(SubSeq(s, a + 1, b)) = b - a
         /\ \A i \in 1 .. b - a : SubSeq(s, a + 1, b)[i] = s[a + i]
         /\ BytesOf(SubSeq(s, a + 1, b)) = Sum(s)[b] - Sum(s)[a]
<1> DEFINE q == SubSeq(s, a + 1, b)
<1>1. q \in Seq(Entry) /\ Len(q) = b - a /\ \A i \in 1 .. b - a : q[i] = s[a + i]
  <2>1. \A i \in a + 1 .. b : s[i] \in Entry
    OBVIOUS
  <2>2. /\ q \in Seq(Entry) /\ Len(q) = IF a + 1 <= b THEN b - (a + 1) + 1 ELSE 0
        /\ \A i \in 1 .. b - (a + 1) + 1 : q[i] = s[(a + 1) + i - 1]
    BY <2>1, SubSeqProperties
  <2> QED
    BY <2>2
<1> HIDE DEF q
<1> DEFINE n == b - a
<1>2. /\ n \in Nat /\ a \in Nat /\ 0 \in Nat /\ a + n <= Len(s) /\ 0 + n <= Len(q)
      /\ \A j \in 1 .. n : s[a + j] = q[0 + j]
      /\ a + n = b /\ 0 + n = n
  BY <1>1
<1> HIDE DEF n
<1>3. Sum(s)[b] - Sum(s)[a] = Sum(q)[n] - Sum(q)[0]
  <2>1. Sum(s)[a + n] - Sum(s)[a] = Sum(q)[0 + n] - Sum(q)[0]
    <3>1. Agree(s, a, q, 0, n)
      BY <1>2 DEF Agree
    <3> QED
      BY <1>1, <1>2, <3>1, SumsAgree
  <2> QED
    BY <1>2, <2>1
<1>4. Sum(q)[0] = 0 /\ Sum(q)[n] \in Nat /\ BytesOf(q) = Sum(q)[n]
  BY <1>1, BytesTyped, SumSays DEF n
<1>5. Sum(s)[b] - Sum(s)[a] = BytesOf(q)
  BY <1>3, <1>4
<1> QED
  BY <1>1, <1>5 DEF q

\* Sequences that begin alike.
LEMMA SumsBegin ==
  ASSUME NEW s \in Seq(Entry), NEW q \in Seq(Entry), NEW n \in Nat, n <= Len(s), n <= Len(q),
         \A j \in 1 .. n : s[j] = q[j]
  PROVE  Sum(s)[n] = Sum(q)[n]
<1>1. /\ 0 \in Nat /\ 0 + n <= Len(s) /\ 0 + n <= Len(q) /\ 0 + n = n
      /\ \A j \in 1 .. n : s[0 + j] = q[0 + j]
  OBVIOUS
<1>2. Sum(s)[n] - Sum(s)[0] = Sum(q)[n] - Sum(q)[0]
  <2>1. Sum(s)[0 + n] - Sum(s)[0] = Sum(q)[0 + n] - Sum(q)[0]
    <3>1. Agree(s, 0, q, 0, n)
      BY <1>1 DEF Agree
    <3> QED
      BY <1>1, <3>1, SumsAgree
  <2> QED
    BY <1>1, <2>1
<1>3. Sum(s)[0] = 0 /\ Sum(q)[0] = 0 /\ Sum(s)[n] \in Nat /\ Sum(q)[n] \in Nat
  BY BytesTyped
<1> QED
  BY <1>2, <1>3

\* One entry more.
LEMMA BytesOfAppend ==
  ASSUME NEW s \in Seq(Entry), NEW e \in Entry
  PROVE  /\ Append(s, e) \in Seq(Entry) /\ Len(Append(s, e)) = Len(s) + 1
         /\ \A i \in 1 .. Len(s) : Append(s, e)[i] = s[i]
         /\ Append(s, e)[Len(s) + 1] = e
         /\ BytesOf(Append(s, e)) = BytesOf(s) + SizeOf(e)
         /\ Sum(Append(s, e))[Len(s)] = BytesOf(s)
<1> DEFINE q == Append(s, e)
<1>1. /\ q \in Seq(Entry) /\ Len(q) = Len(s) + 1
      /\ \A i \in 1 .. Len(s) : q[i] = s[i]
      /\ q[Len(s) + 1] = e /\ Len(s) \in Nat
  BY AppendProperties
<1> HIDE DEF q
<1>2. Len(s) <= Len(s) /\ Len(s) <= Len(q) /\ \A i \in 1 .. Len(s) : s[i] = q[i]
  BY <1>1
<1>5. Sum(q)[Len(s)] = BytesOf(s)
  BY <1>1, <1>2, SumsBegin, SumSays
<1>6. Sum(q)[Len(s) + 1] = Sum(q)[Len(s) + 1 - 1] + SizeOf(q[Len(s) + 1])
  <2>1. Len(s) + 1 \in 1 .. Len(q)
    BY <1>1
  <2> QED
    BY <1>1, <2>1, SumSays DEF Sums
<1>7. BytesOf(q) = Sum(q)[Len(s) + 1] /\ Len(s) + 1 - 1 = Len(s)
  BY <1>1, SumSays
<1> QED
  BY <1>1, <1>5, <1>6, <1>7 DEF q

\* One entry fewer.
LEMMA BytesOfRemove ==
  ASSUME NEW s \in Seq(Entry), NEW i \in 1 .. Len(s)
  PROVE  /\ RemoveAt(s, i) \in Seq(Entry) /\ Len(RemoveAt(s, i)) = Len(s) - 1
         /\ \A j \in 1 .. Len(s) - 1 : RemoveAt(s, i)[j] = IF j < i THEN s[j] ELSE s[j + 1]
         /\ BytesOf(RemoveAt(s, i)) = BytesOf(s) - SizeOf(s[i])
<1> DEFINE r == RemoveAt(s, i)
           n == Len(s)
           front == SubSeq(s, 1, i - 1)
           back == SubSeq(s, i + 1, n)
<1>0. n \in Nat \ {0} /\ i \in 1 .. n /\ i - 1 \in 0 .. n /\ n - i \in 0 .. n /\ n - 1 \in Nat
  OBVIOUS
<1>1. front \in Seq(Entry) /\ Len(front) = i - 1 /\ \A j \in 1 .. i - 1 : front[j] = s[j]
  <2>1. /\ SubSeq(s, 0 + 1, i - 1) \in Seq(Entry) /\ Len(SubSeq(s, 0 + 1, i - 1)) = (i - 1) - 0
        /\ \A j \in 1 .. (i - 1) - 0 : SubSeq(s, 0 + 1, i - 1)[j] = s[0 + j]
    BY <1>0, PartSays
  <2> QED
    BY <1>0, <2>1
<1>2. back \in Seq(Entry) /\ Len(back) = n - i /\ \A j \in 1 .. n - i : back[j] = s[i + j]
  BY <1>0, PartSays
<1>3. r = front \o back
  BY DEF RemoveAt
<1> HIDE DEF front, back, r
<1>4. /\ r \in Seq(Entry) /\ Len(r) = Len(front) + Len(back)
      /\ \A j \in 1 .. Len(front) + Len(back) :
           r[j] = IF j <= Len(front) THEN front[j] ELSE back[j - Len(front)]
  BY <1>1, <1>2, <1>3, ConcatProperties
<1>13. /\ r \in Seq(Entry) /\ Len(r) = (i - 1) + (n - i)
      /\ \A j \in 1 .. (i - 1) + (n - i) : r[j] = IF j <= i - 1 THEN front[j] ELSE back[j - (i - 1)]
  BY <1>1, <1>2, <1>4
<1>5. Len(r) = n - 1
  BY <1>0, <1>13
<1>6. ASSUME NEW j \in 1 .. n - 1 PROVE r[j] = IF j < i THEN s[j] ELSE s[j + 1]
  <2>1. j \in 1 .. (i - 1) + (n - i)
    BY <1>0
  <2>2. CASE j < i
    BY <1>0, <1>1, <1>13, <2>1, <2>2
  <2>3. CASE i <= j
    <3>1. j - (i - 1) \in 1 .. n - i /\ i + (j - (i - 1)) = j + 1 /\ ~(j <= i - 1)
      BY <1>0, <2>3
    <3>2. r[j] = back[j - (i - 1)]
      BY <1>13, <2>1, <3>1
    <3> QED
      BY <1>0, <1>2, <2>3, <3>1, <3>2
  <2> QED
    BY <1>0, <2>2, <2>3
<1>7. Sum(s)[i - 1] = Sum(r)[i - 1]
  <2>1. \A j \in 1 .. i - 1 : s[j] = r[j]
    BY <1>0, <1>6
  <2>2. i - 1 \in Nat /\ i - 1 <= n /\ i - 1 <= Len(r)
    BY <1>0, <1>5
  <2> HIDE DEF n
  <2> QED
    BY <1>4, <2>1, <2>2, SumsBegin DEF n
<1>9. Sum(s)[n] - Sum(s)[i] = Sum(r)[n - 1] - Sum(r)[i - 1]
  <2> DEFINE a == i - 1
             m == n - i
  <2>1. \A j \in 1 .. m : s[i + j] = r[a + j]
    <3>1. ASSUME NEW j \in 1 .. m PROVE s[i + j] = r[a + j]
      <4>1. a + j \in 1 .. n - 1 /\ ~(a + j < i) /\ a + j + 1 = i + j
        BY <1>0
      <4> QED
        BY <1>6, <4>1
    <3> QED
      BY <3>1
  <2>2. /\ i \in Nat /\ a \in Nat /\ m \in Nat /\ i + m <= Len(s) /\ a + m <= Len(r)
    BY <1>0, <1>5
  <2>4. i + m = n /\ a + m = n - 1
    BY <1>0
  <2>5. r \in Seq(Entry)
    BY <1>4
  <2> HIDE DEF a, m
  <2>3. Sum(s)[i + m] - Sum(s)[i] = Sum(r)[a + m] - Sum(r)[a]
    <3>1. Agree(s, i, r, a, m)
      BY <2>1, <2>2 DEF Agree
    <3> QED
      BY <2>2, <2>5, <3>1, SumsAgree
  <2> QED
    BY <2>3, <2>4 DEF a
<1>10. /\ Sum(s)[0] = 0 /\ Sum(r)[0] = 0
       /\ Sum(s)[i - 1] \in Nat /\ Sum(s)[i] \in Nat /\ Sum(s)[n] \in Nat
       /\ Sum(r)[i - 1] \in Nat /\ Sum(r)[n - 1] \in Nat
       /\ Sum(s)[i] = Sum(s)[i - 1] + SizeOf(s[i])
       /\ BytesOf(s) = Sum(s)[n] /\ BytesOf(r) = Sum(r)[n - 1]
  <2>1. /\ Sum(s) \in [0 .. n -> Nat] /\ Sum(r) \in [0 .. n - 1 -> Nat]
        /\ BytesOf(s) = Sum(s)[n] /\ BytesOf(r) = Sum(r)[n - 1]
        /\ Sum(s)[0] = 0 /\ Sum(r)[0] = 0
        /\ \A j \in 1 .. n : Sum(s)[j] = Sum(s)[j - 1] + SizeOf(s[j])
    BY <1>4, <1>5, SumSays DEF Sums
  <2>2. /\ i - 1 \in 0 .. n /\ i \in 0 .. n /\ n \in 0 .. n
        /\ i - 1 \in 0 .. n - 1 /\ n - 1 \in 0 .. n - 1
    BY <1>0
  <2> QED
    BY <1>0, <2>1, <2>2
<1>11. SizeOf(s[i]) \in Nat
  BY SizeTyped
<1>12. BytesOf(r) = BytesOf(s) - SizeOf(s[i])
  <2>1. PICK u \in Nat, v \in Nat, w \in Nat, x \in Nat, y \in Nat, z \in Nat :
          /\ u = Sum(s)[i - 1] /\ v = Sum(s)[i] /\ w = Sum(s)[n]
          /\ x = Sum(r)[i - 1] /\ y = Sum(r)[n - 1] /\ z = SizeOf(s[i])
    BY <1>10, <1>11
  <2>2. u = x /\ w - v = y - x /\ v = u + z /\ BytesOf(s) = w /\ BytesOf(r) = y
    BY <1>7, <1>9, <1>10, <2>1
  <2>3. y = w - z
    BY <2>2
  <2> QED
    BY <2>1, <2>2, <2>3
<1> QED
  BY <1>4, <1>5, <1>6, <1>12 DEF r

-----------------------------------------------------------------------------
(* The cache.                                                              *)

\* Once the first k entries are gone the rest fits, or all are gone.
Drops(q, total, k) == total - BytesOf(SubSeq(q, 1, k)) <= MaxBytes \/ k = Len(q)

\* The oldest entries go, as few as will do, and the count is that of the others.
LEMMA PrunedSays ==
  ASSUME NEW q \in Seq(Entry)
  PROVE  \E n \in 0 .. Len(q) : LET p == Pruned(q, BytesOf(q)) IN
           /\ p.entries \in Seq(Entry) /\ Len(p.entries) = Len(q) - n
           /\ \A i \in 1 .. Len(q) - n : p.entries[i] = q[n + i]
           /\ p.total = BytesOf(p.entries) /\ p.total <= MaxBytes
           /\ BytesOf(q) <= MaxBytes => n = 0
           /\ Len(q) # 0 /\ SizeOf(q[Len(q)]) <= MaxBytes => n < Len(q)
<1> DEFINE L == Len(q)
           total == BytesOf(q)
           T == {k \in 0 .. Len(q) :
                   total - BytesOf(SubSeq(q, 1, k)) <= MaxBytes \/ k = Len(q)}
           n == Evicted(q, total)
           p == Pruned(q, total)
<1>1. L \in Nat /\ total \in Nat /\ MaxBytes \in Nat /\ L \in 0 .. L
  BY BytesTyped, UploadsAssumption
<1>2. T \in SUBSET Nat /\ L \in T
  BY <1>1
<1>3. n \in T /\ \A k \in T : n <= k
  <2>1. n = Min(T)
    BY DEF Evicted
  <2> HIDE DEF T, n
  <2>2. \E m \in T : \A k \in T : m <= k
    BY <1>2, LeastNumber
  <2> QED
    BY <2>1, <2>2 DEF Min
<1>4. p = [entries |-> SubSeq(q, n + 1, L), total |-> total - BytesOf(SubSeq(q, 1, n))]
  <2>1. \A s, x : Pruned(s, x) = [entries |-> SubSeq(s, Evicted(s, x) + 1, Len(s)),
                                 total |-> x - BytesOf(SubSeq(s, 1, Evicted(s, x)))]
    BY DEF Pruned
  <2> QED
    BY <2>1
<1>5. p.entries = SubSeq(q, n + 1, L) /\ p.total = total - BytesOf(SubSeq(q, 1, n))
  <2> HIDE DEF n, p, total
  <2> QED
    BY <1>4
<1> HIDE DEF n, p
<1>6. n \in 0 .. L /\ Drops(q, total, n)
  BY <1>3 DEF Drops
<1>7. \A k \in 0 .. L : BytesOf(SubSeq(q, 1, k)) = Sum(q)[k] /\ Sum(q)[k] \in Nat
  <2>1. ASSUME NEW k \in 0 .. L PROVE BytesOf(SubSeq(q, 1, k)) = Sum(q)[k] /\ Sum(q)[k] \in Nat
    <3>1. 0 \in 0 .. Len(q) /\ k \in 0 .. Len(q) /\ 0 + 1 = 1
      BY <1>1
    <3>2. BytesOf(SubSeq(q, 0 + 1, k)) = Sum(q)[k] - Sum(q)[0]
      BY <3>1, PartSays
    <3>3. Sum(q)[k] \in Nat /\ Sum(q)[0] = 0
      BY <3>1, BytesTyped
    <3> QED
      BY <3>1, <3>2, <3>3
  <2> QED
    BY <2>1
<1>8. /\ p.entries \in Seq(Entry) /\ Len(p.entries) = L - n
      /\ \A i \in 1 .. L - n : p.entries[i] = q[n + i]
      /\ BytesOf(p.entries) = Sum(q)[L] - Sum(q)[n]
  <2>1. n \in 0 .. Len(q) /\ L \in n .. Len(q)
    BY <1>1, <1>6
  <2> QED
    BY <1>5, <2>1, PartSays
<1>9. Sum(q)[L] = total
  BY SumSays
<1>10. p.total = BytesOf(p.entries)
  BY <1>5, <1>6, <1>7, <1>8, <1>9
<1>11. p.total <= MaxBytes
  <2>1. CASE total - BytesOf(SubSeq(q, 1, n)) <= MaxBytes
    BY <1>5, <2>1
  <2>2. CASE n = L
    <3>1. p.total = total - total
      BY <1>5, <1>6, <1>7, <1>9, <2>2
    <3> QED
      BY <1>1, <3>1
  <2> QED
    BY <1>6, <2>1, <2>2 DEF Drops
<1>12. ASSUME total <= MaxBytes PROVE n = 0
  <2>1. BytesOf(SubSeq(q, 1, 0)) = 0
    BY <1>1, <1>7, BytesTyped
  <2>2. Drops(q, total, 0)
    BY <1>1, <1>12, <2>1 DEF Drops
  <2>3. 0 \in T
    BY <1>1, <2>2 DEF Drops
  <2> QED
    BY <1>3, <1>6, <2>3
<1>13. ASSUME L # 0, SizeOf(q[L]) <= MaxBytes PROVE n < L
  <2>1. L \in 1 .. L /\ L - 1 \in 0 .. L
    BY <1>1, <1>13
  <2>2. Sum(q)[L] = Sum(q)[L - 1] + SizeOf(q[L]) /\ SizeOf(q[L]) \in Nat
    BY <2>1, SumSays, SizeTyped DEF Sums
  <2>3. PICK u \in Nat, v \in Nat, z \in Nat :
          u = Sum(q)[L] /\ v = Sum(q)[L - 1] /\ z = SizeOf(q[L])
    BY <1>1, <1>7, <2>1, <2>2
  <2>4. total - BytesOf(SubSeq(q, 1, L - 1)) = u - v /\ u = v + z
    BY <1>7, <1>9, <2>1, <2>2, <2>3
  <2>5. Drops(q, total, L - 1)
    BY <1>1, <1>13, <2>3, <2>4 DEF Drops
  <2>6. L - 1 \in T
    BY <2>1, <2>5 DEF Drops
  <2> QED
    BY <1>1, <1>3, <1>6, <2>6
<1> QED
  BY <1>6, <1>8, <1>10, <1>11, <1>12, <1>13 DEF p

\* The keys of different entries differ.
KeysApart(entries) ==
  \A i, j \in DOMAIN entries : entries[i].key = entries[j].key => i = j

\* The others are what is left when the entry at P, if there is one, is taken out.
Without(k, P) ==
  /\ Others(k) \in Seq(Entry)
  /\ k \in Keys => P \in 1 .. Len(cache) /\ cache[P].key = k /\ EntryOf(k) = cache[P]
  /\ k \notin Keys => P = Len(cache) + 1
  /\ P \in Nat
  /\ \A i \in 1 .. Len(Others(k)) :
       /\ i < P => i \in 1 .. Len(cache) /\ Others(k)[i] = cache[i]
       /\ P <= i => i + 1 \in 1 .. Len(cache) /\ Others(k)[i] = cache[i + 1]
  /\ \A j \in 1 .. Len(cache) :
       /\ j < P => j \in 1 .. Len(Others(k)) /\ Others(k)[j] = cache[j]
       /\ P < j => j - 1 \in 1 .. Len(Others(k)) /\ Others(k)[j - 1] = cache[j]
  /\ BytesOf(Others(k)) = BytesOf(cache) - (IF k \in Keys THEN SizeOf(EntryOf(k)) ELSE 0)

\* The entries but the one under k.
LEMMA OthersSays ==
  ASSUME cache \in Seq(Entry), NEW k
  PROVE  \E P : Without(k, P)
<1>0. Len(cache) \in Nat /\ DOMAIN cache = 1 .. Len(cache)
  OBVIOUS
<1>1. CASE k \in Keys
  <2> DEFINE P == Position(k)
             r == RemoveAt(cache, P)
             n == Len(cache)
  <2>1. P \in 1 .. n /\ cache[P].key = k
    BY <1>0, <1>1 DEF Position, Keys
  <2>2. Others(k) = r /\ EntryOf(k) = cache[P]
    BY <1>1 DEF Others, EntryOf
  <2> HIDE DEF P
  <2>3. /\ r \in Seq(Entry) /\ Len(r) = n - 1
        /\ \A j \in 1 .. n - 1 : r[j] = IF j < P THEN cache[j] ELSE cache[j + 1]
        /\ BytesOf(r) = BytesOf(cache) - SizeOf(cache[P])
    BY <2>1, BytesOfRemove
  <2> HIDE DEF r
  <2>4. ASSUME NEW i \in 1 .. n - 1
        PROVE  /\ i < P => i \in 1 .. n /\ r[i] = cache[i]
               /\ P <= i => i + 1 \in 1 .. n /\ r[i] = cache[i + 1]
    BY <1>0, <2>1, <2>3
  <2>5. ASSUME NEW j \in 1 .. n
        PROVE  /\ j < P => j \in 1 .. n - 1 /\ r[j] = cache[j]
               /\ P < j => j - 1 \in 1 .. n - 1 /\ r[j - 1] = cache[j]
    <3>1. CASE j < P
      BY <1>0, <2>1, <2>3, <3>1
    <3>2. CASE P < j
      <4>1. j - 1 \in 1 .. n - 1 /\ ~(j - 1 < P) /\ (j - 1) + 1 = j
        BY <1>0, <2>1, <3>2
      <4> QED
        BY <2>3, <3>2, <4>1, <2>1
    <3>3. CASE j = P
      BY <2>1, <3>3
    <3> QED
      BY <1>0, <2>1, <3>1, <3>2, <3>3
  <2> QED
    BY <1>1, <2>1, <2>2, <2>3, <2>4, <2>5 DEF Without
<1>2. CASE k \notin Keys
  <2>1. Others(k) = cache
    BY <1>2 DEF Others
  <2>2. BytesOf(cache) - 0 = BytesOf(cache)
    BY BytesTyped
  <2>3. \A i \in 1 .. Len(cache) : i < Len(cache) + 1 /\ ~(Len(cache) + 1 <= i)
    BY <1>0
  <2>4. Len(cache) + 1 \in Nat /\ \A j \in 1 .. Len(cache) : ~(Len(cache) + 1 < j)
    BY <1>0
  <2> QED
    BY <1>2, <2>1, <2>2, <2>3, <2>4 DEF Without
<1> QED
  BY <1>1, <1>2

\* With e, whose key is k, put last.
Appended(e, P, L, q) ==
  /\ q \in Seq(Entry) /\ Len(q) = L + 1 /\ L \in Nat /\ q[L + 1] = e
  /\ BytesOf(q) = BytesOf(Others(e.key)) + SizeOf(e)
  /\ KeysApart(q)
  /\ \A i \in 1 .. L : q[i].key # e.key /\ \E j \in 1 .. Len(cache) : q[i] = cache[j]
  /\ \A j \in 1 .. Len(cache) :
       /\ cache[j].key = e.key <=> j = P
       /\ j < P => j \in 1 .. L /\ q[j] = cache[j]
       /\ P < j => j - 1 \in 1 .. L /\ q[j - 1] = cache[j]

\* An entry put last stands alone under its key.
LEMMA AppendedSays ==
  ASSUME cache \in Seq(Entry), KeysApart(cache), NEW e \in Entry, NEW P, Without(e.key, P)
  PROVE  Appended(e, P, Len(Others(e.key)), Append(Others(e.key), e))
<1> DEFINE k == e.key
           o == Others(k)
           q == Append(o, e)
           L == Len(o)
<1>1. SizeOf(e) \in Nat
  BY SizeTyped
<1>3. o \in Seq(Entry) /\ P \in Nat
  BY DEF Without
<1>4. /\ q \in Seq(Entry) /\ Len(q) = L + 1 /\ L \in Nat
      /\ \A i \in 1 .. L : q[i] = o[i]
      /\ q[L + 1] = e
      /\ BytesOf(q) = BytesOf(o) + SizeOf(e)
  <2> HIDE DEF o
  <2> QED
    BY <1>1, <1>3, BytesOfAppend
<1> HIDE DEF k, o, L, q
<1>10. ASSUME NEW i \in 1 .. L
       PROVE  /\ i < P => i \in 1 .. Len(cache) /\ q[i] = cache[i]
              /\ P <= i => i + 1 \in 1 .. Len(cache) /\ q[i] = cache[i + 1]
  BY <1>4 DEF Without, k, o, L
<1>11. ASSUME NEW j \in 1 .. Len(cache)
       PROVE  /\ j < P => j \in 1 .. L /\ q[j] = cache[j]
              /\ P < j => j - 1 \in 1 .. L /\ q[j - 1] = cache[j]
  BY <1>4 DEF Without, k, o, L
<1>12. /\ Len(cache) \in Nat /\ DOMAIN cache = 1 .. Len(cache)
       /\ \A j \in 1 .. Len(cache) : cache[j].key = k <=> j = P
  <2>1. Len(cache) \in Nat /\ DOMAIN cache = 1 .. Len(cache)
    OBVIOUS
  <2>2. CASE k \in Keys
    BY <2>1, <2>2 DEF Without, KeysApart, k
  <2>3. CASE k \notin Keys
    BY <2>1, <2>3 DEF Without, Keys, k
  <2> QED
    BY <2>1, <2>2, <2>3
<1>13. ASSUME NEW i \in 1 .. L, NEW j \in 1 .. L, q[i].key = q[j].key
       PROVE  i = j
  <2>1. CASE i < P /\ j < P
    BY <1>10, <1>12, <1>13, <2>1 DEF KeysApart
  <2>2. CASE i < P /\ P <= j
    <3>1. i \in DOMAIN cache /\ j + 1 \in DOMAIN cache /\ cache[i].key = cache[j + 1].key
      BY <1>10, <1>12, <1>13, <2>2
    <3>2. i = j + 1
      BY <3>1 DEF KeysApart
    <3> QED
      BY <1>3, <2>2, <3>2
  <2>3. CASE P <= i /\ j < P
    <3>1. i + 1 \in DOMAIN cache /\ j \in DOMAIN cache /\ cache[i + 1].key = cache[j].key
      BY <1>10, <1>12, <1>13, <2>3
    <3>2. i + 1 = j
      BY <3>1 DEF KeysApart
    <3> QED
      BY <1>3, <2>3, <3>2
  <2>4. CASE P <= i /\ P <= j
    <3>1. i + 1 = j + 1
      BY <1>10, <1>12, <1>13, <2>4 DEF KeysApart
    <3> QED
      BY <3>1
  <2> QED
    BY <1>3, <2>1, <2>2, <2>3, <2>4
<1>14. \A i \in 1 .. L : q[i].key # k /\ \E j \in 1 .. Len(cache) : q[i] = cache[j]
  <2>1. ASSUME NEW i \in 1 .. L PROVE q[i].key # k /\ \E j \in 1 .. Len(cache) : q[i] = cache[j]
    <3>1. CASE i < P
      BY <1>3, <1>10, <1>12, <3>1
    <3>2. CASE P <= i
      <4>1. i + 1 # P
        BY <1>3, <3>2
      <4> QED
        BY <1>10, <1>12, <3>2, <4>1
    <3> QED
      BY <1>3, <3>1, <3>2
  <2> QED
    BY <2>1
<1>15. KeysApart(q)
  <2>1. ASSUME NEW x \in 1 .. L + 1, NEW y \in 1 .. L + 1, q[x].key = q[y].key
        PROVE  x = y
    <3>1. q[L + 1].key = k
      BY <1>4 DEF k
    <3>2. CASE x = L + 1 \/ y = L + 1
      BY <1>4, <1>14, <2>1, <3>1, <3>2
    <3>3. CASE x # L + 1 /\ y # L + 1
      <4>1. x \in 1 .. L /\ y \in 1 .. L
        BY <1>4, <3>3
      <4> QED
        BY <1>13, <2>1, <4>1
    <3> QED
      BY <3>2, <3>3
  <2>2. DOMAIN q = 1 .. L + 1
    BY <1>4
  <2> QED
    BY <2>1, <2>2 DEF KeysApart
<1> QED
  BY <1>4, <1>11, <1>12, <1>14, <1>15 DEF Appended, k, o, q, L

\* What there is once texels are stored under k.
Kept(k, texels) ==
  LET entries == StoredUnder(k, texels).entries
      total == StoredUnder(k, texels).total
      e == [key |-> k, texels |-> texels]
  IN /\ entries \in Seq(Entry) /\ total = BytesOf(entries) /\ total <= MaxBytes
     /\ KeysApart(entries)
     /\ \A i \in DOMAIN entries :
          \/ entries[i] = e
          \/ entries[i].key # k /\ \E j \in DOMAIN cache : entries[i] = cache[j]
     /\ \E i \in DOMAIN entries : entries[i] = e
     /\ \A i, j \in DOMAIN cache :
          i < j /\ cache[i] \in ToSet(entries) /\ cache[j].key # k => cache[j] \in ToSet(entries)

\* A store keeps the cache in order.
LEMMA StoredSays ==
  ASSUME cache \in Seq(Entry), KeysApart(cache), bytes = BytesOf(cache), bytes <= MaxBytes,
         NEW k \in Key, NEW texels \in Texels,
         SizeOf([key |-> k, texels |-> texels]) <= MaxEntryBytes
  PROVE  Kept(k, texels)
<1> DEFINE e == [key |-> k, texels |-> texels]
           o == Others(k)
           q == Append(o, e)
           L == Len(o)
           after == StoredUnder(k, texels)
           s == after.entries
<1>1. e \in Entry /\ e.key = k /\ SizeOf(e) \in Nat
  BY SizeTyped DEF Entry
<1>2. PICK P : Without(k, P)
  BY OthersSays
<1>3. o \in Seq(Entry) /\ P \in Nat
  BY <1>2 DEF Without
<1>10. Appended(e, P, L, q)
  BY <1>1, <1>2, AppendedSays
<1>4. /\ q \in Seq(Entry) /\ Len(q) = L + 1 /\ L \in Nat
      /\ q[L + 1] = e
      /\ BytesOf(q) = BytesOf(o) + SizeOf(e)
  BY <1>1, <1>10 DEF Appended
<1>5. after = Pruned(q, BytesOf(q))
  <2>1. after = Pruned(q, bytes - (IF k \in Keys THEN SizeOf(EntryOf(k)) ELSE 0) + SizeOf(e))
    BY DEF StoredUnder
  <2>2. BytesOf(o) = bytes - (IF k \in Keys THEN SizeOf(EntryOf(k)) ELSE 0)
    BY <1>2 DEF Without
  <2> QED
    BY <1>4, <2>1, <2>2
<1> HIDE DEF e, q, after
<1>6. PICK n \in 0 .. Len(q) :
           /\ s \in Seq(Entry) /\ Len(s) = Len(q) - n
           /\ \A i \in 1 .. Len(q) - n : s[i] = q[n + i]
           /\ after.total = BytesOf(s) /\ after.total <= MaxBytes
           /\ BytesOf(q) <= MaxBytes => n = 0
           /\ Len(q) # 0 /\ SizeOf(q[Len(q)]) <= MaxBytes => n < Len(q)
  BY <1>4, <1>5, PrunedSays
<1>7. SizeOf(e) <= MaxBytes
  BY <1>1, UploadsAssumption DEF e
<1>8. n \in 0 .. L /\ Len(s) = L + 1 - n /\ DOMAIN s = 1 .. L + 1 - n /\ L + 1 # 0
  BY <1>4, <1>6, <1>7
<1> HIDE DEF o, L, s
<1>9. \A i \in 1 .. L + 1 - n : s[i] = q[n + i] /\ n + i \in 1 .. L + 1
  BY <1>4, <1>6, <1>8
<1>11. ASSUME NEW j \in 1 .. Len(cache)
       PROVE  /\ j < P => j \in 1 .. L /\ q[j] = cache[j]
              /\ P < j => j - 1 \in 1 .. L /\ q[j - 1] = cache[j]
  BY <1>10 DEF Appended
<1>12. /\ Len(cache) \in Nat /\ DOMAIN cache = 1 .. Len(cache)
       /\ \A j \in 1 .. Len(cache) : cache[j].key = k <=> j = P
  BY <1>1, <1>10 DEF Appended
<1>13. \A x, y \in 1 .. L + 1 : q[x].key = q[y].key => x = y
  <2>1. DOMAIN q = 1 .. L + 1
    BY <1>4
  <2> QED
    BY <1>10, <2>1 DEF Appended, KeysApart
<1>14. \A i \in 1 .. L : q[i].key # k /\ \E j \in 1 .. Len(cache) : q[i] = cache[j]
  BY <1>1, <1>10 DEF Appended
<1>15. KeysApart(s)
  <2>1. ASSUME NEW i \in 1 .. L + 1 - n, NEW j \in 1 .. L + 1 - n, s[i].key = s[j].key
        PROVE  i = j
    <3>1. /\ n + i \in 1 .. L + 1 /\ n + j \in 1 .. L + 1
          /\ q[n + i].key = q[n + j].key
      BY <1>9, <2>1
    <3>2. n + i = n + j
      BY <1>13, <3>1
    <3> QED
      BY <1>8, <3>2
  <2> QED
    BY <1>8, <2>1 DEF KeysApart
<1>16. ASSUME NEW i \in DOMAIN s
       PROVE  \/ s[i] = e
              \/ s[i].key # k /\ \E j \in DOMAIN cache : s[i] = cache[j]
  <2>1. i \in 1 .. L + 1 - n /\ n + i \in 1 .. L + 1 /\ s[i] = q[n + i]
    BY <1>8, <1>9
  <2>2. CASE n + i = L + 1
    BY <1>4, <2>1, <2>2
  <2>3. CASE n + i # L + 1
    <3>1. n + i \in 1 .. L
      BY <1>4, <2>1, <2>3
    <3> QED
      BY <1>12, <1>14, <2>1, <3>1
  <2> QED
    BY <2>2, <2>3
<1>17. \E i \in DOMAIN s : s[i] = e
  <2>1. L + 1 - n \in 1 .. L + 1 - n /\ n + (L + 1 - n) = L + 1
    BY <1>4, <1>8
  <2> QED
    BY <1>4, <1>8, <1>9, <2>1
<1>18. ASSUME NEW x \in 1 .. L + 1, n < x PROVE \E i \in DOMAIN s : s[i] = q[x]
  <2>1. x - n \in 1 .. L + 1 - n /\ n + (x - n) = x
    BY <1>4, <1>8, <1>18
  <2> QED
    BY <1>8, <1>9, <2>1
<1>19. ASSUME NEW i \in DOMAIN cache, NEW j \in DOMAIN cache,
              i < j, cache[i] \in ToSet(s), cache[j].key # k
       PROVE  cache[j] \in ToSet(s)
  <2>1. PICK m \in 1 .. L + 1 - n : s[m] = cache[i]
    BY <1>8, <1>19 DEF ToSet
  <2>2. n + m \in 1 .. L + 1 /\ q[n + m] = cache[i] /\ n < n + m
    BY <1>8, <1>9, <2>1
  <2>4. PICK x \in 1 .. L : q[x] = cache[j] /\ (j < P => x = j) /\ (P < j => x = j - 1)
    BY <1>3, <1>11, <1>12, <1>19
  <2>5. SUFFICES n < x
    <3>1. x \in 1 .. L + 1
      BY <1>4
    <3> QED
      BY <1>18, <2>4, <3>1 DEF ToSet
  <2>6. CASE i = P
    <3>1. cache[i].key = k
      BY <1>12, <1>19, <2>6
    <3>2. n + m = L + 1
      <4>1. n + m \notin 1 .. L
        BY <1>14, <2>2, <3>1
      <4> QED
        BY <1>4, <2>2, <4>1
    <3>3. cache[i] = e
      BY <1>4, <2>2, <3>2
    <3>4. BytesOf(o) = bytes - SizeOf(e)
      <4>1. k \in Keys
        BY <1>19, <3>1 DEF Keys
      <4>2. EntryOf(k) = e
        BY <1>2, <2>6, <3>3, <4>1 DEF Without
      <4> QED
        BY <1>2, <4>1, <4>2 DEF Without, o
    <3>5. BytesOf(o) \in Nat /\ bytes \in Nat
      BY <1>3, BytesTyped DEF o
    <3>6. BytesOf(q) = bytes
      BY <1>1, <1>4, <3>4, <3>5
    <3> QED
      BY <1>6, <3>6
  <2>7. CASE i # P
    <3>1. cache[i].key # k /\ n + m \in 1 .. L
      <4>1. cache[i].key # k
        BY <1>12, <1>19, <2>7
      <4>2. n + m # L + 1
        BY <1>1, <1>4, <2>2, <4>1
      <4>3. n + m \in Nat
        BY <2>2
      <4> QED
        BY <1>4, <2>2, <4>1, <4>2, <4>3
    <3>3. PICK y \in 1 .. L : q[y] = cache[i] /\ (i < P => y = i) /\ (P < i => y = i - 1)
      BY <1>3, <1>11, <1>12, <1>19, <2>7
    <3>4. y = n + m
      <4>1. y \in 1 .. L + 1
        BY <1>4
      <4> QED
        BY <1>13, <2>2, <3>3, <4>1
    <3>5. j # P
      BY <1>12, <1>19
    <3> QED
      BY <1>3, <1>4, <1>8, <1>12, <1>19, <2>2, <2>4, <2>7, <3>3, <3>4, <3>5
  <2> QED
    BY <2>6, <2>7
<1> QED
  BY <1>6, <1>15, <1>16, <1>17, <1>19 DEF Kept, e, s, after

\* What there is once the entry under k has been used.
Found(q) ==
  /\ q \in Seq(Entry) /\ BytesOf(q) = BytesOf(cache)
  /\ KeysApart(q)
  /\ \A i \in DOMAIN q : \E j \in DOMAIN cache : q[i] = cache[j]

\* A hit keeps the cache in order.
LEMMA FoundSays ==
  ASSUME cache \in Seq(Entry), KeysApart(cache), NEW k \in Keys
  PROVE  /\ Found(Append(Others(k), EntryOf(k)))
         /\ \E j \in DOMAIN cache : EntryOf(k) = cache[j] /\ cache[j].key = k
<1> DEFINE e == EntryOf(k)
           q == Append(Others(k), e)
           L == Len(Others(k))
<1>1. PICK P : Without(k, P)
  BY OthersSays
<1>2. P \in 1 .. Len(cache) /\ e = cache[P] /\ e.key = k /\ P \in DOMAIN cache
  BY <1>1 DEF Without
<1>3. e \in Entry
  BY <1>2
<1> HIDE DEF e
<1>4. Appended(e, P, L, q)
  BY <1>1, <1>2, <1>3, AppendedSays
<1> HIDE DEF q, L
<1>5. \A i \in DOMAIN q : \E j \in DOMAIN cache : q[i] = cache[j]
  <2>1. ASSUME NEW i \in DOMAIN q PROVE \E j \in DOMAIN cache : q[i] = cache[j]
    <3>1. i = L + 1 \/ i \in 1 .. L
      BY <1>4 DEF Appended
    <3>2. DOMAIN cache = 1 .. Len(cache)
      OBVIOUS
    <3> QED
      BY <1>2, <1>4, <3>1, <3>2 DEF Appended
  <2> QED
    BY <2>1
<1>6. BytesOf(q) = BytesOf(cache)
  <2>1. BytesOf(q) = BytesOf(Others(k)) + SizeOf(e)
    BY <1>2, <1>4 DEF Appended
  <2>2. BytesOf(Others(k)) = BytesOf(cache) - SizeOf(e)
    BY <1>1 DEF Without, e
  <2>3. BytesOf(cache) \in Nat /\ SizeOf(e) \in Nat
    BY <1>3, BytesTyped, SizeTyped
  <2> QED
    BY <2>1, <2>2, <2>3
<1>7. Found(q)
  BY <1>4, <1>5, <1>6 DEF Appended, Found
<1> QED
  BY <1>2, <1>7 DEF q, e

-----------------------------------------------------------------------------
(* Calls.                                                                  *)

\* What stands for nothing is nothing else.
LEMMA NoneApart ==
  /\ None \notin Memories /\ None \notin Addresses /\ None \notin Patterns
  /\ NoRegion \notin Regions /\ NoMapping \notin Mapping /\ NoBinding \notin Binding
  /\ <<>> \notin Hash /\ NoTexels \notin Texels
<1>1. None \notin Memories /\ None \notin Addresses /\ None \notin Patterns
  BY UploadsAssumption
<1>2. NoRegion \notin Regions
  BY UploadsAssumption DEF NoRegion, Region
<1>3. NoMapping \notin Mapping /\ NoBinding \notin Binding
  BY <1>1 DEF NoMapping, Mapping, NoBinding, Binding
<1>4. <<>> \notin Hash
  BY DEF Hash
<1>5. NoTexels \notin Texels
  BY <1>1 DEF NoTexels, Texels, NoSource, Source
<1> QED
  BY <1>1, <1>2, <1>3, <1>4, <1>5

\* Locals, field by field.
Held(c, m, b, r, s, a, x, h, y) ==
  /\ c \in Locals
  /\ c.memory = m /\ c.buffer = b /\ c.region = r /\ c.slice = s
  /\ c.address = a /\ c.start = x /\ c.hash = h /\ c.texels = y

\* The locals of no call, of mapping and of copying, and what the steps make of them.
LEMMA NoCallSays == Held(NoCall, None, None, NoRegion, 0, None, 0, <<>>, NoTexels)
BY DEF Held, NoCall, Locals

\* ... of a call that maps or unmaps,
LEMMA HandlingSays ==
  ASSUME NEW m \in Memories
  PROVE  Held([NoCall EXCEPT !.memory = m], m, None, NoRegion, 0, None, 0, <<>>, NoTexels)
BY DEF Held, NoCall, Locals

\* ... of a copy of a slice,
LEMMA CopyingSays ==
  ASSUME NEW b \in Buffers, NEW r \in Regions, NEW s \in Nat
  PROVE  /\ Held([NoCall EXCEPT !.buffer = b, !.region = r],
                 None, b, r, 0, None, 0, <<>>, NoTexels)
         /\ Held([NoCall EXCEPT !.buffer = b, !.region = r, !.slice = s],
                 None, b, r, s, None, 0, <<>>, NoTexels)
BY DEF Held, NoCall, Locals

\* ... once there is a pointer,
LEMMA PointingSays ==
  ASSUME NEW c \in Locals, NEW a \in Addresses, NEW x \in Nat
  PROVE  Held([c EXCEPT !.address = a, !.start = x],
              c.memory, c.buffer, c.region, c.slice, a, x, c.hash, c.texels)
BY DEF Held, Locals

\* ... once there is a hash,
LEMMA HashingSays ==
  ASSUME NEW c \in Locals, NEW h \in Hash
  PROVE  Held([c EXCEPT !.hash = h],
              c.memory, c.buffer, c.region, c.slice, c.address, c.start, h, c.texels)
BY DEF Held, Locals

\* ... and once there are texels.
LEMMA DoneSays ==
  ASSUME TypeOK, NEW t \in Threads, NEW h \in Hash, NEW y \in Texels
  PROVE  Held(DoneReading(t, h, y), call[t].memory, call[t].buffer, call[t].region,
              call[t].slice, None, 0, h, y)
<1>1. call[t] \in Locals
  BY DEF TypeOK
<1> QED
  BY <1>1 DEF Held, Locals, DoneReading

\* A step of a call is a step of its thread.
LEMMA Stepping ==
  ASSUME TypeOK, NEW t \in Threads, NEW step, NEW c, Goto(t, step, c)
  PROVE  /\ at'[t] = step /\ call'[t] = c
         /\ \A u \in Threads \ {t} : at'[u] = at[u] /\ call'[u] = call[u]
BY DEF TypeOK, Goto

Steps(t) ==
  \/ \E m \in Memories :
       \/ UnmapMemory(t, m)
       \/ \E range \in Ranges : MapMemory(t, m, range)
  \/ \E b \in Buffers, r \in Regions : CopyBufferToImage(t, b, r)
  \/ TrackMap(t) \/ DriverUnmap(t)
  \/ Resolve(t) \/ HashAndFind(t) \/ Decode(t) \/ Stage(t)

\* What a step leaves of the call of a thread.
Stays(t) ==
  at'[t] = at[t] /\ call'[t] = call[t] /\ (t \in disturbed => t \in disturbed')

\* A step of a thread is none of another's.
LEMMA OthersStay ==
  ASSUME TypeOK, NEW t \in Threads, Steps(t), NEW u \in Threads \ {t}
  PROVE  Stays(u)
<1>1. ASSUME NEW m \in Memories, UnmapMemory(t, m) PROVE Stays(u)
  BY <1>1, Stepping DEF UnmapMemory, Stays
<1>2. ASSUME NEW m \in Memories, NEW range \in Ranges, MapMemory(t, m, range) PROVE Stays(u)
  BY <1>2, Stepping DEF MapMemory, Stays
<1>3. ASSUME NEW b \in Buffers, NEW r \in Regions, CopyBufferToImage(t, b, r) PROVE Stays(u)
  BY <1>3, Stepping DEF CopyBufferToImage, Stays
<1>4. CASE TrackMap(t)
  BY <1>4, Stepping DEF TrackMap, Return, Stays
<1>5. CASE DriverUnmap(t)
  BY <1>5, Stepping DEF DriverUnmap, Stays
<1>6. CASE Resolve(t)
  <2>1. disturbed' \in {disturbed, disturbed \union {t}, disturbed \ {t}}
    BY <1>6 DEF Resolve, Return
  <2>2. \E step, c : Goto(t, step, c)
    BY <1>6 DEF Resolve, Return
  <2> QED
    BY <2>1, <2>2, Stepping DEF Stays
<1>7. CASE HashAndFind(t)
  <2>1. disturbed' \in {disturbed, disturbed \union {t}}
    BY <1>7 DEF HashAndFind
  <2>2. \E step, c : Goto(t, step, c)
    BY <1>7 DEF HashAndFind
  <2> QED
    BY <2>1, <2>2, Stepping DEF Stays
<1>8. CASE Decode(t)
  <2>1. disturbed' \in {disturbed, disturbed \ {t}}
    BY <1>8 DEF Decode, Return
  <2>2. \E step, c : Goto(t, step, c)
    BY <1>8 DEF Decode, Return
  <2> QED
    BY <2>1, <2>2, Stepping DEF Stays
<1>9. CASE Stage(t)
  <2>1. disturbed' = disturbed \ {t}
    BY <1>9 DEF Stage, Return
  <2>2. \E step, c : Goto(t, step, c)
    BY <1>9 DEF Stage, Return
  <2> QED
    BY <2>1, <2>2, Stepping DEF Stays
<1> QED
  BY <1>1, <1>2, <1>3, <1>4, <1>5, <1>6, <1>7, <1>8, <1>9 DEF Steps

\* What the application and the driver do outside calls.
Outside ==
  \/ \E m \in Memories :
       \/ FreeMemory(m)
       \/ \E p \in Patterns : AllocateMemory(m, p) \/ HostWrite(m, p)
       \/ \E b \in Buffers, offset \in BindOffsets : BindBufferMemory(b, m, offset)
  \/ \E b \in Buffers : DestroyBuffer(b)
  \/ DestroyDevice

\* A step is one or the other.
LEMMA NextSays == Next <=> Outside \/ \E t \in Threads : Steps(t)
BY DEF Next, Outside, Steps

\* Calls under way stay where they are.
LEMMA OutsideStays ==
  ASSUME Outside
  PROVE  at' = at /\ call' = call /\ disturbed \subseteq disturbed'
BY DEF Outside, FreeMemory, AllocateMemory, HostWrite, BindBufferMemory, DestroyBuffer,
       DestroyDevice

\* A thread takes a step of its call, or its call stays where it is.
LEMMA StepsOrStays ==
  ASSUME TypeOK, [Next]_vars, NEW t \in Threads
  PROVE  Steps(t) \/ Stays(t)
<1>1. CASE UNCHANGED vars
  BY <1>1 DEF vars, Stays
<1>2. CASE Outside
  BY <1>2, OutsideStays DEF Stays
<1>3. ASSUME NEW u \in Threads, Steps(u) PROVE Steps(t) \/ Stays(t)
  BY <1>3, OthersStay
<1> QED
  BY <1>1, <1>2, <1>3, NextSays

-----------------------------------------------------------------------------
(* What a copy reads.                                                      *)

MemoryOf(t) == binding[call[t].buffer].memory

\* The buffer of a copy stays bound where it is.
LEMMA BindingStays ==
  ASSUME TypeOK, CallsInOrder, [Next]_vars, NEW t \in Threads, at[t] \in Copies
  PROVE  binding'[call[t].buffer] = binding[call[t].buffer]
<1> DEFINE b == call[t].buffer
<1>1. b \in Buffers /\ binding[b] # NoBinding /\ Copying(b) /\ at[t] # "idle"
  BY DEF CallsInOrder, InOrder, Copying, Copies
<1> HIDE DEF b
<1>2. ASSUME UNCHANGED vars PROVE binding'[b] = binding[b]
  BY <1>2 DEF vars, b
<1>3. ASSUME NEW m \in Memories, FreeMemory(m) PROVE binding'[b] = binding[b]
  BY <1>1, <1>3 DEF FreeMemory
<1>4. ASSUME NEW m \in Memories, NEW p \in Patterns, AllocateMemory(m, p) \/ HostWrite(m, p)
      PROVE  binding'[b] = binding[b]
  BY <1>4 DEF AllocateMemory, HostWrite
<1>5. ASSUME NEW m \in Memories, NEW c \in Buffers, NEW offset \in BindOffsets,
             BindBufferMemory(c, m, offset)
      PROVE  binding'[b] = binding[b]
  BY <1>1, <1>5 DEF BindBufferMemory, TypeOK
<1>6. ASSUME NEW c \in Buffers, DestroyBuffer(c) PROVE binding'[b] = binding[b]
  BY <1>1, <1>6 DEF DestroyBuffer, TypeOK
<1>7. ASSUME DestroyDevice PROVE binding'[b] = binding[b]
  BY <1>1, <1>7 DEF DestroyDevice
<1>8. ASSUME NEW u \in Threads, Steps(u) PROVE binding'[b] = binding[b]
  <2>1. binding' = binding
    BY <1>8 DEF Steps, UnmapMemory, MapMemory, CopyBufferToImage, TrackMap, DriverUnmap, Resolve,
                HashAndFind, Decode, Stage, app_vars
  <2> QED
    BY <2>1
<1>9. ASSUME Outside PROVE binding'[b] = binding[b]
  BY <1>3, <1>4, <1>5, <1>6, <1>7, <1>9 DEF Outside
<1> QED
  BY <1>2, <1>8, <1>9, NextSays DEF b

\* A thread whose source nobody touches reads where its buffer is.
LEMMA SourceSays ==
  ASSUME TypeOK, CallsInOrder, MappedApart, ReadsTheBuffer,
         NEW t \in Threads, at[t] \in {"hash", "decode"}, t \notin disturbed
  PROVE  /\ MemoryOf(t) \in Memories /\ mapping[MemoryOf(t)].address = call[t].address
         /\ mapping[MemoryOf(t)] # NoMapping /\ holds[MemoryOf(t)] # None
         /\ mapping[MemoryOf(t)].offset + call[t].start = SliceStart(t)
<1>1. /\ call[t].buffer \in Buffers /\ binding[call[t].buffer] # NoBinding
      /\ call[t].address \in Addresses
  BY DEF CallsInOrder, InOrder, Copies
<1>2. MemoryOf(t) \in Memories
  BY <1>1 DEF TypeOK, Binding, MemoryOf
<1>3. /\ mapping[MemoryOf(t)].address = call[t].address
      /\ mapping[MemoryOf(t)].offset + call[t].start = SliceStart(t)
  BY DEF ReadsTheBuffer, MemoryOf
<1>4. mapping[MemoryOf(t)] # NoMapping
  <2>1. NoMapping.address = None
    BY DEF NoMapping
  <2> QED
    BY <1>1, <1>3, <2>1, NoneApart
<1> QED
  BY <1>2, <1>3, <1>4 DEF MappedApart

\* What a read finds is a source.
LEMMA SourceTyped ==
  ASSUME TypeOK, CallsInOrder, MappedApart,
         NEW t \in Threads, at[t] \in {"hash", "decode"}, NEW s \in SourcesAt(t)
  PROVE  s \in Source
<1> DEFINE M == {m \in Memories : mapping[m].address = call[t].address}
<1>1. CASE M = {}
  BY <1>1 DEF SourcesAt, Source
<1>2. CASE M # {}
  <2>1. SourcesAt(t) =
          {[pattern |-> holds[m], first |-> mapping[m].offset + call[t].start] : m \in M}
    BY <1>2 DEF SourcesAt
  <2>2. PICK m \in M : s = [pattern |-> holds[m], first |-> mapping[m].offset + call[t].start]
    BY <2>1
  <2>3. call[t].address \in Addresses /\ call[t].start \in Nat
    BY DEF CallsInOrder, InOrder, TypeOK, Locals
  <2>4. mapping[m] \in Mapping
    BY <2>2, <2>3, NoneApart DEF TypeOK, NoMapping
  <2>5. holds[m] \in Patterns
    BY <2>2, <2>4, NoneApart DEF TypeOK, MappedApart
  <2>6. mapping[m].offset \in Nat
    BY <2>4, UploadsAssumption DEF Mapping, Cells
  <2>7. mapping[m].offset + call[t].start \in Nat
    BY <2>3, <2>6
  <2> QED
    BY <2>2, <2>5, <2>7 DEF Source
<1> QED
  BY <1>1, <1>2

\* It is the buffer's, if nobody touched it.
LEMMA SourceRight ==
  ASSUME TypeOK, CallsInOrder, MappedApart, ReadsTheBuffer,
         NEW t \in Threads, at[t] \in {"hash", "decode"}, t \notin disturbed, NEW s \in SourcesAt(t)
  PROVE  s.pattern = holds[MemoryOf(t)] /\ s.first = SliceStart(t)
<1> DEFINE M == {m \in Memories : mapping[m].address = call[t].address}
<1>1. /\ MemoryOf(t) \in M /\ mapping[MemoryOf(t)] # NoMapping
      /\ mapping[MemoryOf(t)].offset + call[t].start = SliceStart(t)
  BY SourceSays
<1>2. SourcesAt(t) =
        {[pattern |-> holds[m], first |-> mapping[m].offset + call[t].start] : m \in M}
  BY <1>1 DEF SourcesAt
<1>3. PICK m \in M : s = [pattern |-> holds[m], first |-> mapping[m].offset + call[t].start]
  BY <1>2
<1>4. m = MemoryOf(t)
  BY <1>1, <1>3 DEF MappedApart
<1> QED
  BY <1>1, <1>3, <1>4

\* Whoever changes what a thread reads disturbs it.
LEMMA SourceStays ==
  ASSUME TypeOK, CallsInOrder, MappedApart, ReadsTheBuffer, [Next]_vars,
         NEW t \in Threads, at[t] \in {"hash", "decode"}, t \notin disturbed, t \notin disturbed'
  PROVE  mapping'[MemoryOf(t)] = mapping[MemoryOf(t)] /\ holds'[MemoryOf(t)] = holds[MemoryOf(t)]
<1> DEFINE n == MemoryOf(t)
           Same == mapping'[n] = mapping[n] /\ holds'[n] = holds[n]
<1>1. /\ n \in Memories /\ mapping[n].address = call[t].address
      /\ mapping[n] # NoMapping /\ holds[n] # None
  BY SourceSays
<1>2. \A m \in Memories : m = n => t \in ReadersOf(m)
  BY <1>1 DEF ReadersOf
<1> HIDE DEF n
<1>3. ASSUME UNCHANGED vars PROVE Same
  BY <1>3 DEF vars
<1>4. ASSUME NEW m \in Memories, FreeMemory(m) PROVE Same
  <2>1. m # n
    BY <1>2, <1>4 DEF FreeMemory
  <2> QED
    BY <1>1, <1>4, <2>1 DEF FreeMemory, TypeOK
<1>5. ASSUME NEW m \in Memories, NEW p \in Patterns, AllocateMemory(m, p) PROVE Same
  BY <1>1, <1>5 DEF AllocateMemory, TypeOK
<1>6. ASSUME NEW m \in Memories, NEW p \in Patterns, HostWrite(m, p) PROVE Same
  <2>1. m # n
    BY <1>2, <1>6 DEF HostWrite
  <2> QED
    BY <1>1, <1>6, <2>1 DEF HostWrite, TypeOK
<1>7. ASSUME \/ \E m \in Memories, b \in Buffers, offset \in BindOffsets :
                  BindBufferMemory(b, m, offset)
             \/ \E b \in Buffers : DestroyBuffer(b)
      PROVE  Same
  BY <1>7 DEF BindBufferMemory, DestroyBuffer
<1>8. ASSUME DestroyDevice PROVE Same
  BY <1>8 DEF DestroyDevice
<1>9. ASSUME NEW u \in Threads, NEW m \in Memories, NEW range \in Ranges, MapMemory(u, m, range)
      PROVE  Same
  BY <1>1, <1>9 DEF MapMemory, TypeOK
<1>10. ASSUME NEW u \in Threads, DriverUnmap(u) PROVE Same
  <2>1. disturbed' = disturbed \union ReadersOf(call[u].memory)
    BY <1>10 DEF DriverUnmap
  <2>2. call[u].memory # n
    BY <1>1, <1>2, <2>1
  <2> QED
    BY <1>1, <1>10, <2>2 DEF DriverUnmap, TypeOK
<1>11. ASSUME NEW u \in Threads,
              \/ \E m \in Memories : UnmapMemory(u, m)
              \/ \E b \in Buffers, r \in Regions : CopyBufferToImage(u, b, r)
              \/ TrackMap(u) \/ Resolve(u) \/ HashAndFind(u) \/ Decode(u) \/ Stage(u)
       PROVE  Same
  <2>1. app_vars' = app_vars
    BY <1>11 DEF UnmapMemory, CopyBufferToImage, TrackMap, Resolve, HashAndFind, Decode, Stage
  <2> QED
    BY <2>1 DEF app_vars
<1>12. ASSUME Outside PROVE Same
  BY <1>4, <1>5, <1>6, <1>7, <1>8, <1>12 DEF Outside
<1>13. ASSUME NEW u \in Threads, Steps(u) PROVE Same
  BY <1>9, <1>10, <1>11, <1>13 DEF Steps
<1> QED
  BY <1>3, <1>12, <1>13, NextSays DEF n

-----------------------------------------------------------------------------
(* Every step keeps the types.                                             *)

CallsTyped(a, c) ==
  /\ a \in [Threads -> {"idle", "track_map", "unmap", "resolve", "hash", "decode", "stage"}]
  /\ c \in [Threads -> Locals]
  /\ \A t \in Threads : c[t].region # NoRegion => c[t].slice \in 0 .. (c[t].region.slices - 1)

\* A step of a call, to locals of their types.
LEMMA GotoTyped ==
  ASSUME TypeOK, NEW t \in Threads,
         NEW step \in {"idle", "track_map", "unmap", "resolve", "hash", "decode", "stage"},
         NEW c \in Locals, c.region # NoRegion => c.slice \in 0 .. (c.region.slices - 1),
         Goto(t, step, c)
  PROVE  CallsTyped(at', call')
<1>1. at' = [at EXCEPT ![t] = step] /\ call' = [call EXCEPT ![t] = c]
  BY DEF Goto
<1>2. /\ at' \in [Threads ->
                    {"idle", "track_map", "unmap", "resolve", "hash", "decode", "stage"}]
      /\ call' \in [Threads -> Locals]
  BY <1>1 DEF TypeOK
<1>3. ASSUME NEW u \in Threads, call'[u].region # NoRegion
      PROVE  call'[u].slice \in 0 .. (call'[u].region.slices - 1)
  BY <1>1, <1>3 DEF TypeOK
<1> QED
  BY <1>2, <1>3 DEF CallsTyped

\* The end of a call.
LEMMA ReturnTyped ==
  ASSUME TypeOK, NEW t \in Threads, Goto(t, "idle", NoCall)
  PROVE  CallsTyped(at', call')
BY NoCallSays, GotoTyped DEF Held

\* A copied slice starts somewhere in its buffer.
LEMMA SliceTyped ==
  ASSUME TypeOK, CallsInOrder, NEW t \in Threads, at[t] \in Copies
  PROVE  /\ call[t].region \in Regions /\ call[t].region # NoRegion
         /\ call[t].slice \in 0 .. (call[t].region.slices - 1)
         /\ call[t].region.width \in Nat /\ call[t].region.height \in Nat
         /\ call[t].region.pitch \in Nat /\ call[t].region.rows \in Nat
         /\ SliceOffset(t) \in Nat
         /\ Footprint(call[t].region) \in Int
<1> DEFINE r == call[t].region
<1>1. r \in Regions /\ r # NoRegion
  BY NoneApart DEF CallsInOrder, InOrder
<1>2. r \in Region
  BY <1>1, UploadsAssumption
<1>3. call[t].slice \in 0 .. (r.slices - 1)
  BY <1>1 DEF TypeOK
<1> HIDE DEF r
<1>4. /\ r.offset \in Nat /\ r.width \in Nat /\ r.height \in Nat /\ r.pitch \in Nat
      /\ r.rows \in Nat /\ r.slices \in Nat
  BY <1>2 DEF Region
<1>5. \A a, b \in Nat : a * b \in Nat /\ (a - 1) * b \in Int
  OBVIOUS
<1>6. call[t].slice \in Nat
  BY <1>3, <1>4
<1>7. r.pitch * r.rows \in Nat /\ (r.height - 1) * r.pitch \in Int
  BY <1>4, <1>5
<1>8. call[t].slice * (r.pitch * r.rows) \in Nat
  BY <1>5, <1>6, <1>7
<1>9. SliceOffset(t) \in Nat
  BY <1>4, <1>8 DEF SliceOffset, SliceStride, r
<1>10. Footprint(r) \in Int
  BY <1>4, <1>7 DEF Footprint
<1> QED
  BY <1>1, <1>3, <1>4, <1>9, <1>10 DEF r

\* The key of a copy.
LEMMA KeyTyped ==
  ASSUME TypeOK, CallsInOrder, NEW t \in Threads, at[t] \in Copies, NEW h \in Hash
  PROVE  /\ CacheKey(t, h) \in Key
         /\ CacheKey(t, h).width = call[t].region.width
         /\ CacheKey(t, h).height = call[t].region.height
         /\ CacheKey(t, h).hash = h
BY SliceTyped DEF CacheKey, Key

\* A hash of what a read finds, and texels made of it.
LEMMA HashTyped ==
  ASSUME NEW s \in Source
  PROVE  <<HashOf[s.pattern], s.first>> \in Hash
BY DEF Source, Hash

\* So are the texels decoded from it.
LEMMA TexelsTyped ==
  ASSUME TypeOK, CallsInOrder, NEW t \in Threads, at[t] \in Copies, NEW s \in Source
  PROVE  [source |-> s, width |-> call[t].region.width, height |-> call[t].region.height] \in Texels
BY SliceTyped DEF Texels

\* The pointer that Resolve finds, or that it finds none.
Pointed(t) ==
  /\ \E a, x : Goto(t, "hash", [call[t] EXCEPT !.address = a, !.start = x])
  /\ LET m == maps[bindings[call[t].buffer].memory]
     IN /\ m \in Mapping /\ bindings[call[t].buffer] \in Binding
        /\ call'[t].address = m.address /\ m.address \in Addresses
        /\ call'[t].start \in Nat
        /\ m.offset + call'[t].start = bindings[call[t].buffer].offset + SliceOffset(t)
        /\ m.size = WholeSize \/ call'[t].start + Footprint(call[t].region) <= m.size
        /\ Held(call'[t], call[t].memory, call[t].buffer, call[t].region, call[t].slice,
                m.address, call'[t].start, call[t].hash, call[t].texels)
        /\ at'[t] = "hash"
        /\ disturbed' = IF bindings[call[t].buffer].memory \in orphaned
                          THEN disturbed \union {t} ELSE disturbed

\* Resolve finds a pointer inside the mapping, or the copy fails.
LEMMA ResolveSays ==
  ASSUME TypeOK, CallsInOrder, NEW t \in Threads, Resolve(t)
  PROVE  Pointed(t) \/ Return(t)
<1> DEFINE b == bindings[call[t].buffer]
           m == IF b = NoBinding THEN NoMapping ELSE maps[b.memory]
           start == b.offset + SliceOffset(t) - m.offset
<1>1. at[t] \in Copies /\ call[t].buffer \in Buffers /\ call[t] \in Locals
  BY DEF Resolve, CallsInOrder, InOrder, Copies, TypeOK
<1>2. CASE /\ m # NoMapping /\ start >= 0
           /\ m.size = WholeSize \/ start + Footprint(call[t].region) <= m.size
           /\ call[t].region.width * call[t].region.height <= MaxUpload
  <2>1. /\ Goto(t, "hash", [call[t] EXCEPT !.address = m.address, !.start = start])
        /\ disturbed' = IF b.memory \in orphaned THEN disturbed \union {t} ELSE disturbed
    BY <1>2 DEF Resolve
  <2>2. b \in Binding /\ m = maps[b.memory]
    BY <1>1, <1>2 DEF TypeOK
  <2>3. b.memory \in Memories /\ m \in Mapping
    BY <1>2, <2>2 DEF Binding, TypeOK
  <2>4. b.offset \in Nat /\ m.offset \in Nat /\ SliceOffset(t) \in Nat
    BY <1>1, <2>2, <2>3, SliceTyped, UploadsAssumption DEF Binding, Mapping, Cells
  <2> HIDE DEF b, m
  <2>5. start \in Nat /\ m.offset + start = b.offset + SliceOffset(t)
    BY <1>2, <2>4
  <2> HIDE DEF start
  <2>6. m.address \in Addresses
    BY <2>3 DEF Mapping
  <2>7. at'[t] = "hash" /\ call'[t] = [call[t] EXCEPT !.address = m.address, !.start = start]
    BY <2>1, Stepping
  <2>8. Held(call'[t], call[t].memory, call[t].buffer, call[t].region, call[t].slice,
             m.address, start, call[t].hash, call[t].texels)
    <3>1. \A c \in Locals, a \in Addresses, x \in Nat :
            Held([c EXCEPT !.address = a, !.start = x],
                 c.memory, c.buffer, c.region, c.slice, a, x, c.hash, c.texels)
      BY PointingSays
    <3>2. Held([call[t] EXCEPT !.address = m.address, !.start = start],
               call[t].memory, call[t].buffer, call[t].region, call[t].slice,
               m.address, start, call[t].hash, call[t].texels)
      BY <1>1, <2>5, <2>6, <3>1, Zenon
    <3> QED
      BY <2>7, <3>2
  <2>9. call'[t].start = start /\ call'[t].address = m.address
    BY <2>8 DEF Held
  <2>10. /\ m \in Mapping /\ b \in Binding
         /\ call'[t].address = m.address /\ m.address \in Addresses
         /\ call'[t].start \in Nat
         /\ m.offset + call'[t].start = b.offset + SliceOffset(t)
         /\ m.size = WholeSize \/ call'[t].start + Footprint(call[t].region) <= m.size
         /\ Held(call'[t], call[t].memory, call[t].buffer, call[t].region, call[t].slice,
                 m.address, call'[t].start, call[t].hash, call[t].texels)
         /\ at'[t] = "hash"
         /\ disturbed' = IF b.memory \in orphaned THEN disturbed \union {t} ELSE disturbed
    BY <1>2, <2>1, <2>2, <2>3, <2>5, <2>6, <2>7, <2>8, <2>9
  <2>11. \E a, x : Goto(t, "hash", [call[t] EXCEPT !.address = a, !.start = x])
    BY <2>1
  <2> QED
    BY <2>2, <2>10, <2>11 DEF Pointed, b
<1>3. CASE ~(/\ m # NoMapping /\ start >= 0
             /\ m.size = WholeSize \/ start + Footprint(call[t].region) <= m.size
             /\ call[t].region.width * call[t].region.height <= MaxUpload)
  BY <1>3 DEF Resolve
<1> QED
  BY <1>2, <1>3

-----------------------------------------------------------------------------
(* Reading and decoding, in terms of the lemmas about the cache.           *)

\* The count of the cache is right.
Counted == KeysApart(cache) /\ bytes = BytesOf(cache) /\ bytes <= MaxBytes

\* The key is in the cache: its entry is used, and its texels are the copy's.
Hit(t, h) ==
  LET k == CacheKey(t, h)
  IN /\ Found(cache')
     /\ at'[t] = "stage"
     /\ \E j \in DOMAIN cache :
          /\ cache[j].key = k
          /\ Held(call'[t], call[t].memory, call[t].buffer, call[t].region, call[t].slice,
                  None, 0, h, cache[j].texels)
     /\ disturbed' = IF k \in suspect THEN disturbed \union {t} ELSE disturbed
     /\ \E c : Goto(t, "stage", c)

\* It is not: the thread decodes.
Missed(t, h) ==
  /\ at'[t] = "decode"
  /\ Held(call'[t], call[t].memory, call[t].buffer, call[t].region, call[t].slice,
          call[t].address, call[t].start, h, call[t].texels)
  /\ cache' = cache /\ disturbed' = disturbed
  /\ \E c : Goto(t, "decode", c)

\* The read that hashes.
LEMMA HashSays ==
  ASSUME TypeOK, CallsInOrder, MappedApart, KeysApart(cache), NEW t \in Threads, HashAndFind(t)
  PROVE  \E s \in SourcesAt(t) :
           /\ s \in Source /\ <<HashOf[s.pattern], s.first>> \in Hash
           /\ \/ Hit(t, <<HashOf[s.pattern], s.first>>)
              \/ Missed(t, <<HashOf[s.pattern], s.first>>)
<1>1. at[t] = "hash" /\ at[t] \in Copies
  BY DEF HashAndFind, Copies
<1>2. PICK s \in SourcesAt(t) :
        LET h == <<HashOf[s.pattern], s.first>>
            k == CacheKey(t, h)
        IN IF k \in Keys
             THEN /\ cache' = Append(Others(k), EntryOf(k))
                  /\ Goto(t, "stage", DoneReading(t, h, EntryOf(k).texels))
                  /\ disturbed' = IF k \in suspect THEN disturbed \union {t} ELSE disturbed
             ELSE /\ Goto(t, "decode", [call[t] EXCEPT !.hash = h])
                  /\ UNCHANGED <<cache, disturbed>>
  BY DEF HashAndFind
<1> DEFINE h == <<HashOf[s.pattern], s.first>>
           k == CacheKey(t, h)
<1>3. s \in Source
  BY <1>1, SourceTyped
<1>4. h \in Hash
  BY <1>3, HashTyped
<1>5. cache \in Seq(Entry) /\ call[t] \in Locals
  BY DEF TypeOK
<1> HIDE DEF h
<1>6. ASSUME k \in Keys PROVE Hit(t, h)
  <2>1. /\ cache' = Append(Others(k), EntryOf(k))
        /\ Goto(t, "stage", DoneReading(t, h, EntryOf(k).texels))
        /\ disturbed' = IF k \in suspect THEN disturbed \union {t} ELSE disturbed
    BY <1>2, <1>6 DEF h
  <2> HIDE DEF k
  <2>2. PICK j \in DOMAIN cache : EntryOf(k) = cache[j] /\ cache[j].key = k
    BY <1>5, <1>6, FoundSays
  <2>3. Found(cache')
    <3>1. Found(Append(Others(k), EntryOf(k)))
      BY <1>5, <1>6, FoundSays
    <3> QED
      BY <2>1, <3>1
  <2>4. cache[j].texels \in Texels
    <3>1. cache[j] \in Entry
      BY <1>5
    <3> QED
      BY <3>1 DEF Entry
  <2>5. at'[t] = "stage" /\ call'[t] = DoneReading(t, h, cache[j].texels)
    BY <2>1, <2>2, Stepping
  <2>6. Held(call'[t], call[t].memory, call[t].buffer, call[t].region, call[t].slice,
             None, 0, h, cache[j].texels)
    BY <1>4, <2>4, <2>5, DoneSays
  <2>7. \E c : Goto(t, "stage", c)
    BY <2>1
  <2> QED
    BY <2>1, <2>2, <2>3, <2>5, <2>6, <2>7 DEF Hit, k
<1>7. ASSUME k \notin Keys PROVE Missed(t, h)
  <2>1. Goto(t, "decode", [call[t] EXCEPT !.hash = h]) /\ cache' = cache /\ disturbed' = disturbed
    BY <1>2, <1>7 DEF h
  <2>2. at'[t] = "decode" /\ call'[t] = [call[t] EXCEPT !.hash = h]
    BY <2>1, Stepping
  <2>3. \A c \in Locals :
          Held([c EXCEPT !.hash = h],
               c.memory, c.buffer, c.region, c.slice, c.address, c.start, h, c.texels)
    BY <1>4, HashingSays
  <2>4. Held(call'[t], call[t].memory, call[t].buffer, call[t].region, call[t].slice,
             call[t].address, call[t].start, h, call[t].texels)
    BY <1>5, <2>2, <2>3, Zenon
  <2> QED
    BY <2>1, <2>2, <2>4 DEF Missed
<1> QED
  BY <1>3, <1>4, <1>6, <1>7 DEF h

\* Texels are stored.
Stored(t, k, y) ==
  /\ SizeOf([key |-> k, texels |-> y]) <= MaxEntryBytes
  /\ Kept(k, y)
  /\ cache' = StoredUnder(k, y).entries /\ bytes' = StoredUnder(k, y).total
  /\ suspect' = {key \in (IF t \in disturbed THEN suspect \union {k} ELSE suspect \ {k}) :
                   \E n \in DOMAIN cache' : cache'[n].key = key}

\* They are the copy's, stored or not.
Decoded(t, s, y) ==
  /\ s \in Source /\ y \in Texels
  /\ y.source = s /\ y.width = call[t].region.width /\ y.height = call[t].region.height
  /\ at'[t] = "stage"
  /\ Held(call'[t], call[t].memory, call[t].buffer, call[t].region, call[t].slice,
          None, 0, call[t].hash, y)
  /\ disturbed' = disturbed
  /\ \/ Stored(t, CacheKey(t, call[t].hash), y)
     \/ /\ cache' = cache /\ bytes' = bytes /\ suspect' = suspect
        /\ ~(call[t].region.width * call[t].region.height <= MaxEntryBytes)
  /\ \E c : Goto(t, "stage", c)

\* The read that decodes.
LEMMA DecodeSays ==
  ASSUME TypeOK, CallsInOrder, MappedApart, Counted, NEW t \in Threads, Decode(t)
  PROVE  \/ Return(t) /\ UNCHANGED <<cache, bytes, suspect>>
         \/ \E s \in SourcesAt(t) : \E y : Decoded(t, s, y)
<1> DEFINE r == call[t].region
           h == call[t].hash
           k == CacheKey(t, h)
<1>1. at[t] = "decode" /\ at[t] \in Copies /\ h \in Hash /\ call[t] \in Locals
  BY DEF Decode, Copies, CallsInOrder, InOrder, TypeOK
<1>2. CASE SliceStride(r) <= Footprint(r)
  <2>1. PICK s \in SourcesAt(t) :
          LET texels == [source |-> s, width |-> r.width, height |-> r.height]
              after == StoredUnder(k, texels)
          IN /\ Goto(t, "stage", DoneReading(t, h, texels))
             /\ IF r.width * r.height <= MaxEntryBytes
                  THEN /\ cache' = after.entries
                       /\ bytes' = after.total
                       /\ suspect' = {key \in (IF t \in disturbed THEN suspect \union {k}
                                                                  ELSE suspect \ {k}) :
                                        \E n \in DOMAIN cache' : cache'[n].key = key}
                  ELSE UNCHANGED <<cache_vars, suspect>>
             /\ UNCHANGED disturbed
    BY <1>2 DEF Decode
  <2> DEFINE y == [source |-> s, width |-> r.width, height |-> r.height]
  <2>2. s \in Source
    BY <1>1, SourceTyped
  <2>3. y \in Texels
    BY <1>1, <2>2, TexelsTyped
  <2>4. y.source = s /\ y.width = r.width /\ y.height = r.height
    OBVIOUS
  <2>5. Goto(t, "stage", DoneReading(t, h, y)) /\ disturbed' = disturbed
    BY <2>1
  <2>6. SizeOf([key |-> k, texels |-> y]) = r.width * r.height
    BY DEF SizeOf
  <2>7. ASSUME r.width * r.height <= MaxEntryBytes
        PROVE  Stored(t, k, y)
    <3>1. /\ cache' = StoredUnder(k, y).entries /\ bytes' = StoredUnder(k, y).total
          /\ suspect' = {key \in (IF t \in disturbed THEN suspect \union {k} ELSE suspect \ {k}) :
                           \E n \in DOMAIN cache' : cache'[n].key = key}
      BY <2>1, <2>7
    <3>2. k \in Key
      BY <1>1, KeyTyped
    <3>3. cache \in Seq(Entry)
      BY DEF TypeOK
    <3> HIDE DEF k, y
    <3>4. Kept(k, y)
      BY <2>3, <2>6, <2>7, <3>2, <3>3, StoredSays DEF Counted
    <3> QED
      BY <2>6, <2>7, <3>1, <3>4 DEF Stored
  <2>8. ASSUME ~(r.width * r.height <= MaxEntryBytes)
        PROVE  cache' = cache /\ bytes' = bytes /\ suspect' = suspect
    BY <2>1, <2>8 DEF cache_vars
  <2> HIDE DEF y
  <2>9. at'[t] = "stage" /\ call'[t] = DoneReading(t, h, y)
    BY <2>5, Stepping
  <2>10. Held(call'[t], call[t].memory, call[t].buffer, call[t].region, call[t].slice,
              None, 0, h, y)
    BY <1>1, <2>3, <2>9, DoneSays
  <2>11. \E c : Goto(t, "stage", c)
    BY <2>5
  <2>12. Decoded(t, s, y)
    BY <2>2, <2>3, <2>4, <2>5, <2>7, <2>8, <2>9, <2>10, <2>11 DEF Decoded
  <2> QED
    BY <2>12
<1>3. CASE ~(SliceStride(r) <= Footprint(r))
  BY <1>3 DEF Decode, cache_vars
<1> QED
  BY <1>2, <1>3

\* The next slice, if there is one.
LEMMA StageSays ==
  ASSUME TypeOK, CallsInOrder, NEW t \in Threads, Stage(t)
  PROVE  \/ Return(t)
         \/ /\ call[t].slice + 1 \in 0 .. (call[t].region.slices - 1)
            /\ at'[t] = "resolve"
            /\ Held(call'[t], None, call[t].buffer, call[t].region, call[t].slice + 1,
                    None, 0, <<>>, NoTexels)
            /\ \E c : Goto(t, "resolve", c)
            /\ disturbed' = disturbed \ {t}
<1>1. at[t] = "stage" /\ at[t] \in Copies
  BY DEF Stage, Copies
<1>2. /\ call[t].region \in Regions /\ call[t].slice \in 0 .. (call[t].region.slices - 1)
      /\ call[t].region.slices \in Nat
  BY <1>1, SliceTyped, UploadsAssumption DEF Region
<1>3. call[t].buffer \in Buffers
  BY <1>1 DEF CallsInOrder, InOrder
<1>4. CASE Return(t)
  BY <1>4
<1>5. CASE /\ call[t].slice + 1 < call[t].region.slices
           /\ Goto(t, "resolve", [NoCall EXCEPT !.buffer = call[t].buffer,
                                                !.region = call[t].region,
                                                !.slice = call[t].slice + 1])
           /\ disturbed' = disturbed \ {t}
  <2>1. call[t].slice + 1 \in 0 .. (call[t].region.slices - 1) /\ call[t].slice + 1 \in Nat
    BY <1>2, <1>5
  <2>2. at'[t] = "resolve" /\ call'[t] = [NoCall EXCEPT !.buffer = call[t].buffer,
                                                        !.region = call[t].region,
                                                        !.slice = call[t].slice + 1]
    BY <1>5, Stepping
  <2>3. Held(call'[t], None, call[t].buffer, call[t].region, call[t].slice + 1,
             None, 0, <<>>, NoTexels)
    <3>1. \A b \in Buffers, r \in Regions, s \in Nat :
            Held([NoCall EXCEPT !.buffer = b, !.region = r, !.slice = s],
                 None, b, r, s, None, 0, <<>>, NoTexels)
      BY CopyingSays
    <3>2. Held([NoCall EXCEPT !.buffer = call[t].buffer, !.region = call[t].region,
                              !.slice = call[t].slice + 1],
               None, call[t].buffer, call[t].region, call[t].slice + 1, None, 0, <<>>, NoTexels)
      BY <1>2, <1>3, <2>1, <3>1, Zenon
    <3> QED
      BY <2>2, <3>2
  <2> QED
    BY <1>5, <2>1, <2>2, <2>3
<1> QED
  BY <1>4, <1>5 DEF Stage

\* The cache's limits, in the terms of these lemmas.
LEMMA LimitsSay ==
  CacheWithinLimits <=>
    Counted /\ \A n \in DOMAIN cache : SizeOf(cache[n]) <= MaxEntryBytes
BY DEF CacheWithinLimits, Counted, KeysApart, IsInjective

\* Readers are threads.
LEMMA ReadersTyped == \A m \in Memories : ReadersOf(m) \subseteq Threads
BY DEF ReadersOf

\* What the application and the driver do outside calls keeps the types.
LEMMA TypeOutside ==
  ASSUME TypeOK, Outside
  PROVE  TypeOK'
<1>1. ASSUME NEW m \in Memories, FreeMemory(m) PROVE TypeOK'
  BY <1>1, ReadersTyped DEF FreeMemory, TypeOK, layer_vars, cache_vars
<1>2. ASSUME NEW m \in Memories, NEW p \in Patterns, AllocateMemory(m, p) PROVE TypeOK'
  BY <1>2 DEF AllocateMemory, TypeOK, layer_vars, cache_vars
<1>3. ASSUME NEW m \in Memories, NEW p \in Patterns, HostWrite(m, p) PROVE TypeOK'
  BY <1>3, ReadersTyped DEF HostWrite, TypeOK, layer_vars, cache_vars
<1>4. ASSUME NEW m \in Memories, NEW b \in Buffers, NEW offset \in BindOffsets,
             BindBufferMemory(b, m, offset)
      PROVE  TypeOK'
  <2>1. [memory |-> m, offset |-> offset] \in Binding
    BY UploadsAssumption DEF Binding, Cells
  <2> QED
    BY <1>4, <2>1 DEF BindBufferMemory, TypeOK, cache_vars
<1>5. ASSUME NEW b \in Buffers, DestroyBuffer(b) PROVE TypeOK'
  BY <1>5 DEF DestroyBuffer, TypeOK, layer_vars, cache_vars
<1>6. ASSUME DestroyDevice PROVE TypeOK'
  BY <1>6 DEF DestroyDevice, TypeOK, cache_vars
<1> QED
  BY <1>1, <1>2, <1>3, <1>4, <1>5, <1>6 DEF Outside

\* So do the steps that neither touch the cache nor read.
LEMMA TypeOfCalls ==
  ASSUME TypeOK, CallsInOrder, NEW t \in Threads, Steps(t), ~HashAndFind(t), ~Decode(t)
  PROVE  TypeOK'
<1>1. ASSUME NEW m \in Memories, UnmapMemory(t, m) PROVE TypeOK'
  <2>1. CallsTyped(at', call')
    <3>1. [NoCall EXCEPT !.memory = m] \in Locals /\ [NoCall EXCEPT !.memory = m].region = NoRegion
      BY HandlingSays DEF Held
    <3> QED
      BY <1>1, <3>1, GotoTyped DEF UnmapMemory
  <2> QED
    BY <1>1, <2>1 DEF UnmapMemory, TypeOK, CallsTyped, app_vars, cache_vars
<1>2. ASSUME NEW m \in Memories, NEW range \in Ranges, MapMemory(t, m, range) PROVE TypeOK'
  <2>1. CallsTyped(at', call')
    <3>1. [NoCall EXCEPT !.memory = m] \in Locals /\ [NoCall EXCEPT !.memory = m].region = NoRegion
      BY HandlingSays DEF Held
    <3> QED
      BY <1>2, <3>1, GotoTyped DEF MapMemory
  <2>2. mapping' \in [Memories -> Mapping \union {NoMapping}]
    <3>1. PICK a \in Addresses :
            mapping' = [mapping EXCEPT ![m] =
                          [address |-> a, offset |-> range.offset, size |-> range.size]]
      BY <1>2 DEF MapMemory
    <3>2. [address |-> a, offset |-> range.offset, size |-> range.size] \in Mapping
      BY UploadsAssumption DEF Mapping, Cells, WholeSize
    <3> QED
      BY <3>1, <3>2 DEF TypeOK
  <2> QED
    BY <1>2, <2>1, <2>2 DEF MapMemory, TypeOK, CallsTyped, layer_vars, cache_vars
<1>3. ASSUME NEW b \in Buffers, NEW r \in Regions, CopyBufferToImage(t, b, r) PROVE TypeOK'
  <2>1. CallsTyped(at', call')
    <3>1. /\ [NoCall EXCEPT !.buffer = b, !.region = r] \in Locals
          /\ [NoCall EXCEPT !.buffer = b, !.region = r].region = r
          /\ [NoCall EXCEPT !.buffer = b, !.region = r].slice = 0
      BY CopyingSays DEF Held
    <3>2. 0 \in 0 .. (r.slices - 1)
      BY UploadsAssumption DEF Region
    <3> QED
      BY <1>3, <3>1, <3>2, GotoTyped DEF CopyBufferToImage
  <2> QED
    BY <1>3, <2>1 DEF CopyBufferToImage, TypeOK, CallsTyped, app_vars, layer_vars, cache_vars
<1>4. CASE TrackMap(t)
  <2>1. CallsTyped(at', call')
    BY <1>4, ReturnTyped DEF TrackMap, Return
  <2>2. call[t].memory \in Memories
    BY <1>4 DEF TrackMap, CallsInOrder, InOrder
  <2> QED
    BY <1>4, <2>1, <2>2 DEF TrackMap, Return, TypeOK, CallsTyped, app_vars, cache_vars
<1>5. CASE DriverUnmap(t)
  <2>1. CallsTyped(at', call')
    BY <1>5, ReturnTyped DEF DriverUnmap
  <2>2. call[t].memory \in Memories
    BY <1>5 DEF DriverUnmap, CallsInOrder, InOrder
  <2> QED
    BY <1>5, <2>1, <2>2, ReadersTyped DEF DriverUnmap, TypeOK, CallsTyped, layer_vars, cache_vars
<1>6. CASE Resolve(t)
  <2>1. CallsTyped(at', call')
    <3>1. CASE Return(t)
      BY <3>1, ReturnTyped DEF Return
    <3>2. CASE Pointed(t)
      <4>1. PICK a, x : Goto(t, "hash", [call[t] EXCEPT !.address = a, !.start = x])
        BY <3>2 DEF Pointed
      <4>2. call'[t] = [call[t] EXCEPT !.address = a, !.start = x]
        BY <4>1, Stepping
      <4>3. /\ call'[t] \in Locals
            /\ call'[t].region = call[t].region /\ call'[t].slice = call[t].slice
        BY <3>2 DEF Pointed, Held
      <4>4. call'[t].region # NoRegion => call'[t].slice \in 0 .. (call'[t].region.slices - 1)
        BY <4>3 DEF TypeOK
      <4> QED
        BY <4>1, <4>2, <4>3, <4>4, GotoTyped
    <3> QED
      BY <1>6, <3>1, <3>2, ResolveSays
  <2>2. disturbed' \subseteq Threads
    BY <1>6 DEF Resolve, Return, TypeOK
  <2> QED
    BY <1>6, <2>1, <2>2 DEF Resolve, TypeOK, CallsTyped, app_vars, layer_vars, cache_vars
<1>7. CASE Stage(t)
  <2>1. CallsTyped(at', call')
    <3>1. CASE Return(t)
      BY <3>1, ReturnTyped DEF Return
    <3>2. CASE /\ call[t].slice + 1 \in 0 .. (call[t].region.slices - 1)
               /\ Held(call'[t], None, call[t].buffer, call[t].region, call[t].slice + 1,
                       None, 0, <<>>, NoTexels)
               /\ \E c : Goto(t, "resolve", c)
      <4>1. PICK c : Goto(t, "resolve", c)
        BY <3>2
      <4>2. call'[t] = c
        BY <4>1, Stepping
      <4>3. c \in Locals /\ c.slice \in 0 .. (c.region.slices - 1)
        BY <3>2, <4>2 DEF Held
      <4> QED
        BY <4>1, <4>3, GotoTyped
    <3> QED
      BY <1>7, <3>1, <3>2, StageSays
  <2>2. disturbed' \subseteq Threads
    BY <1>7 DEF Stage, Return, TypeOK
  <2> QED
    BY <1>7, <2>1, <2>2 DEF Stage, TypeOK, CallsTyped, app_vars, layer_vars, cache_vars
<1> QED
  BY <1>1, <1>2, <1>3, <1>4, <1>5, <1>6, <1>7 DEF Steps

\* And the two that read.
LEMMA TypeOfReads ==
  ASSUME TypeOK, CallsInOrder, MappedApart, Counted, NEW t \in Threads, HashAndFind(t) \/ Decode(t)
  PROVE  TypeOK'
<1>1. at[t] \in Copies
  BY DEF HashAndFind, Decode, Copies
<1>2. ASSUME NEW step \in {"stage", "decode"}, NEW c, Goto(t, step, c),
             NEW h, NEW y, NEW a, NEW x,
             Held(call'[t], call[t].memory, call[t].buffer, call[t].region, call[t].slice,
                  a, x, h, y)
      PROVE  CallsTyped(at', call')
  <2>1. call'[t] = c
    BY <1>2, Stepping
  <2>2. c \in Locals /\ c.region = call[t].region /\ c.slice = call[t].slice
    BY <1>2, <2>1 DEF Held
  <2>3. c.region # NoRegion => c.slice \in 0 .. (c.region.slices - 1)
    BY <2>2 DEF TypeOK
  <2> QED
    BY <1>2, <2>2, <2>3, GotoTyped
<1>3. CASE HashAndFind(t)
  <2>1. PICK s \in SourcesAt(t) : \E h : Hit(t, h) \/ Missed(t, h)
    BY <1>3, HashSays DEF Counted
  <2>2. PICK h : Hit(t, h) \/ Missed(t, h)
    BY <2>1
  <2>3. CallsTyped(at', call')
    BY <1>2, <2>2 DEF Hit, Missed
  <2>4. cache' \in Seq(Entry)
    BY <2>2 DEF Hit, Missed, Found, TypeOK
  <2>5. disturbed' \subseteq Threads
    BY <2>2 DEF Hit, Missed, TypeOK
  <2> QED
    BY <1>3, <2>3, <2>4, <2>5 DEF HashAndFind, TypeOK, CallsTyped, app_vars, layer_vars
<1>4. CASE Decode(t)
  <2>1. CASE Return(t) /\ UNCHANGED <<cache, bytes, suspect>>
    <3>1. CallsTyped(at', call')
      BY <2>1, ReturnTyped DEF Return
    <3> QED
      BY <1>4, <2>1, <3>1 DEF Decode, Return, TypeOK, CallsTyped, app_vars, layer_vars
  <2>2. ASSUME NEW s \in SourcesAt(t), NEW y, Decoded(t, s, y) PROVE TypeOK'
    <3>1. CallsTyped(at', call')
      BY <1>2, <2>2 DEF Decoded
    <3> DEFINE k == CacheKey(t, call[t].hash)
    <3>2. k \in Key
      <4>1. call[t].hash \in Hash
        BY <1>4 DEF Decode, CallsInOrder, InOrder
      <4> QED
        BY <1>1, <4>1, KeyTyped
    <3> HIDE DEF k
    <3>3. cache' \in Seq(Entry) /\ bytes' \in Nat /\ suspect' \subseteq Key
      <4>1. CASE Stored(t, k, y)
        <5>1. cache' \in Seq(Entry) /\ bytes' = BytesOf(StoredUnder(k, y).entries)
              /\ StoredUnder(k, y).entries \in Seq(Entry)
          BY <4>1 DEF Stored, Kept
        <5>2. bytes' \in Nat
          BY <5>1, BytesTyped
        <5>3. suspect' \subseteq Key
          BY <3>2, <4>1 DEF Stored, TypeOK
        <5> QED
          BY <5>1, <5>2, <5>3
      <4>2. CASE cache' = cache /\ bytes' = bytes /\ suspect' = suspect
        BY <4>2 DEF TypeOK
      <4> QED
        BY <2>2, <4>1, <4>2 DEF Decoded, k
    <3>4. disturbed' = disturbed
      BY <2>2 DEF Decoded
    <3> QED
      BY <1>4, <3>1, <3>3, <3>4 DEF Decode, TypeOK, CallsTyped, app_vars, layer_vars
  <2> QED
    BY <1>4, <2>1, <2>2, DecodeSays
<1> QED
  BY <1>3, <1>4

\* Every step keeps the types ...
LEMMA TypeNext ==
  ASSUME IInv, [Next]_vars
  PROVE  TypeOK'
<1>1. TypeOK /\ CallsInOrder /\ MappedApart /\ Counted
  BY LimitsSay DEF IInv
<1>2. CASE UNCHANGED vars
  BY <1>1, <1>2 DEF vars, TypeOK
<1>3. CASE Outside
  BY <1>1, <1>3, TypeOutside
<1>4. ASSUME NEW t \in Threads, Steps(t) PROVE TypeOK'
  BY <1>1, <1>4, TypeOfCalls, TypeOfReads
<1> QED
  BY <1>2, <1>3, <1>4, NextSays

-----------------------------------------------------------------------------
(* The calls stay in order.                                                *)

\* A thread that returns is idle.
LEMMA ReturnInOrder ==
  ASSUME TypeOK, NEW t \in Threads, Goto(t, "idle", NoCall)
  PROVE  InOrder(t)'
<1>1. at'[t] = "idle" /\ call'[t] = NoCall
  BY Stepping
<1>2. call'[t].memory \notin Memories
  BY <1>1, NoCallSays, NoneApart DEF Held
<1> QED
  BY <1>1, <1>2 DEF InOrder, Copies

\* A copy that goes on keeps its buffer and its region.
LEMMA CopyInOrder ==
  ASSUME TypeOK, CallsInOrder, NEW t \in Threads, at[t] \in Copies, at'[t] \in Copies,
         binding' = binding, NEW s, NEW a, NEW x, NEW h, NEW y,
         \/ Held(call'[t], call[t].memory, call[t].buffer, call[t].region, s, a, x, h, y)
         \/ Held(call'[t], None, call[t].buffer, call[t].region, s, a, x, h, y),
         at'[t] \in {"hash", "decode"} => a \in Addresses,
         at'[t] \in {"decode", "stage"} => h \in Hash,
         at'[t] = "stage" => y \in Texels
  PROVE  InOrder(t)'
<1>1. InOrder(t) /\ at[t] \notin {"idle", "track_map", "unmap"}
  BY DEF CallsInOrder, Copies
<1>2. at'[t] \notin {"idle", "track_map", "unmap"}
  BY DEF Copies
<1>3. call'[t].memory \notin Memories
  BY <1>1, NoneApart DEF InOrder, Held
<1>4. /\ call'[t].buffer \in Buffers /\ call'[t].region \in Regions
      /\ binding'[call'[t].buffer] # NoBinding
  BY <1>1 DEF InOrder, Held
<1>5. call'[t].address = a /\ call'[t].hash = h /\ call'[t].texels = y
  BY DEF Held
<1> QED
  BY <1>2, <1>3, <1>4, <1>5 DEF InOrder

\* ... the locals in order ...
LEMMA CallsNext ==
  ASSUME IInv, [Next]_vars
  PROVE  CallsInOrder'
<1>1. TypeOK /\ CallsInOrder /\ MappedApart /\ Counted
  BY LimitsSay DEF IInv
<1>2. SUFFICES ASSUME NEW t \in Threads PROVE InOrder(t)'
  BY DEF CallsInOrder
<1>3. InOrder(t)
  BY <1>1 DEF CallsInOrder
<1>4. CASE Stays(t)
  <2>1. at[t] \in Copies => binding'[call[t].buffer] = binding[call[t].buffer]
    BY <1>1, BindingStays
  <2> QED
    BY <1>3, <1>4, <2>1 DEF Stays, InOrder
<1>5. ASSUME Steps(t) PROVE binding' = binding
  BY <1>5 DEF Steps, UnmapMemory, MapMemory, CopyBufferToImage, TrackMap, DriverUnmap, Resolve,
              HashAndFind, Decode, Stage, app_vars
<1>6. ASSUME NEW m \in Memories, NEW step \in {"track_map", "unmap"},
             Goto(t, step, [NoCall EXCEPT !.memory = m])
      PROVE  InOrder(t)'
  <2>1. at'[t] = step /\ call'[t] = [NoCall EXCEPT !.memory = m]
    BY <1>1, <1>6, Stepping
  <2>2. call'[t].memory = m
    BY <2>1, HandlingSays DEF Held
  <2> QED
    BY <2>1, <2>2 DEF InOrder, Copies
<1>7. ASSUME NEW b \in Buffers, NEW r \in Regions, CopyBufferToImage(t, b, r) PROVE InOrder(t)'
  <2>1. at'[t] = "resolve" /\ call'[t] = [NoCall EXCEPT !.buffer = b, !.region = r]
    BY <1>1, <1>7, Stepping DEF CopyBufferToImage
  <2>2. call'[t].memory = None /\ call'[t].buffer = b /\ call'[t].region = r
    <3>1. Held([NoCall EXCEPT !.buffer = b, !.region = r],
               None, b, r, 0, None, 0, <<>>, NoTexels)
      BY CopyingSays, 0 \in Nat
    <3> QED
      BY <2>1, <3>1 DEF Held
  <2>3. binding' = binding /\ binding[b] # NoBinding
    BY <1>7 DEF CopyBufferToImage, app_vars
  <2> QED
    BY <2>1, <2>2, <2>3, NoneApart DEF InOrder, Copies
<1>8. CASE Resolve(t)
  <2>1. at[t] \in Copies /\ binding' = binding
    BY <1>5, <1>8 DEF Resolve, Copies, Steps
  <2>2. CASE Pointed(t)
    <3> DEFINE m == maps[bindings[call[t].buffer].memory]
    <3>1. /\ at'[t] = "hash" /\ m.address \in Addresses
          /\ Held(call'[t], call[t].memory, call[t].buffer, call[t].region, call[t].slice,
                  m.address, call'[t].start, call[t].hash, call[t].texels)
      BY <2>2 DEF Pointed
    <3>2. at'[t] \in Copies /\ at'[t] \notin {"decode", "stage"}
      BY <3>1 DEF Copies
    <3> HIDE DEF m
    <3> QED
      BY <1>1, <2>1, <3>1, <3>2, CopyInOrder
  <2> QED
    BY <1>1, <1>8, <2>2, ResolveSays, ReturnInOrder DEF Return
<1>9. CASE HashAndFind(t)
  <2>1. at[t] = "hash" /\ at[t] \in Copies /\ binding' = binding
    BY <1>5, <1>9 DEF HashAndFind, Copies, Steps
  <2>2. PICK s \in SourcesAt(t) :
          /\ <<HashOf[s.pattern], s.first>> \in Hash
          /\ \/ Hit(t, <<HashOf[s.pattern], s.first>>)
             \/ Missed(t, <<HashOf[s.pattern], s.first>>)
    BY <1>1, <1>9, HashSays DEF Counted
  <2> DEFINE h == <<HashOf[s.pattern], s.first>>
  <2>3. h \in Hash /\ (Hit(t, h) \/ Missed(t, h))
    BY <2>2
  <2> HIDE DEF h
  <2>4. CASE Hit(t, h)
    <3>1. PICK j \in DOMAIN cache :
            Held(call'[t], call[t].memory, call[t].buffer, call[t].region, call[t].slice,
                 None, 0, h, cache[j].texels)
      BY <2>4 DEF Hit
    <3>2. cache[j].texels \in Texels
      <4>1. cache[j] \in Entry
        BY <1>1 DEF TypeOK
      <4> QED
        BY <4>1 DEF Entry
    <3>3. at'[t] = "stage" /\ at'[t] \in Copies
      BY <2>4 DEF Hit, Copies
    <3>4. at'[t] \notin {"hash", "decode"}
      BY <3>3
    <3> QED
      BY <1>1, <2>1, <2>3, <3>1, <3>2, <3>3, <3>4, CopyInOrder
  <2>5. CASE Missed(t, h)
    <3>1. /\ at'[t] = "decode" /\ at'[t] \in Copies /\ at'[t] # "stage"
          /\ Held(call'[t], call[t].memory, call[t].buffer, call[t].region, call[t].slice,
                  call[t].address, call[t].start, h, call[t].texels)
      BY <2>5 DEF Missed, Copies
    <3>2. call[t].address \in Addresses
      BY <1>3, <2>1 DEF InOrder
    <3> QED
      BY <1>1, <2>1, <2>3, <3>1, <3>2, CopyInOrder
  <2> QED
    BY <2>3, <2>4, <2>5
<1>10. CASE Decode(t)
  <2>1. at[t] = "decode" /\ at[t] \in Copies /\ binding' = binding
    BY <1>5, <1>10 DEF Decode, Copies, Steps
  <2>2. ASSUME NEW s \in SourcesAt(t), NEW y, Decoded(t, s, y) PROVE InOrder(t)'
    <3>1. /\ at'[t] = "stage" /\ at'[t] \in Copies /\ at'[t] \notin {"hash", "decode"}
          /\ Held(call'[t], call[t].memory, call[t].buffer, call[t].region, call[t].slice,
                  None, 0, call[t].hash, y)
          /\ y \in Texels
      BY <2>2 DEF Decoded, Copies
    <3>2. call[t].hash \in Hash
      BY <1>3, <2>1 DEF InOrder
    <3> QED
      BY <1>1, <2>1, <3>1, <3>2, CopyInOrder
  <2> QED
    BY <1>1, <1>10, <2>2, DecodeSays, ReturnInOrder DEF Return
<1>11. CASE Stage(t)
  <2>1. at[t] = "stage" /\ at[t] \in Copies /\ binding' = binding
    BY <1>5, <1>11 DEF Stage, Copies, Steps
  <2>2. CASE /\ at'[t] = "resolve"
             /\ Held(call'[t], None, call[t].buffer, call[t].region, call[t].slice + 1,
                     None, 0, <<>>, NoTexels)
    <3>1. at'[t] \in Copies /\ at'[t] \notin {"hash", "decode", "stage"}
      BY <2>2 DEF Copies
    <3> QED
      BY <1>1, <2>1, <2>2, <3>1, CopyInOrder
  <2> QED
    BY <1>1, <1>11, <2>2, StageSays, ReturnInOrder DEF Return
<1>12. CASE TrackMap(t) \/ DriverUnmap(t)
  BY <1>1, <1>12, ReturnInOrder DEF TrackMap, DriverUnmap, Return
<1>13. CASE Steps(t)
  BY <1>6, <1>7, <1>8, <1>9, <1>10, <1>11, <1>12, <1>13 DEF Steps, UnmapMemory, MapMemory
<1> QED
  BY <1>1, <1>4, <1>13, StepsOrStays

-----------------------------------------------------------------------------
(* The maps.                                                               *)

\* The memory of a call: none, but for the two that map and unmap.
LEMMA MemoriesOfCalls ==
  ASSUME IInv, [Next]_vars, NEW t \in Threads, call'[t].memory \in Memories
  PROVE  \/ at'[t] = at[t] /\ call'[t] = call[t]
         \/ UnmapMemory(t, call'[t].memory) /\ at'[t] = "unmap"
         \/ (\E range \in Ranges : MapMemory(t, call'[t].memory, range)) /\ at'[t] = "track_map"
<1>1. TypeOK /\ CallsInOrder /\ InOrder(t)'
  BY CallsNext DEF IInv, CallsInOrder
<1>2. at'[t] \in {"track_map", "unmap"}
  BY <1>1 DEF InOrder
<1>3. CASE Stays(t)
  BY <1>3 DEF Stays
<1>4. ASSUME NEW m \in Memories, UnmapMemory(t, m)
      PROVE  UnmapMemory(t, call'[t].memory) /\ at'[t] = "unmap"
  <2>1. at'[t] = "unmap" /\ call'[t] = [NoCall EXCEPT !.memory = m]
    BY <1>1, <1>4, Stepping DEF UnmapMemory
  <2>2. call'[t].memory = m
    BY <2>1, HandlingSays DEF Held
  <2> QED
    BY <1>4, <2>1, <2>2
<1>5. ASSUME NEW m \in Memories, NEW range \in Ranges, MapMemory(t, m, range)
      PROVE  MapMemory(t, call'[t].memory, range) /\ at'[t] = "track_map"
  <2>1. at'[t] = "track_map" /\ call'[t] = [NoCall EXCEPT !.memory = m]
    BY <1>1, <1>5, Stepping DEF MapMemory
  <2>2. call'[t].memory = m
    BY <2>1, HandlingSays DEF Held
  <2> QED
    BY <1>5, <2>1, <2>2
<1>6. ASSUME \/ \E b \in Buffers, r \in Regions : CopyBufferToImage(t, b, r)
             \/ TrackMap(t) \/ DriverUnmap(t)
             \/ Resolve(t) \/ HashAndFind(t) \/ Decode(t) \/ Stage(t)
      PROVE  FALSE
  <2>1. ASSUME NEW step \in {"idle", "resolve", "hash", "decode", "stage"}, NEW c,
               Goto(t, step, c)
        PROVE  FALSE
    BY <1>1, <1>2, <2>1, Stepping
  <2>2. CASE \E b \in Buffers, r \in Regions : CopyBufferToImage(t, b, r)
    BY <2>1, <2>2 DEF CopyBufferToImage
  <2>3. CASE TrackMap(t) \/ DriverUnmap(t)
    BY <2>1, <2>3 DEF TrackMap, DriverUnmap, Return
  <2>4. CASE Resolve(t)
    BY <2>1, <2>4 DEF Resolve, Return
  <2>5. CASE HashAndFind(t)
    <3>1. (\E c : Goto(t, "stage", c)) \/ (\E c : Goto(t, "decode", c))
      BY <2>5 DEF HashAndFind
    <3> QED
      BY <2>1, <3>1
  <2>6. CASE Decode(t)
    <3>1. (\E c : Goto(t, "stage", c)) \/ Goto(t, "idle", NoCall)
      BY <2>6 DEF Decode, Return
    <3> QED
      BY <2>1, <3>1
  <2>7. CASE Stage(t)
    BY <2>1, <2>7 DEF Stage, Return
  <2> QED
    BY <1>6, <2>2, <2>3, <2>4, <2>5, <2>6, <2>7
<1> QED
  BY <1>1, <1>3, <1>4, <1>5, <1>6, StepsOrStays DEF Steps

\* Who changes the map of memories, and how.
LEMMA MapsChange ==
  ASSUME [Next]_vars
  PROVE  \/ maps' = maps
         \/ \E t \in Threads, m \in Memories : UnmapMemory(t, m)
         \/ \E t \in Threads : TrackMap(t)
         \/ DestroyDevice
BY NextSays DEF vars, Outside, FreeMemory, AllocateMemory, HostWrite, BindBufferMemory,
   DestroyBuffer, Steps, MapMemory, CopyBufferToImage, DriverUnmap, Resolve, HashAndFind, Decode,
   Stage, layer_vars

\* ... one handler for a memory ...
LEMMA HandledNext ==
  ASSUME IInv, [Next]_vars
  PROVE  HandledOnce'
<1>1. TypeOK /\ CallsInOrder /\ HandledOnce
  BY DEF IInv
<1>2. ASSUME NEW t \in Threads, NEW u \in Threads,
             call'[t].memory = call'[u].memory, call'[t].memory \in Memories
      PROVE  t = u
  <2> DEFINE m == call'[t].memory
  <2>1. SUFFICES ASSUME t # u PROVE FALSE
    OBVIOUS
  <2>2. ASSUME NEW v \in Threads, NEW w \in Threads, v # w, Steps(v), ~Handled(m),
               call'[w].memory = m
        PROVE  FALSE
    <3>1. Stays(w)
      BY <1>1, <2>2, OthersStay
    <3> QED
      BY <2>2, <3>1 DEF Stays, Handled
  <2>3. ASSUME NEW v \in Threads, call'[v].memory = m
        PROVE  call'[v] = call[v] \/ (Steps(v) /\ ~Handled(m))
    BY <1>2, <2>3, MemoriesOfCalls DEF Steps, UnmapMemory, MapMemory
  <2>4. call'[t] = call[t] /\ call'[u] = call[u]
    BY <1>2, <2>1, <2>2, <2>3
  <2> QED
    BY <1>1, <1>2, <2>1, <2>4 DEF HandledOnce
<1>3. ASSUME NEW t \in Threads, at'[t] = "unmap"
      PROVE  maps'[call'[t].memory] = NoMapping
  <2> DEFINE m == call'[t].memory
  <2>1. m \in Memories
    BY <1>3, CallsNext DEF CallsInOrder, InOrder
  <2>2. CASE at'[t] = at[t] /\ call'[t] = call[t]
    <3>1. maps[m] = NoMapping /\ m = call[t].memory /\ at[t] = "unmap"
      BY <1>1, <1>3, <2>2 DEF HandledOnce
    <3> HIDE DEF m
    <3>2. CASE maps' = maps
      BY <3>1, <3>2 DEF m
    <3>3. ASSUME NEW u \in Threads, NEW n \in Memories, UnmapMemory(u, n) PROVE maps'[m] = NoMapping
      BY <1>1, <2>1, <3>1, <3>3 DEF UnmapMemory, TypeOK
    <3>4. ASSUME NEW u \in Threads, TrackMap(u) PROVE maps'[m] = NoMapping
      <4>1. call[u].memory # m
        BY <1>1, <2>1, <3>1, <3>4 DEF TrackMap, HandledOnce
      <4> QED
        BY <1>1, <2>1, <3>1, <3>4, <4>1 DEF TrackMap, TypeOK
    <3>5. CASE DestroyDevice
      BY <2>1, <3>5 DEF DestroyDevice, m
    <3> QED
      BY <3>2, <3>3, <3>4, <3>5, MapsChange DEF m
  <2>3. CASE UnmapMemory(t, m)
    BY <1>1, <2>1, <2>3 DEF UnmapMemory, TypeOK
  <2> QED
    BY <1>3, <2>1, <2>2, <2>3, MemoriesOfCalls
<1> QED
  BY <1>2, <1>3 DEF HandledOnce

\* What the driver knows of memories, and who changes it.
Apart(h, mp) ==
  /\ \A m \in Memories : mp[m] # NoMapping => h[m] # None
  /\ \A m, n \in Memories : mp[m].address = mp[n].address /\ mp[m] # NoMapping => m = n

\* ... mappings apart ...
LEMMA MappedNext ==
  ASSUME IInv, [Next]_vars
  PROVE  MappedApart'
<1>1. TypeOK /\ Apart(holds, mapping)
  BY DEF IInv, MappedApart, Apart
<1>2. SUFFICES Apart(holds', mapping')
  BY DEF MappedApart, Apart
<1>3. /\ holds \in [Memories -> Patterns \union {None}]
      /\ mapping \in [Memories -> Mapping \union {NoMapping}]
  BY <1>1 DEF TypeOK
<1>4. NoMapping.address = None /\ \A mp \in Mapping : mp.address \in Addresses
  BY DEF NoMapping, Mapping
<1>5. ASSUME NEW k \in Memories, mapping' = [mapping EXCEPT ![k] = NoMapping],
             holds' = holds \/ holds' = [holds EXCEPT ![k] = None]
      PROVE  Apart(holds', mapping')
  <2>1. ASSUME NEW m \in Memories, mapping'[m] # NoMapping
        PROVE  m # k /\ mapping'[m] = mapping[m] /\ holds'[m] = holds[m]
    BY <1>3, <1>5, <2>1
  <2>2. ASSUME NEW m \in Memories, NEW n \in Memories,
               mapping'[m].address = mapping'[n].address, mapping'[m] # NoMapping
        PROVE  m = n
    <3>1. mapping'[m].address \in Addresses
      BY <1>3, <1>4, <2>1, <2>2
    <3>2. mapping'[n] # NoMapping
      BY <1>4, <2>2, <3>1, NoneApart
    <3> QED
      BY <1>1, <2>1, <2>2, <3>2 DEF Apart
  <2> QED
    BY <1>1, <2>1, <2>2 DEF Apart
<1>6. ASSUME NEW k \in Memories, NEW p \in Patterns, mapping' = mapping,
             holds' = [holds EXCEPT ![k] = p]
      PROVE  Apart(holds', mapping')
  BY <1>1, <1>3, <1>6, NoneApart DEF Apart
<1>7. ASSUME NEW t \in Threads, NEW k \in Memories, NEW range \in Ranges, MapMemory(t, k, range)
      PROVE  Apart(holds', mapping')
  <2>1. PICK a \in Addresses :
          /\ \A n \in Memories : mapping[n].address # a
          /\ mapping' = [mapping EXCEPT ![k] =
                           [address |-> a, offset |-> range.offset, size |-> range.size]]
    BY <1>7 DEF MapMemory
  <2>2. holds' = holds /\ holds[k] # None
    BY <1>7 DEF MapMemory
  <2>3. mapping'[k].address = a /\ \A m \in Memories \ {k} : mapping'[m] = mapping[m]
    BY <1>3, <2>1
  <2> QED
    BY <1>1, <2>1, <2>2, <2>3 DEF Apart
<1>8. CASE mapping' = mapping /\ holds' = holds
  BY <1>1, <1>8
<1>9. CASE DestroyDevice
  BY <1>4, <1>9 DEF DestroyDevice, Apart
<1>10. CASE Outside
  <2>1. ASSUME NEW m \in Memories, FreeMemory(m) PROVE Apart(holds', mapping')
    BY <1>5, <2>1 DEF FreeMemory
  <2>2. ASSUME NEW m \in Memories, NEW p \in Patterns, AllocateMemory(m, p) \/ HostWrite(m, p)
        PROVE  Apart(holds', mapping')
    BY <1>6, <2>2 DEF AllocateMemory, HostWrite
  <2>3. ASSUME \/ \E m \in Memories, b \in Buffers, offset \in BindOffsets :
                    BindBufferMemory(b, m, offset)
               \/ \E b \in Buffers : DestroyBuffer(b)
        PROVE  Apart(holds', mapping')
    BY <1>8, <2>3 DEF BindBufferMemory, DestroyBuffer
  <2> QED
    BY <1>9, <1>10, <2>1, <2>2, <2>3 DEF Outside
<1>11. ASSUME NEW t \in Threads, Steps(t) PROVE Apart(holds', mapping')
  <2>1. CASE DriverUnmap(t)
    <3>1. call[t].memory \in Memories
      BY <2>1 DEF DriverUnmap, IInv, CallsInOrder, InOrder
    <3> QED
      BY <1>5, <2>1, <3>1 DEF DriverUnmap
  <2>2. CASE \/ \E m \in Memories : UnmapMemory(t, m)
             \/ \E b \in Buffers, r \in Regions : CopyBufferToImage(t, b, r)
             \/ TrackMap(t) \/ Resolve(t) \/ HashAndFind(t) \/ Decode(t) \/ Stage(t)
    <3>1. app_vars' = app_vars
      BY <2>2 DEF UnmapMemory, CopyBufferToImage, TrackMap, Resolve, HashAndFind, Decode, Stage
    <3> QED
      BY <1>8, <3>1 DEF app_vars
  <2> QED
    BY <1>7, <1>11, <2>1, <2>2 DEF Steps
<1> QED
  BY <1>8, <1>10, <1>11, NextSays DEF vars

\* ... the layer's maps right ...
LEMMA MapsNext ==
  ASSUME IInv, [Next]_vars
  PROVE  MapsRight'
<1>1. TypeOK /\ CallsInOrder /\ HandledOnce /\ MapsRight
  BY DEF IInv
<1> DEFINE Right(bg, bgs, mp, ms, os) ==
             /\ \A b \in Buffers : bg[b] # NoBinding => bgs[b] = bg[b]
             /\ \A m \in Memories \ os : ms[m] # NoMapping => ms[m] = mp[m]
           Now == Right(binding', bindings', mapping', maps', orphaned')
<1>2. Right(binding, bindings, mapping, maps, orphaned)
  BY <1>1 DEF MapsRight
<1>3. SUFFICES Now
  BY DEF MapsRight
<1>4. /\ mapping \in [Memories -> Mapping \union {NoMapping}]
      /\ maps \in [Memories -> Mapping \union {NoMapping}]
      /\ binding \in [Buffers -> Binding \union {NoBinding}]
      /\ bindings \in [Buffers -> Binding \union {NoBinding}]
  BY <1>1 DEF TypeOK
<1>5. ASSUME UNCHANGED <<binding, bindings, mapping, maps, orphaned>> PROVE Now
  BY <1>2, <1>5
<1>6. ASSUME NEW m \in Memories, FreeMemory(m) PROVE Now
  BY <1>2, <1>4, <1>6 DEF FreeMemory, layer_vars
<1>7. ASSUME NEW m \in Memories, NEW p \in Patterns, AllocateMemory(m, p) \/ HostWrite(m, p)
      PROVE  Now
  BY <1>5, <1>7 DEF AllocateMemory, HostWrite, layer_vars
<1>8. ASSUME NEW m \in Memories, NEW b \in Buffers, NEW offset \in BindOffsets,
             BindBufferMemory(b, m, offset)
      PROVE  Now
  BY <1>2, <1>4, <1>8 DEF BindBufferMemory
<1>9. ASSUME NEW b \in Buffers, DestroyBuffer(b) PROVE Now
  BY <1>2, <1>4, <1>9 DEF DestroyBuffer, layer_vars
<1>10. ASSUME DestroyDevice PROVE Now
  BY <1>10 DEF DestroyDevice
<1>11. ASSUME NEW t \in Threads, NEW m \in Memories, NEW range \in Ranges, MapMemory(t, m, range)
       PROVE  Now
  <2>1. /\ mapping[m] = NoMapping /\ bindings' = bindings /\ maps' = maps
        /\ binding' = binding /\ orphaned' = orphaned
    BY <1>11 DEF MapMemory, layer_vars
  <2>2. \A n \in Memories \ {m} : mapping'[n] = mapping[n]
    BY <1>4, <1>11 DEF MapMemory
  <2> QED
    BY <1>2, <2>1, <2>2
<1>12. ASSUME NEW t \in Threads, TrackMap(t) PROVE Now
  <2>1. call[t].memory \in Memories
    BY <1>1, <1>12 DEF TrackMap, CallsInOrder, InOrder
  <2> QED
    BY <1>2, <1>4, <1>12, <2>1 DEF TrackMap, app_vars
<1>13. ASSUME NEW t \in Threads, NEW m \in Memories, UnmapMemory(t, m) PROVE Now
  BY <1>2, <1>4, <1>13 DEF UnmapMemory, app_vars
<1>14. ASSUME NEW t \in Threads, DriverUnmap(t) PROVE Now
  <2>1. maps[call[t].memory] = NoMapping
    BY <1>1, <1>14 DEF DriverUnmap, HandledOnce
  <2> QED
    BY <1>2, <1>4, <1>14, <2>1 DEF DriverUnmap, layer_vars
<1>15. ASSUME NEW t \in Threads,
              \/ \E b \in Buffers, r \in Regions : CopyBufferToImage(t, b, r)
              \/ Resolve(t) \/ HashAndFind(t) \/ Decode(t) \/ Stage(t)
       PROVE  Now
  <2>1. app_vars' = app_vars /\ layer_vars' = layer_vars /\ orphaned' = orphaned
    BY <1>15 DEF CopyBufferToImage, Resolve, HashAndFind, Decode, Stage
  <2> QED
    BY <1>5, <2>1 DEF app_vars, layer_vars
<1>16. ASSUME UNCHANGED vars PROVE Now
  BY <1>5, <1>16 DEF vars
<1> HIDE DEF Now
<1>17. ASSUME Outside PROVE Now
  BY <1>6, <1>7, <1>8, <1>9, <1>10, <1>17 DEF Outside
<1>18. ASSUME NEW t \in Threads, Steps(t) PROVE Now
  BY <1>11, <1>12, <1>13, <1>14, <1>15, <1>18 DEF Steps
<1> QED
  BY <1>16, <1>17, <1>18, NextSays

-----------------------------------------------------------------------------
(* What copies read, hash and upload.                                      *)

HashOfSource(s) == <<HashOf[s.pattern], s.first>>

\* How a thread comes to read, to decode and to upload.
LEMMA Arrivals ==
  ASSUME IInv, [Next]_vars, NEW t \in Threads, at'[t] \in {"hash", "decode", "stage"}
  PROVE  \/ Stays(t) /\ at[t] \in {"hash", "decode", "stage"}
         \/ Resolve(t) /\ Pointed(t)
         \/ /\ HashAndFind(t)
            /\ \E s \in SourcesAt(t) : Hit(t, HashOfSource(s)) \/ Missed(t, HashOfSource(s))
         \/ Decode(t) /\ \E s \in SourcesAt(t) : \E y : Decoded(t, s, y)
<1>1. TypeOK /\ CallsInOrder /\ MappedApart /\ Counted
  BY LimitsSay DEF IInv
<1>2. ASSUME NEW step \in {"idle", "track_map", "unmap", "resolve"}, NEW c, Goto(t, step, c)
      PROVE  FALSE
  <2>1. at'[t] = step
    BY <1>1, <1>2, Stepping
  <2> QED
    BY <2>1
<1>3. CASE Stays(t)
  BY <1>3 DEF Stays
<1>4. CASE \/ \E m \in Memories : UnmapMemory(t, m) \/ \E range \in Ranges : MapMemory(t, m, range)
           \/ \E b \in Buffers, r \in Regions : CopyBufferToImage(t, b, r)
           \/ TrackMap(t) \/ DriverUnmap(t)
  BY <1>2, <1>4 DEF UnmapMemory, MapMemory, CopyBufferToImage, TrackMap, DriverUnmap, Return
<1>5. CASE Resolve(t)
  BY <1>1, <1>2, <1>5, ResolveSays DEF Return
<1>6. CASE HashAndFind(t)
  BY <1>1, <1>6, HashSays DEF Counted, HashOfSource
<1>7. CASE Decode(t)
  BY <1>1, <1>2, <1>7, DecodeSays DEF Return
<1>8. CASE Stage(t)
  BY <1>2, <1>8 DEF Stage, Return
<1> QED
  BY <1>1, <1>3, <1>4, <1>5, <1>6, <1>7, <1>8, StepsOrStays DEF Steps

\* ReadsTheBuffer, of the binding b of a copy with the locals c and the mapping mp.
Start(b, c) == b.offset + c.region.offset + c.slice * SliceStride(c.region)

ReadAt(b, c, mp) ==
  /\ mp.address = c.address
  /\ mp.offset + c.start = Start(b, c)
  /\ mp.size = WholeSize \/ c.start + Footprint(c.region) <= mp.size

\* The slice's place and what is read of it, in these terms.
LEMMA StartSays ==
  /\ \A t \in Threads : SliceStart(t) = Start(binding[call[t].buffer], call[t])
  /\ ReadsTheBuffer <=>
       \A t \in Threads : at[t] \in {"hash", "decode"} /\ t \notin disturbed =>
         ReadAt(binding[call[t].buffer], call[t], mapping[MemoryOf(t)])
BY DEF SliceStart, Start, ReadsTheBuffer, ReadAt, MemoryOf

\* ... pointers into the buffer ...
LEMMA ReadsNext ==
  ASSUME IInv, [Next]_vars
  PROVE  ReadsTheBuffer'
<1>1. TypeOK /\ CallsInOrder /\ MappedApart /\ MapsRight /\ ReadsTheBuffer
  BY DEF IInv
<1>2. SUFFICES ASSUME NEW t \in Threads, at'[t] \in {"hash", "decode"}, t \notin disturbed'
               PROVE  ReadAt(binding'[call'[t].buffer], call'[t],
                             mapping'[binding'[call'[t].buffer].memory])
  BY DEF ReadsTheBuffer, SliceStart, ReadAt, Start
<1> DEFINE b == binding[call[t].buffer]
           mp == mapping[MemoryOf(t)]
<1>3. CASE Stays(t) /\ at[t] \in {"hash", "decode"}
  <2>1. call'[t] = call[t] /\ t \notin disturbed /\ at[t] \in Copies
    BY <1>2, <1>3 DEF Stays, Copies
  <2>2. binding'[call[t].buffer] = b
    BY <1>1, <2>1, BindingStays
  <2>3. mapping'[MemoryOf(t)] = mp
    BY <1>1, <1>2, <1>3, <2>1, SourceStays
  <2>4. ReadAt(b, call[t], mp)
    BY <1>1, <1>3, <2>1, StartSays
  <2> QED
    BY <2>1, <2>2, <2>3, <2>4 DEF MemoryOf
<1>4. CASE Resolve(t) /\ Pointed(t)
  <2>1. at[t] \in Copies /\ app_vars' = app_vars
    BY <1>4 DEF Resolve, Copies
  <2>2. call[t].buffer \in Buffers /\ b # NoBinding
    BY <1>1, <2>1 DEF CallsInOrder, InOrder
  <2>3. bindings[call[t].buffer] = b
    BY <1>1, <2>2 DEF MapsRight
  <2>4. b \in Binding /\ MemoryOf(t) \in Memories
    BY <1>1, <2>2 DEF TypeOK, Binding, MemoryOf
  <2> DEFINE m == maps[MemoryOf(t)]
  <2>5. /\ m \in Mapping
        /\ call'[t].address = m.address
        /\ m.offset + call'[t].start = b.offset + SliceOffset(t)
        /\ m.size = WholeSize \/ call'[t].start + Footprint(call[t].region) <= m.size
        /\ Held(call'[t], call[t].memory, call[t].buffer, call[t].region, call[t].slice,
                m.address, call'[t].start, call[t].hash, call[t].texels)
        /\ disturbed' = IF MemoryOf(t) \in orphaned THEN disturbed \union {t} ELSE disturbed
    BY <1>4, <2>3 DEF Pointed, MemoryOf
  <2>6. MemoryOf(t) \notin orphaned
    BY <1>2, <2>5
  <2>7. m = mp
    BY <1>1, <2>4, <2>5, <2>6, NoneApart DEF MapsRight
  <2> HIDE DEF m, mp
  <2>8. /\ call'[t].buffer = call[t].buffer /\ call'[t].region = call[t].region
        /\ call'[t].slice = call[t].slice
    BY <2>5 DEF Held
  <2>9. Start(b, call'[t]) = b.offset + SliceOffset(t)
    <3>1. b.offset \in Nat
      BY <2>4, UploadsAssumption DEF Binding, Cells
    <3>2. call[t].region.offset \in Nat /\ call[t].slice * SliceStride(call[t].region) \in Nat
      <4>1. /\ call[t].region \in Regions /\ call[t].slice \in 0 .. (call[t].region.slices - 1)
            /\ call[t].region.pitch \in Nat /\ call[t].region.rows \in Nat
        BY <1>1, <2>1, SliceTyped
      <4>2. call[t].region.offset \in Nat /\ call[t].slice \in Nat
        BY <4>1, UploadsAssumption DEF Region
      <4>3. \A i, j \in Nat : i * j \in Nat
        OBVIOUS
      <4>4. SliceStride(call[t].region) \in Nat
        BY <4>1, <4>3 DEF SliceStride
      <4> QED
        BY <4>2, <4>3, <4>4
    <3> HIDE DEF b
    <3> QED
      BY <2>8, <3>1, <3>2 DEF Start, SliceOffset
  <2>10. ReadAt(b, call'[t], mp)
    BY <2>5, <2>7, <2>8, <2>9 DEF ReadAt
  <2>11. binding' = binding /\ mapping' = mapping
    BY <2>1 DEF app_vars
  <2> QED
    BY <2>8, <2>10, <2>11 DEF mp, MemoryOf
<1>5. ASSUME HashAndFind(t), NEW h, Missed(t, h)
      PROVE  ReadAt(binding'[call'[t].buffer], call'[t], mapping'[binding'[call'[t].buffer].memory])
  <2>1. at[t] = "hash" /\ app_vars' = app_vars /\ disturbed' = disturbed
    BY <1>5 DEF HashAndFind, Missed
  <2>2. ReadAt(b, call[t], mp)
    BY <1>1, <1>2, <2>1, StartSays
  <2>3. /\ call'[t].buffer = call[t].buffer /\ call'[t].region = call[t].region
        /\ call'[t].slice = call[t].slice
        /\ call'[t].address = call[t].address /\ call'[t].start = call[t].start
    BY <1>5 DEF Missed, Held
  <2>4. binding' = binding /\ mapping' = mapping
    BY <2>1 DEF app_vars
  <2> QED
    BY <2>2, <2>3, <2>4 DEF ReadAt, Start, MemoryOf
<1>6. \A h : ~Hit(t, h)
  BY <1>2 DEF Hit
<1>7. \A s, y : ~Decoded(t, s, y)
  BY <1>2 DEF Decoded
<1>8. at'[t] \in {"hash", "decode", "stage"} /\ (Stays(t) => at[t] \in {"hash", "decode"})
  BY <1>2 DEF Stays
<1> QED
  BY <1>3, <1>4, <1>5, <1>6, <1>7, <1>8, Arrivals

\* ... hashes of its bytes ...
LEMMA HashNext ==
  ASSUME IInv, [Next]_vars
  PROVE  HashRight'
<1>1. TypeOK /\ CallsInOrder /\ MappedApart /\ ReadsTheBuffer /\ HashRight
  BY DEF IInv
<1>2. SUFFICES ASSUME NEW t \in Threads, at'[t] = "decode", t \notin disturbed'
               PROVE  call'[t].hash =
                        <<HashOf[holds'[binding'[call'[t].buffer].memory]],
                          Start(binding'[call'[t].buffer], call'[t])>>
  BY DEF HashRight, SliceStart, Start
<1>3. CASE Stays(t)
  <2>1. call'[t] = call[t] /\ at[t] = "decode" /\ t \notin disturbed /\ at[t] \in Copies
    BY <1>2, <1>3 DEF Stays, Copies
  <2>2. binding'[call[t].buffer] = binding[call[t].buffer]
    BY <1>1, <2>1, BindingStays
  <2>3. holds'[MemoryOf(t)] = holds[MemoryOf(t)]
    BY <1>1, <1>2, <2>1, SourceStays
  <2>4. call[t].hash = <<HashOf[holds[MemoryOf(t)]], Start(binding[call[t].buffer], call[t])>>
    BY <1>1, <2>1, StartSays DEF HashRight, MemoryOf
  <2> QED
    BY <2>1, <2>2, <2>3, <2>4 DEF MemoryOf
<1>4. ASSUME HashAndFind(t), NEW s \in SourcesAt(t), Missed(t, HashOfSource(s))
      PROVE  call'[t].hash =
               <<HashOf[holds'[binding'[call'[t].buffer].memory]],
                 Start(binding'[call'[t].buffer], call'[t])>>
  <2>1. at[t] = "hash" /\ app_vars' = app_vars /\ t \notin disturbed
    BY <1>2, <1>4 DEF HashAndFind, Missed
  <2>2. s.pattern = holds[MemoryOf(t)] /\ s.first = Start(binding[call[t].buffer], call[t])
    BY <1>1, <2>1, SourceRight, StartSays
  <2>3. /\ call'[t].buffer = call[t].buffer /\ call'[t].region = call[t].region
        /\ call'[t].slice = call[t].slice /\ call'[t].hash = HashOfSource(s)
    BY <1>4 DEF Missed, Held
  <2>4. binding' = binding /\ holds' = holds
    BY <2>1 DEF app_vars
  <2> QED
    BY <2>2, <2>3, <2>4 DEF HashOfSource, Start, MemoryOf
<1>5. /\ ~Pointed(t)
      /\ \A h : ~Hit(t, h)
      /\ \A s, y : ~Decoded(t, s, y)
  BY <1>2 DEF Pointed, Hit, Decoded
<1>6. at'[t] \in {"hash", "decode", "stage"}
  BY <1>2
<1> QED
  BY <1>3, <1>4, <1>5, <1>6, Arrivals

\* The texels of a copy with the locals c, of a buffer bound at b, are its source's.
UploadRight(b, c) ==
  /\ c.texels.width = c.region.width /\ c.texels.height = c.region.height
  /\ HashOfSource(c.texels.source) = c.hash
  /\ b # NoBinding => c.texels.source.first = Start(b, c)

\* ... texels of its source ...
LEMMA UploadsNext ==
  ASSUME IInv, [Next]_vars
  PROVE  UploadsMatchSource'
<1>1. /\ TypeOK /\ CallsInOrder /\ MappedApart /\ ReadsTheBuffer /\ HashRight
      /\ UploadsMatchSource /\ CacheRight
  BY DEF IInv
<1>2. SUFFICES ASSUME NEW t \in Threads, at'[t] = "stage", t \notin disturbed'
               PROVE  UploadRight(binding'[call'[t].buffer], call'[t])
  BY DEF UploadsMatchSource, UploadRight, HashOfSource, SliceStart, Start
<1> DEFINE b == binding[call[t].buffer]
<1>3. CASE Stays(t)
  <2>1. call'[t] = call[t] /\ at[t] = "stage" /\ t \notin disturbed /\ at[t] \in Copies
    BY <1>2, <1>3 DEF Stays, Copies
  <2>2. binding'[call[t].buffer] = b
    BY <1>1, <2>1, BindingStays
  <2>3. UploadRight(b, call[t])
    BY <1>1, <2>1, StartSays DEF UploadsMatchSource, UploadRight, HashOfSource
  <2> QED
    BY <2>1, <2>2, <2>3
<1>4. ASSUME HashAndFind(t), NEW s \in SourcesAt(t), Hit(t, HashOfSource(s))
      PROVE  UploadRight(binding'[call'[t].buffer], call'[t])
  <2> DEFINE h == HashOfSource(s)
             k == CacheKey(t, h)
  <2>1. at[t] = "hash" /\ app_vars' = app_vars
    BY <1>4 DEF HashAndFind
  <2>2. disturbed' = IF k \in suspect THEN disturbed \union {t} ELSE disturbed
    BY <1>4 DEF Hit
  <2>3. k \notin suspect /\ t \notin disturbed
    BY <1>2, <2>2
  <2>4. s.first = Start(b, call[t]) /\ s \in Source
    BY <1>1, <2>1, <2>3, SourceRight, SourceTyped, StartSays
  <2>5. k.width = call[t].region.width /\ k.height = call[t].region.height /\ k.hash = h
    BY DEF CacheKey
  <2>6. PICK j \in DOMAIN cache :
          /\ cache[j].key = k
          /\ Held(call'[t], call[t].memory, call[t].buffer, call[t].region, call[t].slice,
                  None, 0, h, cache[j].texels)
    BY <1>4 DEF Hit
  <2> DEFINE y == cache[j].texels
  <2>7. /\ y.width = k.width /\ y.height = k.height
        /\ k.hash = <<HashOf[y.source.pattern], y.source.first>>
    BY <1>1, <2>3, <2>6 DEF CacheRight, EntryRight
  <2>8. y.source.first = s.first
    BY <2>5, <2>7 DEF HashOfSource
  <2> HIDE DEF h, k, y
  <2>9. /\ call'[t].buffer = call[t].buffer /\ call'[t].region = call[t].region
        /\ call'[t].slice = call[t].slice /\ call'[t].hash = h /\ call'[t].texels = y
    BY <2>6 DEF Held, y
  <2>10. binding' = binding
    BY <2>1 DEF app_vars
  <2> QED
    BY <2>4, <2>5, <2>7, <2>8, <2>9, <2>10 DEF UploadRight, HashOfSource, Start
<1>5. ASSUME Decode(t), NEW s \in SourcesAt(t), NEW y, Decoded(t, s, y)
      PROVE  UploadRight(binding'[call'[t].buffer], call'[t])
  <2>1. at[t] = "decode" /\ app_vars' = app_vars /\ t \notin disturbed
    BY <1>2, <1>5 DEF Decode, Decoded
  <2>2. s.pattern = holds[MemoryOf(t)] /\ s.first = Start(b, call[t])
    BY <1>1, <2>1, SourceRight, StartSays
  <2>3. call[t].hash = <<HashOf[holds[MemoryOf(t)]], Start(b, call[t])>>
    BY <1>1, <2>1, StartSays DEF HashRight, MemoryOf
  <2>4. /\ call'[t].buffer = call[t].buffer /\ call'[t].region = call[t].region
        /\ call'[t].slice = call[t].slice /\ call'[t].hash = call[t].hash /\ call'[t].texels = y
        /\ y.source = s /\ y.width = call[t].region.width /\ y.height = call[t].region.height
    BY <1>5 DEF Decoded, Held
  <2>5. binding' = binding
    BY <2>1 DEF app_vars
  <2> QED
    BY <2>2, <2>3, <2>4, <2>5 DEF UploadRight, HashOfSource, Start
<1>6. ~Pointed(t) /\ \A h : ~Missed(t, h)
  BY <1>2 DEF Pointed, Missed
<1>7. at'[t] \in {"hash", "decode", "stage"}
  BY <1>2
<1> QED
  BY <1>3, <1>4, <1>5, <1>6, <1>7, Arrivals

\* Who changes the cache.
LEMMA CacheChanges ==
  ASSUME IInv, [Next]_vars
  PROVE  \/ cache' = cache /\ bytes' = bytes /\ suspect' = suspect
         \/ \E t \in Threads : /\ HashAndFind(t) /\ Found(cache')
                               /\ bytes' = bytes /\ suspect' = suspect
         \/ \E t \in Threads : \E s \in SourcesAt(t) : \E y :
              Decode(t) /\ Decoded(t, s, y) /\ Stored(t, CacheKey(t, call[t].hash), y)
<1>1. TypeOK /\ CallsInOrder /\ MappedApart /\ Counted
  BY LimitsSay DEF IInv
<1>2. CASE UNCHANGED vars
  BY <1>2 DEF vars
<1>3. CASE Outside
  BY <1>3 DEF Outside, FreeMemory, AllocateMemory, HostWrite, BindBufferMemory, DestroyBuffer,
              DestroyDevice, cache_vars
<1>4. ASSUME NEW t \in Threads, Steps(t), ~HashAndFind(t), ~Decode(t)
      PROVE  cache' = cache /\ bytes' = bytes /\ suspect' = suspect
  BY <1>4 DEF Steps, UnmapMemory, MapMemory, CopyBufferToImage, TrackMap, DriverUnmap, Resolve,
              Stage, cache_vars
<1>5. ASSUME NEW t \in Threads, HashAndFind(t)
      PROVE  /\ bytes' = bytes /\ suspect' = suspect
             /\ cache' = cache \/ Found(cache')
  <2>1. PICK h : Hit(t, h) \/ Missed(t, h)
    BY <1>1, <1>5, HashSays DEF Counted
  <2> QED
    BY <1>5, <2>1 DEF HashAndFind, Hit, Missed
<1>6. ASSUME NEW t \in Threads, Decode(t)
      PROVE  \/ cache' = cache /\ bytes' = bytes /\ suspect' = suspect
             \/ \E s \in SourcesAt(t) : \E y :
                  Decoded(t, s, y) /\ Stored(t, CacheKey(t, call[t].hash), y)
  BY <1>1, <1>6, DecodeSays DEF Decoded
<1> QED
  BY <1>2, <1>3, <1>4, <1>5, <1>6, NextSays

\* ... entries true to their keys ...
LEMMA CacheNext ==
  ASSUME IInv, [Next]_vars
  PROVE  CacheRight'
<1>1. /\ TypeOK /\ CallsInOrder /\ MappedApart /\ ReadsTheBuffer /\ HashRight /\ CacheRight
  BY DEF IInv
<1>2. SUFFICES ASSUME NEW n \in DOMAIN cache' PROVE EntryRight(cache'[n], suspect')
  BY DEF CacheRight, EntryRight
<1>3. CASE cache' = cache /\ suspect' = suspect
  BY <1>1, <1>2, <1>3 DEF CacheRight
<1>4. CASE Found(cache') /\ suspect' = suspect
  BY <1>1, <1>2, <1>4 DEF Found, CacheRight
<1>5. ASSUME NEW t \in Threads, NEW s \in SourcesAt(t), NEW y, Decode(t), Decoded(t, s, y),
             Stored(t, CacheKey(t, call[t].hash), y)
      PROVE  EntryRight(cache'[n], suspect')
  <2> DEFINE k == CacheKey(t, call[t].hash)
             e == [key |-> k, texels |-> y]
  <2>1. /\ cache'[n] = e \/ (cache'[n].key # k /\ \E j \in DOMAIN cache : cache'[n] = cache[j])
        /\ suspect' = {key \in (IF t \in disturbed THEN suspect \union {k} ELSE suspect \ {k}) :
                         \E i \in DOMAIN cache' : cache'[i].key = key}
    BY <1>2, <1>5 DEF Stored, Kept
  <2>2. CASE cache'[n] = e
    <3>1. k.width = call[t].region.width /\ k.height = call[t].region.height
          /\ k.hash = call[t].hash
      BY DEF CacheKey
    <3>2. y.source = s /\ y.width = call[t].region.width /\ y.height = call[t].region.height
      BY <1>5 DEF Decoded
    <3>3. cache'[n].key = k /\ cache'[n].texels = y
      BY <2>2
    <3> HIDE DEF k, e
    <3>4. ASSUME k \notin suspect'
          PROVE  k.hash = <<HashOf[y.source.pattern], y.source.first>>
      <4>1. t \notin disturbed /\ at[t] = "decode"
        BY <1>2, <1>5, <2>1, <3>3, <3>4 DEF Decode
      <4>2. s.pattern = holds[MemoryOf(t)] /\ s.first = SliceStart(t)
        BY <1>1, <4>1, SourceRight
      <4>3. call[t].hash = <<HashOf[holds[MemoryOf(t)]], SliceStart(t)>>
        BY <1>1, <4>1 DEF HashRight, MemoryOf
      <4> QED
        BY <3>1, <3>2, <4>2, <4>3
    <3> QED
      BY <3>1, <3>2, <3>3, <3>4 DEF EntryRight
  <2>3. ASSUME cache'[n].key # k, NEW j \in DOMAIN cache, cache'[n] = cache[j]
        PROVE  EntryRight(cache'[n], suspect')
    <3> HIDE DEF k
    <3>1. cache[j].key \in suspect => cache[j].key \in suspect'
      BY <1>2, <2>1, <2>3
    <3>2. EntryRight(cache[j], suspect)
      BY <1>1 DEF CacheRight
    <3> QED
      BY <2>3, <3>1, <3>2 DEF EntryRight
  <2> QED
    BY <2>1, <2>2, <2>3
<1> QED
  BY <1>3, <1>4, <1>5, CacheChanges

\* ... and the cache within its limits.
LEMMA LimitsNext ==
  ASSUME IInv, [Next]_vars
  PROVE  CacheWithinLimits'
<1>1. TypeOK /\ Counted /\ \A n \in DOMAIN cache : SizeOf(cache[n]) <= MaxEntryBytes
  BY LimitsSay DEF IInv
<1> DEFINE Within(c, b) ==
             /\ KeysApart(c) /\ b = BytesOf(c) /\ b <= MaxBytes
             /\ \A n \in DOMAIN c : SizeOf(c[n]) <= MaxEntryBytes
<1>2. Within(cache, bytes)
  BY <1>1 DEF Counted
<1>3. SUFFICES Within(cache', bytes')
  BY DEF CacheWithinLimits, KeysApart, IsInjective, BytesOf, SizeOf
<1>4. CASE cache' = cache /\ bytes' = bytes
  <2> HIDE DEF Within
  <2> QED
    BY <1>2, <1>4
<1>5. CASE Found(cache') /\ bytes' = bytes
  BY <1>2, <1>5 DEF Found
<1>6. ASSUME NEW t \in Threads, NEW k, NEW y, Stored(t, k, y)
      PROVE  Within(cache', bytes')
  <2> DEFINE s == StoredUnder(k, y).entries
             e == [key |-> k, texels |-> y]
  <2>1. /\ bytes' = BytesOf(s) /\ BytesOf(s) <= MaxBytes /\ cache' = s /\ KeysApart(s)
        /\ \A i \in DOMAIN s : s[i] = e \/ \E j \in DOMAIN cache : s[i] = cache[j]
        /\ SizeOf(e) <= MaxEntryBytes
    BY <1>6 DEF Stored, Kept
  <2> HIDE DEF s, e
  <2>2. \A i \in DOMAIN s : SizeOf(s[i]) <= MaxEntryBytes
    BY <1>1, <2>1
  <2>3. Within(s, BytesOf(s))
    BY <2>1, <2>2
  <2> HIDE DEF Within
  <2> QED
    BY <2>1, <2>3
<1> QED
  BY <1>4, <1>5, <1>6, CacheChanges

-----------------------------------------------------------------------------
(* The theorems.                                                           *)

\* The invariant holds at first ...
LEMMA InitIInv ==
  ASSUME Init
  PROVE  IInv
<1>1. TypeOK
  <2>1. /\ NoCall \in Locals /\ NoCall.region = NoRegion
        /\ <<>> \in Seq(Entry)
    BY NoCallSays DEF Held
  <2> QED
    BY <2>1 DEF Init, TypeOK
<1>2. CallsInOrder /\ HandledOnce
  <2>1. NoCall.memory \notin Memories
    BY NoCallSays, NoneApart DEF Held
  <2> QED
    BY <2>1 DEF Init, CallsInOrder, InOrder, HandledOnce, Copies
<1>3. MappedApart /\ MapsRight
  BY DEF Init, MappedApart, MapsRight
<1>4. ReadsTheBuffer /\ HashRight /\ UploadsMatchSource
  BY DEF Init, ReadsTheBuffer, HashRight, UploadsMatchSource
<1>5. cache = <<>> /\ DOMAIN cache = {} /\ bytes = 0
  BY DEF Init
<1>6. CacheRight
  BY <1>5 DEF CacheRight
<1>7. CacheWithinLimits
  <2>1. cache \in Seq(Entry) /\ Len(cache) = 0
    BY <1>5
  <2>2. BytesOf(cache) = 0
    BY <2>1, SumSays, BytesTyped
  <2>3. 0 <= MaxBytes
    BY UploadsAssumption
  <2> QED
    BY <1>5, <2>2, <2>3, LimitsSay DEF Counted, KeysApart
<1> QED
  BY <1>1, <1>2, <1>3, <1>4, <1>6, <1>7 DEF IInv

\* ... and is kept by every step.
LEMMA NextIInv ==
  ASSUME IInv, [Next]_vars
  PROVE  IInv'
BY TypeNext, CallsNext, HandledNext, MappedNext, MapsNext, ReadsNext, HashNext, UploadsNext,
   CacheNext, LimitsNext
   DEF IInv

\* The invariant holds in every behaviour.
THEOREM SpecIInv == Spec => []IInv
BY InitIInv, NextIInv, PTL DEF Spec

\* Variables stay within their types: a thread that has a pointer, a hash or texels has one
\* of the kind its step needs, and never goes past the slices of its region.
THEOREM TypeAlways == Spec => []TypeOK
<1>1. IInv => TypeOK
  BY DEF IInv
<1> QED
  BY <1>1, SpecIInv, PTL

\* However many threads map, unmap, free and copy: a pointer found under the lock and used
\* after it leads to the buffer's own bytes, as long as nobody touches the source
\* (resolve_mapped_buffer_source).
THEOREM AlwaysReadsTheBuffer == Spec => []ReadsTheBuffer
<1>1. IInv => ReadsTheBuffer
  BY DEF IInv
<1> QED
  BY <1>1, SpecIInv, PTL

\* What a copy uploads comes from blocks with the hash of its own source, at its own
\* address, whoever stored it in the cache (try_cpu_decode_copy_regions).
THEOREM UploadsAlwaysMatch == Spec => []UploadsMatchSource
<1>1. IInv => UploadsMatchSource
  BY DEF IInv
<1> QED
  BY <1>1, SpecIInv, PTL

\* The cache never holds a key twice nor miscounts its bytes, for any number of entries
\* (store_cpu_decoded_texture_cache).
THEOREM CacheAlwaysWithinLimits == Spec => []CacheWithinLimits
<1>1. IInv => CacheWithinLimits
  BY DEF IInv
<1> QED
  BY <1>1, SpecIInv, PTL

\* What is stored stays, and pushes out the least recently used entries only
\* (prune_cpu_decoded_texture_cache_locked).
THEOREM AlwaysEvictsOldestFirst == Spec => EvictsOldestFirst
<1> DEFINE Orderly ==
             \A t \in Threads :
               at[t] = "decode" /\ at'[t] = "stage"
               /\ call[t].region.width * call[t].region.height <= MaxEntryBytes =>
                 /\ \E n \in DOMAIN cache' : cache'[n].key = CacheKey(t, call[t].hash)
                 /\ \A i, j \in DOMAIN cache :
                      i < j /\ cache[i] \in ToSet(cache')
                      /\ cache[j].key # CacheKey(t, call[t].hash)
                        => cache[j] \in ToSet(cache')
<1>1. ASSUME IInv, [Next]_vars PROVE Orderly
  <2>1. SUFFICES ASSUME NEW t \in Threads, at[t] = "decode", at'[t] = "stage",
                        call[t].region.width * call[t].region.height <= MaxEntryBytes
                 PROVE  /\ \E n \in DOMAIN cache' : cache'[n].key = CacheKey(t, call[t].hash)
                        /\ \A i, j \in DOMAIN cache :
                             i < j /\ cache[i] \in ToSet(cache')
                             /\ cache[j].key # CacheKey(t, call[t].hash)
                               => cache[j] \in ToSet(cache')
    OBVIOUS
  <2>2. ~Stays(t) /\ ~Pointed(t) /\ ~HashAndFind(t)
    BY <2>1 DEF Stays, Pointed, HashAndFind
  <2>3. at'[t] \in {"hash", "decode", "stage"}
    BY <2>1
  <2>4. PICK y : \E s \in SourcesAt(t) : Decoded(t, s, y)
    BY <1>1, <2>2, <2>3, Arrivals
  <2> DEFINE k == CacheKey(t, call[t].hash)
  <2>5. Stored(t, k, y)
    BY <2>1, <2>4 DEF Decoded
  <2> HIDE DEF k
  <2>6. /\ \E n \in DOMAIN cache' : cache'[n].key = k
        /\ \A i, j \in DOMAIN cache :
             i < j /\ cache[i] \in ToSet(cache') /\ cache[j].key # k => cache[j] \in ToSet(cache')
    <3> DEFINE e == [key |-> k, texels |-> y]
               s1 == StoredUnder(k, y).entries
    <3>1. /\ cache' = s1
          /\ \E n \in DOMAIN s1 : s1[n] = e
          /\ \A i, j \in DOMAIN cache :
               i < j /\ cache[i] \in ToSet(s1) /\ cache[j].key # k => cache[j] \in ToSet(s1)
      BY <2>5 DEF Stored, Kept
    <3>2. e.key = k
      OBVIOUS
    <3> HIDE DEF e, s1
    <3> QED
      BY <3>1, <3>2
  <2> QED
    BY <2>6 DEF k
<1>2. Spec => [][Orderly]_vars
  BY <1>1, SpecIInv, PTL DEF Spec
<1> QED
  BY <1>2 DEF EvictsOldestFirst
=============================================================================
