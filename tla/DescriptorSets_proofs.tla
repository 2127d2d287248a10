------------------------ MODULE DescriptorSets_proofs ------------------------
(***************************************************************************)
(* Proofs about DescriptorSets, for any number of threads, images, views,  *)
(* descriptor sets, regions and pool sizes.                                *)
(* The argument: the view that a call found or made stays the map's entry  *)
(* for its image for as long as the call lasts, because the image does;    *)
(* and a set that refers to views is filed under the record of these       *)
(* views, so that whoever takes it from the cache gets either the views    *)
(* asked for or views that are gone.                                       *)
(***************************************************************************)
EXTENDS DescriptorSets, FiniteSetTheorems, WellFoundedInduction, TLAPS

Sides == {"dst", "src"}

-----------------------------------------------------------------------------
(* The invariant.                                                          *)

\* What the locals of a call hold, step by step.
InOrder(t) ==
  /\ at[t] = "idle" => call[t] = NoCall
  /\ at[t] # "idle" => call[t].image.dst \in images /\ call[t].image.src \in images
  /\ at[t] \notin {"idle", "record"} => call[t].left # 0
  /\ at[t] # "emplace" => call[t].created = NoView
  /\ at[t] \in {"find", "create", "emplace"} /\ call[t].side = "dst" => call[t].view.src # NoView
  /\ at[t] \in {"take", "allocate", "update"} => call[t].view \in Key
  /\ at[t] # "update" => call[t].set = {}
  /\ at[t] = "update" => \E s \in Sets : call[t].set = {s}

CallsInOrder == \A t \in Threads : InOrder(t)

\* A view that is not entered yet is its thread's own.
CreatedApart ==
  /\ \A t \in Threads : at[t] = "emplace" =>
       /\ call[t].created \in Views
       /\ view_image[call[t].created] = ImageWanted(t)
       /\ \A i \in Images : storage_views[i] # call[t].created
  /\ \A t, u \in Threads :
       call[t].created = call[u].created /\ call[t].created # NoView => t = u

\* The views of a call are the map's entries for its images.
ViewsInUse ==
  \A t \in Threads : \A side \in Sides :
    call[t].view[side] # NoView => storage_views[call[t].image[side]] = call[t].view[side]

\* A set is in one place ...
InCall(s, t) == s \in call[t].set \union call[t].prepared

Unique(s) ==
  /\ \A k, l \in Key : s \in cached[k] /\ s \in cached[l] => k = l
  /\ \A k \in Key : s \in cached[k] =>
       s \notin recycled /\ \A t \in Threads : ~InCall(s, t) /\ s \notin tracked[t]
  /\ s \in recycled => \A t \in Threads : ~InCall(s, t) /\ s \notin tracked[t]
  /\ \A t, u \in Threads : InCall(s, t) => s \notin tracked[u] /\ (InCall(s, u) => t = u)
  /\ \A t, u \in Threads : s \in tracked[t] /\ s \in tracked[u] => t = u

\* ... and in one it is, if it is allocated.
Placed(s) ==
  \/ s \in recycled
  \/ \E k \in Key : s \in cached[k]
  \/ \E t \in Threads : InCall(s, t) \/ s \in tracked[t]

OncePlaced == \A s \in Sets : Unique(s) /\ (in_pool[s] # 0 <=> Placed(s))

\* One side of a set refers to a view of image i, or to a view that is gone.
Refers(s, side, i) ==
  \/ written[s][side] = Gone
  \/ written[s][side] \in Views /\ view_image[written[s][side]] = i

\* What a set refers to is what its record says, or gone.
Recorded ==
  /\ \A k \in Key : \A s \in cached[k] : record[s] = k
  /\ \A s \in Sets : \A side \in Sides :
       record[s] # NoKey => written[s][side] \in {Gone, record[s][side]}

\* The sets of a call and of a recording refer to the images of their copies.
SetsRefer ==
  /\ \A t \in Threads : \A s \in call[t].prepared : \A side \in Sides :
       Refers(s, side, call[t].image[side])
  /\ \A t \in Threads : \A c \in copies[t] :
       /\ c.set \in tracked[t]
       /\ \A side \in Sides : Refers(c.set, side, c[side])

IInv ==
  /\ TypeOK
  /\ pools # <<>>
  /\ CallsInOrder
  /\ ViewsAccounted
  /\ CreatedApart
  /\ ViewsInUse
  /\ OncePlaced
  /\ Recorded
  /\ SetsRefer

-----------------------------------------------------------------------------
(* The locals of a call.                                                   *)

\* The fields of the locals.
LEMMA LocalsTyped ==
  ASSUME TypeOK, NEW t \in Threads
  PROVE  /\ at[t] \in Steps /\ call[t] \in Locals
         /\ call[t].image.dst \in Images \union {NoImage}
         /\ call[t].image.src \in Images \union {NoImage}
         /\ call[t].view.dst \in Views \union {NoView}
         /\ call[t].view.src \in Views \union {NoView}
         /\ call[t].side \in Sides /\ call[t].created \in Views \union {NoView}
         /\ call[t].set \in SUBSET Sets /\ call[t].prepared \in SUBSET Sets
         /\ call[t].left \in 0 .. MaxRegions
  BY DEF TypeOK, Locals, Sides

\* A call that has not begun.
LEMMA NoCallTyped ==
  /\ NoCall \in Locals
  /\ NoCall.image.dst = NoImage /\ NoCall.image.src = NoImage
  /\ NoCall.view.dst = NoView /\ NoCall.view.src = NoView
  /\ NoCall.created = NoView /\ NoCall.set = {} /\ NoCall.prepared = {} /\ NoCall.left = 0
  /\ NoCall.side = "src"
  BY DescriptorSetsAssumption DEF NoCall, Locals, NoKey

\* UseView stores the view for the side at hand, and nothing else of interest.
LEMMA UseViewSays ==
  ASSUME TypeOK, NEW t \in Threads, NEW v \in Views, UseView(t, v)
  PROVE  /\ at' \in [Threads -> Steps] /\ call' \in [Threads -> Locals]
         /\ \A u \in Threads \ {t} : at'[u] = at[u] /\ call'[u] = call[u]
         /\ at'[t] = (IF call[t].side = "src" THEN "find" ELSE "take")
         /\ call'[t].image = call[t].image /\ call'[t].left = call[t].left
         /\ call'[t].set = call[t].set /\ call'[t].prepared = call[t].prepared
         /\ call'[t].created = NoView /\ call'[t].side = "dst"
         /\ call'[t].view[call[t].side] = v
         /\ \A side \in Sides \ {call[t].side} : call'[t].view[side] = call[t].view[side]
<1> DEFINE c == [call[t] EXCEPT !.view[call[t].side] = v, !.created = NoView, !.side = "dst"]
<1>1. call[t] \in Locals /\ call[t].side \in Sides
  BY LocalsTyped
<1>2. /\ c \in Locals /\ c.image = call[t].image /\ c.left = call[t].left
      /\ c.set = call[t].set /\ c.prepared = call[t].prepared
      /\ c.created = NoView /\ c.side = "dst"
      /\ c.view[call[t].side] = v
      /\ \A side \in Sides \ {call[t].side} : c.view[side] = call[t].view[side]
  BY <1>1 DEF Locals, Sides
<1>3. /\ call' = [call EXCEPT ![t] = c]
      /\ at' = [at EXCEPT ![t] = IF call[t].side = "src" THEN "find" ELSE "take"]
  BY DEF UseView, Goto
<1> HIDE DEF c
<1> QED
  BY <1>2, <1>3 DEF TypeOK, Steps

\* UseSet moves a set to the prepared ones and turns to the next region.
LEMMA UseSetSays ==
  ASSUME TypeOK, NEW t \in Threads, NEW s \in Sets, call[t].left # 0, UseSet(t, s)
  PROVE  /\ at' \in [Threads -> Steps] /\ call' \in [Threads -> Locals]
         /\ \A u \in Threads \ {t} : at'[u] = at[u] /\ call'[u] = call[u]
         /\ at'[t] = (IF call[t].left = 1 THEN "record" ELSE "find")
         /\ call'[t].image = call[t].image /\ call'[t].left = call[t].left - 1
         /\ call'[t].set = {} /\ call'[t].prepared = call[t].prepared \union {s}
         /\ call'[t].created = call[t].created /\ call'[t].side = "src"
         /\ call'[t].view = NoKey
<1> DEFINE c == [call[t] EXCEPT !.prepared = @ \union {s}, !.set = {}, !.left = @ - 1,
                                !.side = "src", !.view = NoKey]
<1>1. call[t] \in Locals /\ call[t].left \in 0 .. MaxRegions /\ MaxRegions \in Nat
  BY LocalsTyped, DescriptorSetsAssumption
<1>2. /\ c.image = call[t].image /\ c.left = call[t].left - 1
      /\ c.set = {} /\ c.prepared = call[t].prepared \union {s}
      /\ c.created = call[t].created /\ c.side = "src" /\ c.view = NoKey
  BY <1>1 DEF Locals
<1>3. c.left \in 0 .. MaxRegions /\ c.prepared \in SUBSET Sets
  BY <1>1, <1>2 DEF Locals
<1>4. c \in Locals
  BY <1>1, <1>3 DEF Locals, NoKey
<1>5. /\ call' = [call EXCEPT ![t] = c]
      /\ at' = [at EXCEPT ![t] = IF call[t].left = 1 THEN "record" ELSE "find"]
  BY DEF UseSet, Goto
<1> HIDE DEF c
<1> QED
  BY <1>2, <1>4, <1>5 DEF TypeOK, Steps

\* Return leaves nothing.
LEMMA ReturnSays ==
  ASSUME TypeOK, NEW t \in Threads, Return(t)
  PROVE  /\ at' \in [Threads -> Steps] /\ call' \in [Threads -> Locals]
         /\ \A u \in Threads \ {t} : at'[u] = at[u] /\ call'[u] = call[u]
         /\ at'[t] = "idle" /\ call'[t] = NoCall
  BY NoCallTyped DEF TypeOK, Steps, Return, Goto

\* Goto moves one thread.
LEMMA GotoSays ==
  ASSUME TypeOK, NEW t \in Threads, NEW step \in Steps, Goto(t, step)
  PROVE  /\ at' \in [Threads -> Steps] /\ at'[t] = step
         /\ \A u \in Threads \ {t} : at'[u] = at[u]
  BY DEF TypeOK, Goto

\* The locals of a call that begins.
LEMMA StartSays ==
  ASSUME TypeOK, NEW t \in Threads, NEW dst \in Images, NEW src \in Images,
         NEW n \in 1 .. MaxRegions, Start(t, dst, src, n)
  PROVE  /\ at' \in [Threads -> Steps] /\ call' \in [Threads -> Locals]
         /\ \A u \in Threads \ {t} : at'[u] = at[u] /\ call'[u] = call[u]
         /\ at'[t] = "find"
         /\ call'[t].image.dst = dst /\ call'[t].image.src = src
         /\ call'[t].view = NoKey /\ call'[t].side = "src" /\ call'[t].created = NoView
         /\ call'[t].set = {} /\ call'[t].prepared = {} /\ call'[t].left = n
<1> DEFINE i == [dst |-> dst, src |-> src]
           c == [NoCall EXCEPT !.image = i, !.left = n]
<1>1. MaxRegions \in Nat /\ n \in 0 .. MaxRegions
  BY DescriptorSetsAssumption
<1>2. /\ i.dst = dst /\ i.src = src
      /\ i \in [dst : Images \union {NoImage}, src : Images \union {NoImage}]
  OBVIOUS
<1>3. /\ call' = [call EXCEPT ![t] = c]
      /\ at' = [at EXCEPT ![t] = "find"]
  BY DEF Start, Goto
<1>4. NoCall.view = NoKey
  BY DEF NoCall
<1> HIDE DEF i
<1>5. /\ c \in Locals /\ c.image = i
      /\ c.view = NoKey /\ c.side = "src" /\ c.created = NoView
      /\ c.set = {} /\ c.prepared = {} /\ c.left = n
  BY <1>1, <1>2, <1>4, NoCallTyped DEF Locals
<1> HIDE DEF c
<1> QED
  BY <1>2, <1>3, <1>5 DEF TypeOK, Steps

\* CreateView and AllocateSet put what they got into the locals.
LEMMA CreateViewSays ==
  ASSUME TypeOK, NEW t \in Threads, NEW v \in Views, call' = [call EXCEPT ![t].created = v]
  PROVE  /\ call' \in [Threads -> Locals]
         /\ \A u \in Threads \ {t} : call'[u] = call[u]
         /\ call'[t].image = call[t].image /\ call'[t].left = call[t].left
         /\ call'[t].view = call[t].view /\ call'[t].side = call[t].side
         /\ call'[t].set = call[t].set /\ call'[t].prepared = call[t].prepared
         /\ call'[t].created = v
<1>1. call[t] \in Locals
  BY LocalsTyped
<1> QED
  BY <1>1 DEF TypeOK, Locals

\* The allocated set.
LEMMA AllocateSetSays ==
  ASSUME TypeOK, NEW t \in Threads, NEW s \in Sets, call' = [call EXCEPT ![t].set = {s}]
  PROVE  /\ call' \in [Threads -> Locals]
         /\ \A u \in Threads \ {t} : call'[u] = call[u]
         /\ call'[t].image = call[t].image /\ call'[t].left = call[t].left
         /\ call'[t].view = call[t].view /\ call'[t].side = call[t].side
         /\ call'[t].created = call[t].created /\ call'[t].prepared = call[t].prepared
         /\ call'[t].set = {s}
<1>1. call[t] \in Locals
  BY LocalsTyped
<1> QED
  BY <1>1 DEF TypeOK, Locals

-----------------------------------------------------------------------------
(* Types.                                                                  *)

\* What a call wants a view of is an image that exists.
LEMMA WantedExists ==
  ASSUME TypeOK, CallsInOrder, NEW t \in Threads, at[t] # "idle"
  PROVE  ImageWanted(t) \in images /\ ImageWanted(t) \in Images
<1>1. call[t].image.dst \in images /\ call[t].image.src \in images /\ call[t].side \in Sides
  BY LocalsTyped DEF CallsInOrder, InOrder
<1> QED
  BY <1>1 DEF ImageWanted, Sides, TypeOK

\* A set that loses views keeps two sides.
LEMMA DestroyViewsSays ==
  ASSUME TypeOK, NEW V, DestroyViews(V)
  PROVE  /\ view_image' \in [Views -> Images \union {NoImage}]
         /\ written' \in [Sets -> [dst : Views \union {NoView, Gone},
                                  src : Views \union {NoView, Gone}]]
         /\ \A v \in Views : view_image'[v] = IF v \in V THEN NoImage ELSE view_image[v]
         /\ \A s \in Sets, side \in Sides :
              written'[s][side] = IF written[s][side] \in V THEN Gone ELSE written[s][side]
<1>1. /\ \A v \in Views : view_image'[v] = IF v \in V THEN NoImage ELSE view_image[v]
      /\ view_image' \in [Views -> Images \union {NoImage}]
  BY DEF DestroyViews, TypeOK
<1>2. \A s \in Sets, side \in Sides :
         written'[s][side] = IF written[s][side] \in V THEN Gone ELSE written[s][side]
  BY DEF DestroyViews, Sides
<1>3. ASSUME NEW s \in Sets
      PROVE  written'[s] \in [dst : Views \union {NoView, Gone}, src : Views \union {NoView, Gone}]
  <2>1. written'[s] = [side \in {"dst", "src"} |->
                        IF written[s][side] \in V THEN Gone ELSE written[s][side]]
    BY DEF DestroyViews
  <2>2. \A side \in Sides : written[s][side] \in Views \union {NoView, Gone}
    BY DEF TypeOK, Sides
  <2> QED
    BY <2>1, <2>2 DEF Sides
<1>4. written' = [s \in Sets |-> written'[s]]
  BY DEF DestroyViews
<1> QED
  BY <1>1, <1>2, <1>3, <1>4

\* A bounded set of naturals has a greatest one.
LEMMA GreatestNumber ==
  ASSUME NEW N \in Nat, NEW T \in SUBSET (1 .. N), T # {}
  PROVE  \E m \in T : \A k \in T : k <= m
<1> DEFINE R == {ss \in Nat \X Nat : ss[1] < ss[2]}
           D == {d \in Nat : \E k \in T : d = N - k}
<1>1. IsWellFoundedOn(R, Nat)
  BY NatLessThanWellFounded DEF OpToRel
<1>2. \A k, m \in Nat : <<k, m>> \notin R => m <= k
  OBVIOUS
<1>8. \A k \in T : N - k \in D /\ k \in 1 .. N
  OBVIOUS
<1>3. D \in SUBSET Nat /\ D # {} /\ \A k \in T : N - k \in D /\ k \in 1 .. N
  BY <1>8
<1>4. \A d \in D : \E k \in T : d = N - k
  OBVIOUS
<1> HIDE DEF R, D
<1>5. PICK d \in D : \A e \in D : <<e, d>> \notin R
  BY <1>1, <1>3, WFMin
<1>6. PICK m \in T : d = N - m
  BY <1>4
<1>7. \A k \in T : N - m <= N - k
  BY <1>2, <1>3, <1>5, <1>6
<1> QED
  BY <1>3, <1>7

\* The next pool has room.
LEMMA NextCapacityTyped ==
  ASSUME NEW n \in Nat \ {0}
  PROVE  NextCapacity(n) \in Nat \ {0}
  BY DescriptorSetsAssumption DEF NextCapacity

\* The set that is allocated, from a recycled one, a pool with room or a new pool.
LEMMA AllocateSetTakes ==
  ASSUME TypeOK, pools # <<>>, NEW t \in Threads, AllocateSet(t)
  PROVE  \E s \in Sets :
           /\ call' = [call EXCEPT ![t].set = {s}]
           /\ \/ /\ s \in recycled /\ recycled' = recycled \ {s}
                 /\ UNCHANGED <<in_pool, pools>>
              \/ /\ in_pool[s] = 0 /\ UNCHANGED recycled
                 /\ pools' \in Seq(Nat \ {0}) /\ Len(pools) <= Len(pools') /\ pools' # <<>>
                 /\ in_pool' \in [Sets -> 0 .. Len(pools')] /\ in_pool'[s] # 0
                 /\ \A q \in Sets \ {s} : in_pool'[q] = in_pool[q]
<1> DEFINE Old(s) == /\ s \in recycled /\ recycled' = recycled \ {s}
                     /\ UNCHANGED <<in_pool, pools>>
           New(s) == /\ in_pool[s] = 0 /\ UNCHANGED recycled
                     /\ pools' \in Seq(Nat \ {0}) /\ Len(pools) <= Len(pools') /\ pools' # <<>>
                     /\ in_pool' \in [Sets -> 0 .. Len(pools')] /\ in_pool'[s] # 0
                 /\ \A q \in Sets \ {s} : in_pool'[q] = in_pool[q]
<1> SUFFICES \E s \in Sets : call' = [call EXCEPT ![t].set = {s}] /\ (Old(s) \/ New(s))
  OBVIOUS
<1>0. /\ pools \in Seq(Nat \ {0}) /\ Len(pools) \in Nat /\ DOMAIN pools = 1 .. Len(pools)
      /\ Len(pools) # 0 /\ in_pool \in [Sets -> 0 .. Len(pools)]
  BY DEF TypeOK
<1>1. CASE recycled # {}
  BY <1>1 DEF AllocateSet, TypeOK
<1>2. CASE recycled = {}
  <2> DEFINE room == {p \in DOMAIN pools : Used(p) < pools[p]}
  <2>1. PICK s \in Sets :
          /\ in_pool[s] = 0 /\ UNCHANGED recycled
          /\ call' = [call EXCEPT ![t].set = {s}]
          /\ IF room # {}
               THEN /\ in_pool' = [in_pool EXCEPT ![s] =
                                     CHOOSE p \in room : \A q \in room : q <= p]
                    /\ UNCHANGED pools
               ELSE /\ pools' = Append(pools, NextCapacity(pools[Len(pools)]))
                    /\ in_pool' = [in_pool EXCEPT ![s] = Len(pools) + 1]
    BY <1>2 DEF AllocateSet
  <2>2. ASSUME room # {} PROVE New(s)
    <3>1. room \in SUBSET (1 .. Len(pools))
      BY <1>0
    <3> HIDE DEF room
    <3>2. \E p \in room : \A q \in room : q <= p
      BY <1>0, <2>2, <3>1, GreatestNumber
    <3>3. (CHOOSE p \in room : \A q \in room : q <= p) \in room
      BY <3>2
    <3> DEFINE p == CHOOSE p \in room : \A q \in room : q <= p
    <3>4. UNCHANGED pools /\ in_pool' = [in_pool EXCEPT ![s] = p]
      BY <2>1, <2>2
    <3>5. p \in 1 .. Len(pools)
      BY <3>1, <3>3
    <3> HIDE DEF p
    <3>6. /\ in_pool' \in [Sets -> 0 .. Len(pools)] /\ in_pool'[s] # 0
          /\ \A q \in Sets \ {s} : in_pool'[q] = in_pool[q]
      BY <1>0, <3>4, <3>5
    <3>7. pools' = pools /\ pools \in Seq(Nat \ {0}) /\ Len(pools) <= Len(pools)
      BY <1>0, <3>4
    <3> QED
      BY <2>1, <3>6, <3>7
  <2>3. ASSUME room = {} PROVE New(s)
    <3>1. NextCapacity(pools[Len(pools)]) \in Nat \ {0}
      BY <1>0, NextCapacityTyped
    <3>2. /\ pools' = Append(pools, NextCapacity(pools[Len(pools)]))
          /\ in_pool' = [in_pool EXCEPT ![s] = Len(pools) + 1]
      BY <2>1, <2>3
    <3>3. /\ pools' \in Seq(Nat \ {0}) /\ Len(pools') = Len(pools) + 1
      BY <1>0, <3>1, <3>2
    <3>4. pools' # <<>>
      BY <1>0, <3>3
    <3>5. /\ in_pool' \in [Sets -> 0 .. Len(pools')] /\ in_pool'[s] # 0
          /\ \A q \in Sets \ {s} : in_pool'[q] = in_pool[q]
      BY <1>0, <3>2, <3>3
    <3>6. Len(pools) <= Len(pools')
      BY <1>0, <3>3
    <3> QED
      BY <2>1, <3>3, <3>4, <3>5, <3>6
  <2>4. New(s)
    BY <2>2, <2>3
  <2> HIDE DEF New, Old
  <2> QED
    BY <2>1, <2>4
<1> QED
  BY <1>1, <1>2

\* The parts of the state that a step on views or on sets leaves alone.
ViewTypes ==
  /\ view_image \in [Views -> Images \union {NoImage}]
  /\ written \in [Sets -> [dst : Views \union {NoView, Gone}, src : Views \union {NoView, Gone}]]
  /\ storage_views \in [Images -> Views \union {NoView}]

PoolTypes ==
  pools \in Seq(Nat \ {0}) /\ in_pool \in [Sets -> 0 .. Len(pools)] /\ pools # <<>>

CacheTypes ==
  /\ cached \in [Key -> SUBSET Sets]
  /\ recycled \subseteq Sets
  /\ record \in [Sets -> Key \union {NoKey}]

CallTypes == at \in [Threads -> Steps] /\ call \in [Threads -> Locals]

RestTypes ==
  /\ images \subseteq Images
  /\ tracked \in [Threads -> SUBSET Sets]
  /\ copies \in [Threads -> SUBSET Copy]

\* The type invariant in parts.
LEMMA TypesInParts ==
  TypeOK /\ pools # <<>> <=> ViewTypes /\ PoolTypes /\ CacheTypes /\ CallTypes /\ RestTypes
  BY DEF TypeOK, ViewTypes, PoolTypes, CacheTypes, CallTypes, RestTypes

\* Releasing sets keeps the types of the caches.
LEMMA ReleaseTyped ==
  ASSUME TypeOK, NEW S \in SUBSET Sets, ReleaseDescriptorSets(S), UNCHANGED record
  PROVE  CacheTypes'
<1>1. cached' \in [Key -> SUBSET Sets]
  BY DEF TypeOK, ReleaseDescriptorSets
<1>2. recycled' \subseteq Sets
  BY DEF TypeOK, ReleaseDescriptorSets
<1> QED
  BY <1>1, <1>2 DEF TypeOK, CacheTypes

\* The key of the region at hand.
LEMMA CopyKeyTyped ==
  ASSUME TypeOK, CallsInOrder, NEW t \in Threads, at[t] \in {"take", "allocate", "update"}
  PROVE  /\ CopyKey(t) \in Key /\ CopyKey(t) = call[t].view
         /\ \A side \in Sides : CopyKey(t)[side] = call[t].view[side]
<1>1. call[t].view \in Key
  BY DEF CallsInOrder, InOrder
<1> QED
  BY <1>1 DEF CopyKey, Key, Sides

\* The view that a thread enters, or that another entered before.
LEMMA WinnerTyped ==
  ASSUME IInv, NEW t \in Threads, at[t] = "emplace"
  PROVE  LET i == ImageWanted(t)
             winner == IF storage_views[i] = NoView THEN call[t].created ELSE storage_views[i]
         IN winner \in Views
<1>1. ImageWanted(t) \in Images /\ call[t].created \in Views
  BY WantedExists DEF IInv, CreatedApart
<1> QED
  BY <1>1 DEF IInv, TypeOK

\* Every step keeps the types, and a pool there is at any time.
LEMMA TypeNext == IInv /\ [Next]_vars => (TypeOK /\ pools # <<>>)'
<1> SUFFICES ASSUME IInv, [Next]_vars
             PROVE  (ViewTypes /\ PoolTypes /\ CacheTypes /\ CallTypes /\ RestTypes)'
  BY DEF TypeOK, ViewTypes, PoolTypes, CacheTypes, CallTypes, RestTypes
<1>0. /\ TypeOK /\ pools # <<>> /\ CallsInOrder /\ CreatedApart
      /\ ViewTypes /\ PoolTypes /\ CacheTypes /\ CallTypes /\ RestTypes
  BY TypesInParts DEF IInv
<1> USE DEF cache_vars, driver_vars
<1>1. ASSUME NEW i \in Images, CreateImage(i)
      PROVE  (ViewTypes /\ PoolTypes /\ CacheTypes /\ CallTypes /\ RestTypes)'
  BY <1>0, <1>1 DEF CreateImage, ViewTypes, PoolTypes, CacheTypes, CallTypes, RestTypes
<1>2. ASSUME NEW i \in Images, DestroyImage(i)
      PROVE  (ViewTypes /\ PoolTypes /\ CacheTypes /\ CallTypes /\ RestTypes)'
  <2>1. DestroyViews({storage_views[i]})
    BY <1>2 DEF DestroyImage
  <2>2. ViewTypes'
    BY <1>0, <1>2, <2>1, DestroyViewsSays DEF DestroyImage, ViewTypes
  <2>3. RestTypes'
    BY <1>0, <1>2 DEF DestroyImage, RestTypes
  <2> QED
    BY <1>0, <1>2, <2>2, <2>3 DEF DestroyImage, PoolTypes, CacheTypes, CallTypes
<1>3. ASSUME NEW t \in Threads, NEW dst \in Images, NEW src \in Images,
             NEW n \in 1 .. MaxRegions, Start(t, dst, src, n)
      PROVE  (ViewTypes /\ PoolTypes /\ CacheTypes /\ CallTypes /\ RestTypes)'
  <2>1. CallTypes'
    BY <1>0, <1>3, StartSays DEF CallTypes
  <2> QED
    BY <1>0, <1>3, <2>1 DEF Start, ViewTypes, PoolTypes, CacheTypes, RestTypes
<1>4. ASSUME NEW t \in Threads, FindView(t)
      PROVE  (ViewTypes /\ PoolTypes /\ CacheTypes /\ CallTypes /\ RestTypes)'
  <2>1. storage_views[ImageWanted(t)] \in Views \union {NoView}
    BY <1>0, <1>4, WantedExists DEF FindView, TypeOK
  <2>2. ASSUME storage_views[ImageWanted(t)] # NoView PROVE CallTypes'
    <3>1. UseView(t, storage_views[ImageWanted(t)])
      BY <1>4, <2>2 DEF FindView
    <3> QED
      BY <1>0, <2>1, <2>2, <3>1, UseViewSays DEF CallTypes
  <2>3. ASSUME storage_views[ImageWanted(t)] = NoView PROVE CallTypes'
    BY <1>0, <1>4, <2>3 DEF FindView, Goto, CallTypes, Steps
  <2> QED
    BY <1>0, <1>4, <2>2, <2>3 DEF FindView, ViewTypes, PoolTypes, CacheTypes, CallTypes, RestTypes
<1>5. ASSUME NEW t \in Threads, CreateView(t)
      PROVE  (ViewTypes /\ PoolTypes /\ CacheTypes /\ CallTypes /\ RestTypes)'
  <2>1. PICK v \in Views : /\ view_image' = [view_image EXCEPT ![v] = ImageWanted(t)]
                           /\ call' = [call EXCEPT ![t].created = v]
    BY <1>5 DEF CreateView
  <2>2. ImageWanted(t) \in Images
    BY <1>0, <1>5, WantedExists DEF CreateView
  <2>3. CallTypes'
    BY <1>0, <1>5, <2>1, CreateViewSays DEF CreateView, Goto, CallTypes, Steps
  <2> QED
    BY <1>0, <1>5, <2>1, <2>2, <2>3 DEF CreateView, ViewTypes, PoolTypes, CacheTypes, RestTypes
<1>6. ASSUME NEW t \in Threads, EmplaceView(t)
      PROVE  (ViewTypes /\ PoolTypes /\ CacheTypes /\ CallTypes /\ RestTypes)'
  <2> DEFINE i == ImageWanted(t)
             winner == IF storage_views[i] = NoView THEN call[t].created ELSE storage_views[i]
  <2>1. /\ storage_views' = [storage_views EXCEPT ![i] = winner]
        /\ UseView(t, winner)
        /\ DestroyViews({call[t].created} \ {winner})
        /\ UNCHANGED <<images, in_pool, pools, cache_vars, tracked, copies>>
    BY <1>6 DEF EmplaceView
  <2>2. winner \in Views
    BY <1>6, WinnerTyped DEF EmplaceView
  <2> HIDE DEF winner, i
  <2>3. CallTypes'
    BY <1>0, <2>1, <2>2, UseViewSays DEF CallTypes
  <2>4. ViewTypes'
    BY <1>0, <2>1, <2>2, DestroyViewsSays DEF ViewTypes
  <2> QED
    BY <1>0, <2>1, <2>3, <2>4 DEF PoolTypes, CacheTypes, RestTypes
<1>7. ASSUME NEW t \in Threads, TakeCached(t)
      PROVE  (ViewTypes /\ PoolTypes /\ CacheTypes /\ CallTypes /\ RestTypes)'
  <2>1. at[t] = "take" /\ CopyKey(t) \in Key /\ call[t].left # 0
    BY <1>0, <1>7, CopyKeyTyped DEF TakeCached, CallsInOrder, InOrder
  <2>2. CASE cached[CopyKey(t)] = {}
    BY <1>0, <1>7, <2>2
       DEF TakeCached, Goto, Steps, ViewTypes, PoolTypes, CacheTypes, CallTypes, RestTypes
  <2>3. CASE cached[CopyKey(t)] # {}
    <3>1. PICK s \in cached[CopyKey(t)] :
            /\ cached' = [cached EXCEPT ![CopyKey(t)] = @ \ {s}]
            /\ record' = [record EXCEPT ![s] = CopyKey(t)]
            /\ UseSet(t, s)
      BY <1>7, <2>3 DEF TakeCached
    <3>2. s \in Sets
      BY <1>0, <2>1 DEF TypeOK
    <3>3. CallTypes'
      BY <1>0, <2>1, <3>1, <3>2, UseSetSays DEF CallTypes
    <3>4. CacheTypes'
      BY <1>0, <1>7, <2>1, <3>1, <3>2 DEF TakeCached, CacheTypes
    <3> QED
      BY <1>0, <1>7, <3>3, <3>4 DEF TakeCached, ViewTypes, PoolTypes, RestTypes
  <2> QED
    BY <2>2, <2>3
<1>8. ASSUME NEW t \in Threads, AllocateSet(t)
      PROVE  (ViewTypes /\ PoolTypes /\ CacheTypes /\ CallTypes /\ RestTypes)'
  <2>1. PICK s \in Sets :
           /\ call' = [call EXCEPT ![t].set = {s}]
           /\ \/ /\ s \in recycled /\ recycled' = recycled \ {s}
                 /\ UNCHANGED <<in_pool, pools>>
              \/ /\ in_pool[s] = 0 /\ UNCHANGED recycled
                 /\ pools' \in Seq(Nat \ {0}) /\ Len(pools) <= Len(pools') /\ pools' # <<>>
                 /\ in_pool' \in [Sets -> 0 .. Len(pools')] /\ in_pool'[s] # 0
                 /\ \A q \in Sets \ {s} : in_pool'[q] = in_pool[q]
    BY <1>0, <1>8, AllocateSetTakes
  <2>2. PoolTypes' /\ recycled' \subseteq Sets
    BY <1>0, <2>1 DEF PoolTypes, CacheTypes
  <2>3. call' \in [Threads -> Locals]
    BY <1>0, <2>1, AllocateSetSays
  <2> QED
    BY <1>0, <1>8, <2>2, <2>3
       DEF AllocateSet, Goto, Steps, ViewTypes, CacheTypes, CallTypes, RestTypes
<1>9. ASSUME NEW t \in Threads, UpdateSet(t)
      PROVE  (ViewTypes /\ PoolTypes /\ CacheTypes /\ CallTypes /\ RestTypes)'
  <2>1. PICK s \in call[t].set : /\ written' = [written EXCEPT ![s] = call[t].view]
                                 /\ record' = [record EXCEPT ![s] = CopyKey(t)]
                                 /\ UseSet(t, s)
    BY <1>9 DEF UpdateSet
  <2>2. /\ at[t] = "update" /\ CopyKey(t) \in Key /\ call[t].left # 0 /\ s \in Sets
        /\ call[t].view \in Key
    BY <1>0, <1>9, CopyKeyTyped, LocalsTyped DEF UpdateSet, CallsInOrder, InOrder
  <2>3. CallTypes'
    BY <1>0, <2>1, <2>2, UseSetSays DEF CallTypes
  <2>4. ViewTypes'
    BY <1>0, <1>9, <2>1, <2>2 DEF UpdateSet, ViewTypes, Key
  <2> QED
    BY <1>0, <1>9, <2>1, <2>2, <2>3, <2>4 DEF UpdateSet, PoolTypes, CacheTypes, RestTypes
<1>10. ASSUME NEW t \in Threads, Fail(t)
       PROVE  (ViewTypes /\ PoolTypes /\ CacheTypes /\ CallTypes /\ RestTypes)'
  <2>1. CacheTypes' /\ CallTypes'
    BY <1>0, <1>10, LocalsTyped, ReleaseTyped, ReturnSays DEF Fail, CallTypes
  <2> QED
    BY <1>0, <1>10, <2>1 DEF Fail, ViewTypes, PoolTypes, RestTypes
<1>11. ASSUME NEW t \in Threads, FailAfterGrowth(t)
       PROVE  (ViewTypes /\ PoolTypes /\ CacheTypes /\ CallTypes /\ RestTypes)'
  <2>1. CacheTypes' /\ CallTypes'
    BY <1>0, <1>11, LocalsTyped, ReleaseTyped, ReturnSays DEF FailAfterGrowth, CallTypes
  <2>2. PoolTypes' /\ UNCHANGED in_pool
    <3>1. pools' = Append(pools, NextCapacity(pools[Len(pools)])) /\ UNCHANGED in_pool
      BY <1>11 DEF FailAfterGrowth
    <3>2. /\ pools \in Seq(Nat \ {0}) /\ Len(pools) \in Nat \ {0}
          /\ in_pool \in [Sets -> 0 .. Len(pools)]
      BY <1>0 DEF PoolTypes
    <3>3. NextCapacity(pools[Len(pools)]) \in Nat \ {0}
      BY <3>2, NextCapacityTyped
    <3>4. pools' \in Seq(Nat \ {0}) /\ Len(pools') = Len(pools) + 1
      BY <3>1, <3>2, <3>3
    <3>5. in_pool' \in [Sets -> 0 .. Len(pools')]
      BY <3>1, <3>2, <3>4
    <3> QED
      BY <3>1, <3>2, <3>4, <3>5 DEF PoolTypes
  <2> QED
    BY <1>0, <1>11, <2>1, <2>2 DEF FailAfterGrowth, ViewTypes, RestTypes
<1>12. ASSUME NEW t \in Threads, RecordCopies(t)
       PROVE  (ViewTypes /\ PoolTypes /\ CacheTypes /\ CallTypes /\ RestTypes)'
  <2>1. CallTypes'
    BY <1>0, <1>12, ReturnSays DEF RecordCopies, CallTypes
  <2> DEFINE new == {[set |-> s, dst |-> call[t].image.dst, src |-> call[t].image.src] :
                       s \in call[t].prepared}
  <2>2. new \in SUBSET Copy /\ call[t].prepared \in SUBSET Sets
    <3>1. call[t].image.dst \in Images /\ call[t].image.src \in Images
      BY <1>0, <1>12 DEF RecordCopies, CallsInOrder, InOrder, TypeOK
    <3> QED
      BY <1>0, <3>1, LocalsTyped DEF Copy
  <2>3. /\ copies' = [copies EXCEPT ![t] = @ \union new]
        /\ tracked' = [tracked EXCEPT ![t] = @ \union call[t].prepared]
    BY <1>12 DEF RecordCopies
  <2> HIDE DEF new
  <2>4. RestTypes'
    BY <1>0, <1>12, <2>2, <2>3 DEF RecordCopies, RestTypes
  <2> QED
    BY <1>0, <1>12, <2>1, <2>4 DEF RecordCopies, ViewTypes, PoolTypes, CacheTypes
<1>13. ASSUME NEW t \in Threads, ReleaseCommandBuffer(t)
       PROVE  (ViewTypes /\ PoolTypes /\ CacheTypes /\ CallTypes /\ RestTypes)'
  <2>1. CacheTypes'
    BY <1>0, <1>13, ReleaseTyped DEF ReleaseCommandBuffer, TypeOK
  <2> QED
    BY <1>0, <1>13, <2>1 DEF ReleaseCommandBuffer, ViewTypes, PoolTypes, CallTypes, RestTypes
<1>14. CASE UNCHANGED vars
  BY <1>0, <1>14 DEF vars, ViewTypes, PoolTypes, CacheTypes, CallTypes, RestTypes
<1> QED
  BY <1>1, <1>2, <1>3, <1>4, <1>5, <1>6, <1>7, <1>8, <1>9, <1>10, <1>11, <1>12, <1>13, <1>14
     DEF Next

-----------------------------------------------------------------------------
(* Calls.                                                                  *)

\* A step of one thread leaves the calls of the others in order.
LEMMA OthersInOrder ==
  ASSUME CallsInOrder, NEW t \in Threads, InOrder(t)', images \subseteq images',
         \A u \in Threads \ {t} : at'[u] = at[u] /\ call'[u] = call[u]
  PROVE  CallsInOrder'
<1> SUFFICES ASSUME NEW u \in Threads, u # t PROVE InOrder(u)'
  BY DEF CallsInOrder
<1>1. InOrder(u) /\ at'[u] = at[u] /\ call'[u] = call[u]
  BY DEF CallsInOrder
<1> QED
  BY <1>1 DEF InOrder

\* A call that found a view goes on with the other side, or with the descriptor set.
LEMMA UseViewInOrder ==
  ASSUME TypeOK, CallsInOrder, NEW t \in Threads, at[t] \in {"find", "emplace"},
         NEW v \in Views, UseView(t, v), UNCHANGED images
  PROVE  CallsInOrder'
<1>1. /\ call[t].side \in Sides
      /\ call[t].side = "dst" => call[t].view.src # NoView
      /\ call[t].image.dst \in images /\ call[t].image.src \in images
      /\ call[t].left # 0 /\ call[t].set = {}
      /\ call[t].view.src \in Views \union {NoView}
  BY LocalsTyped DEF CallsInOrder, InOrder
<1>2. /\ call' \in [Threads -> Locals]
      /\ \A u \in Threads \ {t} : at'[u] = at[u] /\ call'[u] = call[u]
      /\ at'[t] = (IF call[t].side = "src" THEN "find" ELSE "take")
      /\ call'[t].image = call[t].image /\ call'[t].left = call[t].left
      /\ call'[t].set = call[t].set
      /\ call'[t].created = NoView /\ call'[t].side = "dst"
      /\ call'[t].view[call[t].side] = v
      /\ \A side \in Sides \ {call[t].side} : call'[t].view[side] = call[t].view[side]
  BY UseViewSays
<1>3. v # NoView
  BY DescriptorSetsAssumption
<1>4. call'[t].view \in [dst : Views \union {NoView}, src : Views \union {NoView}]
  BY <1>2 DEF Locals
<1>5. CASE call[t].side = "src"
  <2>1. call'[t].view.src = v
    BY <1>2, <1>5
  <2> QED
    BY <1>1, <1>2, <1>3, <1>5, <2>1, OthersInOrder DEF InOrder
<1>6. CASE call[t].side = "dst"
  <2>1. call'[t].view.dst = v /\ call'[t].view.src = call[t].view.src
    BY <1>2, <1>6 DEF Sides
  <2>2. call'[t].view \in Key
    BY <1>1, <1>4, <1>6, <2>1 DEF Key
  <2> QED
    BY <1>1, <1>2, <1>6, <2>2, OthersInOrder DEF InOrder
<1> QED
  BY <1>1, <1>5, <1>6 DEF Sides

\* A call that has its set goes on with the next region, or records.
LEMMA UseSetInOrder ==
  ASSUME TypeOK, CallsInOrder, NEW t \in Threads, at[t] \in {"take", "update"},
         NEW s \in Sets, UseSet(t, s), UNCHANGED images
  PROVE  CallsInOrder'
<1>1. /\ call[t].image.dst \in images /\ call[t].image.src \in images
      /\ call[t].left # 0 /\ call[t].created = NoView /\ call[t].left \in Nat
  BY LocalsTyped, DescriptorSetsAssumption DEF CallsInOrder, InOrder
<1>2. /\ \A u \in Threads \ {t} : at'[u] = at[u] /\ call'[u] = call[u]
      /\ at'[t] = (IF call[t].left = 1 THEN "record" ELSE "find")
      /\ call'[t].image = call[t].image /\ call'[t].left = call[t].left - 1
      /\ call'[t].set = {} /\ call'[t].created = call[t].created /\ call'[t].side = "src"
  BY <1>1, UseSetSays
<1>3. InOrder(t)'
  BY <1>1, <1>2 DEF InOrder
<1> QED
  BY <1>2, <1>3, OthersInOrder

\* Every step keeps every call in order.
LEMMA CallsNext == IInv /\ [Next]_vars => CallsInOrder'
<1> SUFFICES ASSUME IInv, [Next]_vars PROVE CallsInOrder'
  OBVIOUS
<1>0. TypeOK /\ CallsInOrder /\ pools # <<>> /\ (TypeOK /\ pools # <<>>)'
  BY TypeNext DEF IInv
<1> USE DEF cache_vars, driver_vars
<1>1. ASSUME NEW i \in Images, CreateImage(i) PROVE CallsInOrder'
  BY <1>0, <1>1 DEF CreateImage, CallsInOrder, InOrder
<1>2. ASSUME NEW i \in Images, DestroyImage(i) PROVE CallsInOrder'
  BY <1>0, <1>2 DEF DestroyImage, CallsInOrder, InOrder
<1>3. ASSUME NEW t \in Threads, NEW dst \in Images, NEW src \in Images,
             NEW n \in 1 .. MaxRegions, Start(t, dst, src, n)
      PROVE  CallsInOrder'
  <2>1. /\ \A u \in Threads \ {t} : at'[u] = at[u] /\ call'[u] = call[u]
        /\ at'[t] = "find"
        /\ call'[t].image.dst = dst /\ call'[t].image.src = src
        /\ call'[t].side = "src" /\ call'[t].created = NoView
        /\ call'[t].set = {} /\ call'[t].left = n
    BY <1>0, <1>3, StartSays
  <2>2. dst \in images' /\ src \in images' /\ images' = images /\ n # 0
    BY <1>3, DescriptorSetsAssumption DEF Start
  <2>3. InOrder(t)'
    BY <2>1, <2>2 DEF InOrder
  <2> QED
    BY <1>0, <2>1, <2>2, <2>3, OthersInOrder
<1>4. ASSUME NEW t \in Threads, FindView(t) PROVE CallsInOrder'
  <2>1. storage_views[ImageWanted(t)] \in Views \union {NoView}
    BY <1>0, <1>4, WantedExists DEF FindView, TypeOK
  <2>2. CASE storage_views[ImageWanted(t)] # NoView
    BY <1>0, <1>4, <2>1, <2>2, UseViewInOrder DEF FindView
  <2>3. CASE storage_views[ImageWanted(t)] = NoView
    <3>1. InOrder(t)'
      BY <1>0, <1>4, <2>3, GotoSays DEF FindView, Steps, CallsInOrder, InOrder
    <3> QED
      BY <1>0, <1>4, <2>3, <3>1, GotoSays, OthersInOrder DEF FindView, Steps
  <2> QED
    BY <2>2, <2>3
<1>5. ASSUME NEW t \in Threads, CreateView(t) PROVE CallsInOrder'
  <2>1. PICK v \in Views : call' = [call EXCEPT ![t].created = v]
    BY <1>5 DEF CreateView
  <2>2. InOrder(t)'
    BY <1>0, <1>5, <2>1, CreateViewSays, GotoSays DEF CreateView, Steps, CallsInOrder, InOrder
  <2> QED
    BY <1>0, <1>5, <2>1, <2>2, CreateViewSays, GotoSays, OthersInOrder DEF CreateView, Steps
<1>6. ASSUME NEW t \in Threads, EmplaceView(t) PROVE CallsInOrder'
  BY <1>0, <1>6, WinnerTyped, UseViewInOrder DEF EmplaceView
<1>7. ASSUME NEW t \in Threads, TakeCached(t) PROVE CallsInOrder'
  <2>1. CASE cached[CopyKey(t)] = {}
    <3>1. InOrder(t)'
      BY <1>0, <1>7, <2>1, GotoSays DEF TakeCached, Steps, CallsInOrder, InOrder
    <3> QED
      BY <1>0, <1>7, <2>1, <3>1, GotoSays, OthersInOrder DEF TakeCached, Steps
  <2>2. CASE cached[CopyKey(t)] # {}
    <3>1. PICK s \in cached[CopyKey(t)] : UseSet(t, s)
      BY <1>7, <2>2 DEF TakeCached
    <3>2. s \in Sets
      BY <1>0, <1>7, CopyKeyTyped DEF TakeCached, TypeOK
    <3> QED
      BY <1>0, <1>7, <3>1, <3>2, UseSetInOrder DEF TakeCached
  <2> QED
    BY <2>1, <2>2
<1>8. ASSUME NEW t \in Threads, AllocateSet(t) PROVE CallsInOrder'
  <2>1. PICK s \in Sets : call' = [call EXCEPT ![t].set = {s}]
    BY <1>0, <1>8, AllocateSetTakes
  <2>2. /\ \A u \in Threads \ {t} : at'[u] = at[u] /\ call'[u] = call[u]
        /\ at[t] = "allocate" /\ at'[t] = "update" /\ UNCHANGED images
        /\ call'[t].image = call[t].image /\ call'[t].left = call[t].left
        /\ call'[t].view = call[t].view /\ call'[t].created = call[t].created
        /\ call'[t].set = {s}
    BY <1>0, <1>8, <2>1, AllocateSetSays, GotoSays DEF AllocateSet, Steps
  <2>3. InOrder(t)'
    BY <1>0, <2>2 DEF CallsInOrder, InOrder
  <2> QED
    BY <1>0, <2>2, <2>3, OthersInOrder
<1>9. ASSUME NEW t \in Threads, UpdateSet(t) PROVE CallsInOrder'
  BY <1>0, <1>9, LocalsTyped, UseSetInOrder DEF UpdateSet
<1>10. ASSUME NEW t \in Threads, Return(t), UNCHANGED images PROVE CallsInOrder'
  <2>1. InOrder(t)'
    BY <1>0, <1>10, ReturnSays, NoCallTyped DEF InOrder
  <2> QED
    BY <1>0, <1>10, <2>1, ReturnSays, OthersInOrder
<1>11. ASSUME NEW t \in Threads, ReleaseCommandBuffer(t) PROVE CallsInOrder'
  BY <1>0, <1>11 DEF ReleaseCommandBuffer, CallsInOrder, InOrder
<1>12. CASE UNCHANGED vars
  BY <1>0, <1>12 DEF vars, CallsInOrder, InOrder
<1> QED
  BY <1>1, <1>2, <1>3, <1>4, <1>5, <1>6, <1>7, <1>8, <1>9, <1>10, <1>11, <1>12
     DEF Next, Fail, FailAfterGrowth, RecordCopies

-----------------------------------------------------------------------------
(* Views.                                                                  *)

ViewsSafe == ViewsAccounted /\ CreatedApart /\ ViewsInUse

\* A step that makes, enters and destroys no view.
LEMMA ViewsKept ==
  ASSUME ViewsSafe, UNCHANGED <<view_image, storage_views>>, images \subseteq images',
         \A u \in Threads : /\ at'[u] = "emplace" <=> at[u] = "emplace"
                            /\ call'[u].created = call[u].created
                            /\ at[u] = "emplace" => call'[u] = call[u],
         \A u \in Threads, side \in Sides :
           \/ call'[u].view[side] = NoView
           \/ /\ call'[u].view[side] = call[u].view[side]
              /\ call'[u].image[side] = call[u].image[side]
  PROVE  ViewsSafe'
<1>1. ViewsAccounted'
  BY DEF ViewsSafe, ViewsAccounted, Live
<1>2. CreatedApart'
  BY DEF ViewsSafe, CreatedApart, ImageWanted
<1>3. ViewsInUse'
  BY DEF ViewsSafe, ViewsInUse
<1> QED
  BY <1>1, <1>2, <1>3 DEF ViewsSafe

\* The views of an image that is destroyed are gone, and no others.
LEMMA DestroyImageViews ==
  ASSUME TypeOK, CallsInOrder, ViewsSafe, NEW i \in Images, DestroyImage(i)
  PROVE  ViewsSafe'
<1>1. /\ \A t \in Threads : i \notin {call[t].image.dst, call[t].image.src}
      /\ images' = images \ {i}
      /\ storage_views' = [storage_views EXCEPT ![i] = NoView]
      /\ UNCHANGED <<at, call>>
  BY DEF DestroyImage
<1>2. \A v \in Views : view_image'[v] = IF v = storage_views[i] THEN NoImage ELSE view_image[v]
  BY DestroyViewsSays DEF DestroyImage
<1>3. \A j \in Images : storage_views'[j] = IF j = i THEN NoView ELSE storage_views[j]
  BY <1>1 DEF TypeOK
<1>4. \A t \in Threads, side \in Sides : call[t].image[side] # i
  BY <1>1 DEF Sides
<1>5. \A t \in Threads : ImageWanted(t) # i /\ UNCHANGED ImageWanted(t)
  BY <1>1, <1>4, LocalsTyped DEF ImageWanted
<1>6. \A j \in Images : storage_views[j] # NoView =>
        storage_views[j] \in Views /\ view_image[storage_views[j]] = j
  BY DEF TypeOK, ViewsSafe, ViewsAccounted
<1>7. ViewsAccounted'
  <2>1. ASSUME NEW j \in Images, storage_views'[j] # NoView
        PROVE  view_image'[storage_views'[j]] = j
    BY <1>2, <1>3, <1>6, <2>1
  <2>2. ASSUME NEW v \in Views, view_image'[v] # NoImage
        PROVE  /\ view_image'[v] \in images'
               /\ \/ storage_views'[view_image'[v]] = v
                  \/ \E t \in Threads : at'[t] = "emplace" /\ call'[t].created = v
    <3>1. v # storage_views[i] /\ view_image'[v] = view_image[v] /\ view_image[v] \in images
          /\ view_image[v] \in Images
      BY <1>2, <2>2 DEF ViewsSafe, ViewsAccounted, Live, TypeOK
    <3>2. CASE storage_views[view_image[v]] = v
      BY <1>1, <1>3, <3>1, <3>2
    <3>3. CASE \E t \in Threads : at[t] = "emplace" /\ call[t].created = v
      BY <1>1, <1>5, <3>1, <3>3 DEF ViewsSafe, CreatedApart
    <3> QED
      BY <2>2, <3>1, <3>2, <3>3 DEF ViewsSafe, ViewsAccounted, Live
  <2> QED
    BY <2>1, <2>2 DEF ViewsAccounted, Live
<1>8. CreatedApart'
  <2>1. \A t \in Threads : at[t] = "emplace" => call[t].created # storage_views[i]
    BY DEF ViewsSafe, CreatedApart
  <2>2. \A t \in Threads : at[t] = "emplace" => call[t].created # NoView
    BY DescriptorSetsAssumption DEF ViewsSafe, CreatedApart
  <2> QED
    BY <1>1, <1>2, <1>3, <1>5, <2>1, <2>2 DEF ViewsSafe, CreatedApart
<1>9. ViewsInUse'
  <2>1. ASSUME NEW t \in Threads, NEW side \in Sides, call[t].view[side] # NoView
        PROVE  storage_views'[call[t].image[side]] = call[t].view[side]
    <3>1. storage_views[call[t].image[side]] = call[t].view[side] /\ call[t].image[side] # i
      BY <1>4, <2>1 DEF ViewsSafe, ViewsInUse
    <3>2. storage_views' = [j \in Images |-> storage_views'[j]]
      BY <1>1 DEF TypeOK
    <3>3. call[t].image[side] \in Images
      BY <2>1, LocalsTyped DEF CallsInOrder, InOrder, NoCall, NoKey, Sides, TypeOK
    <3> QED
      BY <1>3, <3>1, <3>3
  <2> QED
    BY <1>1, <2>1 DEF ViewsInUse
<1> QED
  BY <1>7, <1>8, <1>9 DEF ViewsSafe

\* A view that is found is used for the image that was looked up.
LEMMA FindViewUse ==
  ASSUME TypeOK, CallsInOrder, ViewsSafe, NEW t \in Threads, at[t] = "find",
         NEW v \in Views, v = storage_views[ImageWanted(t)], UseView(t, v),
         UNCHANGED <<images, view_image, storage_views>>
  PROVE  ViewsSafe'
<1>1. /\ \A u \in Threads \ {t} : at'[u] = at[u] /\ call'[u] = call[u]
      /\ at'[t] # "emplace"
      /\ call'[t].image = call[t].image /\ call'[t].created = NoView
      /\ call'[t].view[call[t].side] = v
      /\ \A side \in Sides \ {call[t].side} : call'[t].view[side] = call[t].view[side]
  BY UseViewSays
<1>2. call[t].created = NoView
  BY DEF CallsInOrder, InOrder
<1>3. ViewsAccounted'
  BY <1>1, <1>2 DEF ViewsSafe, ViewsAccounted, Live
<1>4. CreatedApart'
  BY <1>1, <1>2 DEF ViewsSafe, CreatedApart, ImageWanted
<1>5. ViewsInUse'
  BY <1>1 DEF ViewsSafe, ViewsInUse, ImageWanted
<1> QED
  BY <1>3, <1>4, <1>5 DEF ViewsSafe

\* A new view is in its thread's hands.
LEMMA CreateViewSafe ==
  ASSUME TypeOK, CallsInOrder, ViewsSafe, NEW t \in Threads, CreateView(t)
  PROVE  ViewsSafe'
<1>1. PICK v \in Views : /\ ~Live(v)
                         /\ view_image' = [view_image EXCEPT ![v] = ImageWanted(t)]
                         /\ call' = [call EXCEPT ![t].created = v]
  BY DEF CreateView
<1>2. /\ at[t] = "create" /\ UNCHANGED <<images, storage_views>>
      /\ at'[t] = "emplace" /\ \A u \in Threads \ {t} : at'[u] = at[u]
      /\ ImageWanted(t) \in images /\ ImageWanted(t) \in Images
  BY WantedExists, GotoSays DEF CreateView, Steps, driver_vars
<1>3. /\ \A u \in Threads \ {t} : call'[u] = call[u]
      /\ call'[t].image = call[t].image /\ call'[t].view = call[t].view
      /\ call'[t].side = call[t].side /\ call'[t].created = v
  BY <1>1, CreateViewSays
<1>4. \A w \in Views : view_image'[w] = IF w = v THEN ImageWanted(t) ELSE view_image[w]
  BY <1>1 DEF TypeOK
<1>5. \A u \in Threads : UNCHANGED ImageWanted(u)
  BY <1>3 DEF ImageWanted
<1>6. \A j \in Images : storage_views[j] # NoView =>
        storage_views[j] \in Views /\ storage_views[j] # v /\ view_image[storage_views[j]] = j
  BY <1>1, DescriptorSetsAssumption DEF TypeOK, ViewsSafe, ViewsAccounted, Live
<1>7. \A u \in Threads : at[u] = "emplace" => call[u].created # v
  <2>1. \A u \in Threads : at[u] = "emplace" => ImageWanted(u) \in Images
    BY WantedExists
  <2> QED
    BY <1>1, <2>1, DescriptorSetsAssumption DEF ViewsSafe, CreatedApart, Live
<1>8. ViewsAccounted'
  <2>1. ASSUME NEW j \in Images, storage_views[j] # NoView
        PROVE  view_image'[storage_views[j]] = j
    BY <1>4, <1>6, <2>1
  <2>2. ASSUME NEW w \in Views, view_image'[w] # NoImage
        PROVE  /\ view_image'[w] \in images
               /\ \/ storage_views[view_image'[w]] = w
                  \/ \E u \in Threads : at'[u] = "emplace" /\ call'[u].created = w
    <3>1. CASE w = v
      BY <1>2, <1>3, <1>4, <3>1
    <3>2. CASE w # v
      BY <1>2, <1>3, <1>4, <2>2, <3>2 DEF ViewsSafe, ViewsAccounted, Live
    <3> QED
      BY <3>1, <3>2
  <2> QED
    BY <1>2, <2>1, <2>2 DEF ViewsAccounted, Live
<1>9. CreatedApart'
  <2>1. ASSUME NEW u \in Threads, at'[u] = "emplace"
        PROVE  /\ call'[u].created \in Views
               /\ view_image'[call'[u].created] = ImageWanted(u)
               /\ \A j \in Images : storage_views[j] # call'[u].created
    <3>1. CASE u = t
      <4>1. v # NoView
        BY DescriptorSetsAssumption
      <4> QED
        BY <1>3, <1>4, <1>6, <3>1, <4>1
    <3>2. CASE u # t
      BY <1>2, <1>3, <1>4, <1>7, <2>1, <3>2 DEF ViewsSafe, CreatedApart
    <3> QED
      BY <3>1, <3>2
  <2>2. \A u, w \in Threads :
          call'[u].created = call'[w].created /\ call'[u].created # NoView => u = w
    <3>1. \A u \in Threads : at[u] # "emplace" => call[u].created = NoView
      BY DEF CallsInOrder, InOrder
    <3>2. \A u \in Threads \ {t} : call'[u].created # v
      BY <1>3, <1>7, <3>1, DescriptorSetsAssumption
    <3> QED
      BY <1>3, <3>2 DEF ViewsSafe, CreatedApart
  <2> QED
    BY <1>2, <1>5, <2>1, <2>2 DEF CreatedApart
<1>10. ViewsInUse'
  <2>1. \A u \in Threads : call'[u].view = call[u].view /\ call'[u].image = call[u].image
    BY <1>3
  <2> QED
    BY <1>2, <2>1 DEF ViewsSafe, ViewsInUse
<1> QED
  BY <1>8, <1>9, <1>10 DEF ViewsSafe

\* Whoever enters a view first, the map has one view for the image and the other is gone.
LEMMA EmplaceViewSafe ==
  ASSUME IInv, NEW t \in Threads, EmplaceView(t)
  PROVE  ViewsSafe'
<1> DEFINE i == ImageWanted(t)
           c == call[t].created
           winner == IF storage_views[i] = NoView THEN c ELSE storage_views[i]
<1>1. /\ storage_views' = [storage_views EXCEPT ![i] = winner]
      /\ UseView(t, winner)
      /\ DestroyViews({c} \ {winner})
      /\ UNCHANGED images
      /\ at[t] = "emplace"
  BY DEF EmplaceView
<1>2. /\ TypeOK /\ ViewsSafe /\ CallsInOrder
      /\ winner \in Views /\ i \in Images /\ i \in images /\ c \in Views
      /\ view_image[c] = i /\ \A j \in Images : storage_views[j] # c
  BY <1>1, WinnerTyped, WantedExists DEF IInv, ViewsSafe, CreatedApart
<1>3. /\ \A u \in Threads \ {t} : at'[u] = at[u] /\ call'[u] = call[u]
      /\ at'[t] # "emplace"
      /\ call'[t].image = call[t].image /\ call'[t].created = NoView
      /\ call'[t].view[call[t].side] = winner
      /\ \A side \in Sides \ {call[t].side} : call'[t].view[side] = call[t].view[side]
  BY <1>1, <1>2, UseViewSays
<1>4. /\ \A v \in Views : view_image'[v] = IF v \in {c} \ {winner} THEN NoImage ELSE view_image[v]
  BY <1>1, <1>2, DestroyViewsSays
<1>5. \A j \in Images : storage_views'[j] = IF j = i THEN winner ELSE storage_views[j]
  BY <1>1, <1>2 DEF TypeOK
<1>6. \A j \in Images : storage_views[j] # NoView =>
        storage_views[j] \in Views /\ view_image[storage_views[j]] = j
  BY <1>2 DEF TypeOK, ViewsSafe, ViewsAccounted
<1>7. view_image[winner] = i /\ view_image'[winner] = i
  BY <1>2, <1>4, <1>6
<1>8. \A u \in Threads \ {t} : at[u] = "emplace" =>
        call[u].created # c /\ call[u].created # winner /\ call[u].created \in Views
  BY <1>1, <1>2, DescriptorSetsAssumption DEF ViewsSafe, CreatedApart
<1> HIDE DEF i, c, winner
<1>9. ViewsAccounted'
  <2>1. ASSUME NEW j \in Images, storage_views'[j] # NoView
        PROVE  view_image'[storage_views'[j]] = j
    BY <1>2, <1>4, <1>5, <1>6, <1>7, <2>1
  <2>2. ASSUME NEW v \in Views, view_image'[v] # NoImage
        PROVE  /\ view_image'[v] \in images'
               /\ \/ storage_views'[view_image'[v]] = v
                  \/ \E u \in Threads : at'[u] = "emplace" /\ call'[u].created = v
    <3>1. /\ v \notin {c} \ {winner} /\ view_image'[v] = view_image[v] /\ view_image[v] \in images
          /\ view_image[v] \in Images
      BY <1>2, <1>4, <2>2 DEF ViewsSafe, ViewsAccounted, Live, TypeOK
    <3>2. CASE v = winner
      BY <1>1, <1>2, <1>5, <1>7, <3>1, <3>2
    <3>3. CASE v # winner
      <4>1. \/ storage_views[view_image[v]] = v
            \/ \E u \in Threads : at[u] = "emplace" /\ call[u].created = v
        BY <1>2, <2>2, <3>1 DEF ViewsSafe, ViewsAccounted, Live
      <4>2. CASE storage_views[view_image[v]] = v
        <5>1. view_image[v] = i => v = winner
          BY <1>2, <4>2, DescriptorSetsAssumption DEF winner
        <5> QED
          BY <1>1, <1>5, <3>1, <3>3, <4>2, <5>1
      <4>3. CASE \E u \in Threads : at[u] = "emplace" /\ call[u].created = v
        <5>1. v # c
          BY <3>1, <3>3
        <5>2. PICK u \in Threads : at[u] = "emplace" /\ call[u].created = v
          BY <4>3
        <5>3. u # t
          BY <5>1, <5>2 DEF c
        <5> QED
          BY <1>1, <1>3, <3>1, <5>2, <5>3
      <4> QED
        BY <4>1, <4>2, <4>3
    <3> QED
      BY <3>2, <3>3
  <2> QED
    BY <2>1, <2>2 DEF ViewsAccounted, Live
<1>10. CreatedApart'
  <2>1. ASSUME NEW u \in Threads, at'[u] = "emplace"
        PROVE  /\ call'[u].created \in Views
               /\ view_image'[call'[u].created] = ImageWanted(u)'
               /\ \A j \in Images : storage_views'[j] # call'[u].created
    <3>1. u # t /\ at[u] = "emplace" /\ call'[u] = call[u]
      BY <1>3, <2>1
    <3>2. /\ call[u].created \in Views /\ view_image[call[u].created] = ImageWanted(u)
          /\ \A j \in Images : storage_views[j] # call[u].created
      BY <1>2, <3>1 DEF ViewsSafe, CreatedApart
    <3> QED
      BY <1>4, <1>5, <1>8, <3>1, <3>2 DEF ImageWanted
  <2>2. \A u, w \in Threads :
          call'[u].created = call'[w].created /\ call'[u].created # NoView => u = w
    BY <1>2, <1>3 DEF ViewsSafe, CreatedApart
  <2> QED
    BY <2>1, <2>2 DEF CreatedApart
<1>11. ViewsInUse'
  <2>1. ASSUME NEW u \in Threads, NEW side \in Sides, call'[u].view[side] # NoView
        PROVE  storage_views'[call'[u].image[side]] = call'[u].view[side]
    <3>1. CASE u = t /\ side = call[t].side
      BY <1>2, <1>3, <1>5, <3>1 DEF ImageWanted, i
    <3>2. CASE ~(u = t /\ side = call[t].side)
      <4>1. call'[u].view[side] = call[u].view[side] /\ call'[u].image = call[u].image
        BY <1>3, <3>2
      <4>2. storage_views[call[u].image[side]] = call[u].view[side]
        BY <1>2, <2>1, <4>1 DEF ViewsSafe, ViewsInUse
      <4>3. call[u].image[side] \in Images
        BY <1>2, <2>1, <4>1, LocalsTyped DEF CallsInOrder, InOrder, NoCall, NoKey, Sides, TypeOK
      <4>4. call[u].image[side] = i => call[u].view[side] = winner
        BY <2>1, <4>1, <4>2 DEF winner
      <4> QED
        BY <1>5, <4>1, <4>2, <4>3, <4>4
    <3> QED
      BY <3>1, <3>2
  <2> QED
    BY <2>1 DEF ViewsInUse
<1> QED
  BY <1>9, <1>10, <1>11 DEF ViewsSafe

\* A call that returns had no view of its own.
LEMMA ReturnViewsSafe ==
  ASSUME TypeOK, CallsInOrder, ViewsSafe, NEW t \in Threads, at[t] # "emplace", Return(t),
         UNCHANGED <<images, view_image, storage_views>>
  PROVE  ViewsSafe'
<1>1. /\ \A u \in Threads \ {t} : at'[u] = at[u] /\ call'[u] = call[u]
      /\ at'[t] = "idle" /\ call'[t] = NoCall
      /\ call[t].created = NoView
  BY ReturnSays DEF CallsInOrder, InOrder
<1> QED
  BY <1>1, NoCallTyped, ViewsKept DEF Sides

\* Nor had one that takes a set.
LEMMA UseSetViewsSafe ==
  ASSUME TypeOK, CallsInOrder, ViewsSafe, NEW t \in Threads, at[t] \in {"take", "update"},
         NEW s \in Sets, UseSet(t, s), UNCHANGED <<images, view_image, storage_views>>
  PROVE  ViewsSafe'
<1>1. call[t].left # 0
  BY DEF CallsInOrder, InOrder
<1>2. /\ \A u \in Threads \ {t} : at'[u] = at[u] /\ call'[u] = call[u]
      /\ at'[t] # "emplace" /\ call'[t].created = call[t].created
      /\ call'[t].view = NoKey
  BY <1>1, UseSetSays
<1>3. \A side \in Sides : NoKey[side] = NoView
  BY DEF NoKey, Sides
<1> QED
  BY <1>2, <1>3, ViewsKept

\* No step loses a view, keeps one of a destroyed image, or gives a call a wrong one.
LEMMA ViewsNext == IInv /\ [Next]_vars => ViewsSafe'
<1> SUFFICES ASSUME IInv, [Next]_vars PROVE ViewsSafe'
  OBVIOUS
<1>0. TypeOK /\ CallsInOrder /\ ViewsSafe /\ pools # <<>>
  BY DEF IInv, ViewsSafe
<1> USE DEF cache_vars, driver_vars
<1>1. ASSUME NEW i \in Images, CreateImage(i) PROVE ViewsSafe'
  BY <1>0, <1>1, ViewsKept DEF CreateImage
<1>2. ASSUME NEW i \in Images, DestroyImage(i) PROVE ViewsSafe'
  BY <1>0, <1>2, DestroyImageViews
<1>3. ASSUME NEW t \in Threads, NEW dst \in Images, NEW src \in Images,
             NEW n \in 1 .. MaxRegions, Start(t, dst, src, n)
      PROVE  ViewsSafe'
  <2>1. /\ \A u \in Threads \ {t} : at'[u] = at[u] /\ call'[u] = call[u]
        /\ at'[t] = "find" /\ call'[t].created = NoView /\ call'[t].view = NoKey
    BY <1>0, <1>3, StartSays
  <2>2. at[t] = "idle" /\ call[t].created = NoView
    BY <1>0, <1>3 DEF Start, CallsInOrder, InOrder
  <2>3. \A side \in Sides : NoKey[side] = NoView
    BY DEF NoKey, Sides
  <2>4. UNCHANGED <<view_image, storage_views, images>>
    BY <1>3 DEF Start
  <2> QED
    BY <1>0, <2>1, <2>2, <2>3, <2>4, ViewsKept
<1>4. ASSUME NEW t \in Threads, FindView(t) PROVE ViewsSafe'
  <2>1. storage_views[ImageWanted(t)] \in Views \union {NoView}
    BY <1>0, <1>4, WantedExists DEF FindView, TypeOK
  <2>2. CASE storage_views[ImageWanted(t)] # NoView
    BY <1>0, <1>4, <2>1, <2>2, FindViewUse DEF FindView
  <2>3. CASE storage_views[ImageWanted(t)] = NoView
    BY <1>0, <1>4, <2>3, GotoSays, ViewsKept DEF FindView, Steps
  <2> QED
    BY <2>2, <2>3
<1>5. ASSUME NEW t \in Threads, CreateView(t) PROVE ViewsSafe'
  BY <1>0, <1>5, CreateViewSafe
<1>6. ASSUME NEW t \in Threads, EmplaceView(t) PROVE ViewsSafe'
  BY <1>6, EmplaceViewSafe
<1>7. ASSUME NEW t \in Threads, TakeCached(t) PROVE ViewsSafe'
  <2>1. CASE cached[CopyKey(t)] = {}
    BY <1>0, <1>7, <2>1, GotoSays, ViewsKept DEF TakeCached, Steps
  <2>2. CASE cached[CopyKey(t)] # {}
    <3>1. PICK s \in cached[CopyKey(t)] : UseSet(t, s)
      BY <1>7, <2>2 DEF TakeCached
    <3>2. s \in Sets
      BY <1>0, <1>7, CopyKeyTyped DEF TakeCached, TypeOK
    <3> QED
      BY <1>0, <1>7, <3>1, <3>2, UseSetViewsSafe DEF TakeCached
  <2> QED
    BY <2>1, <2>2
<1>8. ASSUME NEW t \in Threads, AllocateSet(t) PROVE ViewsSafe'
  <2>1. PICK s \in Sets : call' = [call EXCEPT ![t].set = {s}]
    BY <1>0, <1>8, AllocateSetTakes
  <2>2. /\ \A u \in Threads \ {t} : at'[u] = at[u] /\ call'[u] = call[u]
        /\ at[t] = "allocate" /\ at'[t] = "update"
        /\ UNCHANGED <<images, view_image, storage_views>>
        /\ call'[t].image = call[t].image
        /\ call'[t].view = call[t].view /\ call'[t].created = call[t].created
    BY <1>0, <1>8, <2>1, AllocateSetSays, GotoSays DEF AllocateSet, Steps
  <2> QED
    BY <1>0, <2>2, ViewsKept
<1>9. ASSUME NEW t \in Threads, UpdateSet(t) PROVE ViewsSafe'
  BY <1>0, <1>9, LocalsTyped, UseSetViewsSafe DEF UpdateSet
<1>10. ASSUME NEW t \in Threads, Fail(t) \/ FailAfterGrowth(t) \/ RecordCopies(t)
       PROVE  ViewsSafe'
  BY <1>0, <1>10, ReturnViewsSafe DEF Fail, FailAfterGrowth, RecordCopies
<1>11. ASSUME NEW t \in Threads, ReleaseCommandBuffer(t) PROVE ViewsSafe'
  BY <1>0, <1>11, ViewsKept DEF ReleaseCommandBuffer
<1>12. CASE UNCHANGED vars
  BY <1>0, <1>12, ViewsKept DEF vars
<1> QED
  BY <1>1, <1>2, <1>3, <1>4, <1>5, <1>6, <1>7, <1>8, <1>9, <1>10, <1>11, <1>12 DEF Next

-----------------------------------------------------------------------------
(* Where the sets are.                                                     *)

\* A step that moves no set.
LEMMA SetsStay ==
  ASSUME OncePlaced, UNCHANGED <<cached, recycled, tracked, in_pool>>,
         \A s \in Sets, u \in Threads : InCall(s, u)' <=> InCall(s, u)
  PROVE  OncePlaced'
  BY DEF OncePlaced, Unique, Placed

\* What is released goes where its record says, or among the recycled ones.
LEMMA ReleasePlaces ==
  ASSUME TypeOK, OncePlaced, NEW S \in SUBSET Sets, ReleaseDescriptorSets(S),
         \A s \in Sets : in_pool'[s] = in_pool[s],
         \A s \in S : \E u \in Threads : InCall(s, u) \/ s \in tracked[u],
         \A s \in S : \A u \in Threads : ~InCall(s, u)' /\ s \notin tracked'[u],
         \A s \in Sets \ S : \A u \in Threads :
           (InCall(s, u)' <=> InCall(s, u)) /\ (s \in tracked'[u] <=> s \in tracked[u])
  PROVE  OncePlaced'
<1> SUFFICES ASSUME NEW s \in Sets
             PROVE  Unique(s)' /\ (in_pool'[s] # 0 <=> Placed(s)')
  BY DEF OncePlaced
<1>1. /\ \A k \in Key : s \in cached'[k] <=> s \in cached[k] \/ (s \in S /\ record[s] = k)
      /\ s \in recycled' <=> s \in recycled \/ (s \in S /\ record[s] = NoKey)
  BY DEF ReleaseDescriptorSets
<1>2. record[s] \in Key \union {NoKey} /\ NoKey \notin Key
  BY DescriptorSetsAssumption DEF TypeOK, NoKey, Key
<1>3. Unique(s) /\ (in_pool[s] # 0 <=> Placed(s)) /\ in_pool'[s] = in_pool[s]
  BY DEF OncePlaced
<1>4. CASE s \in S
  <2>1. s \notin recycled /\ \A k \in Key : s \notin cached[k]
    BY <1>3, <1>4 DEF Unique
  <2>2. Placed(s)
    BY <1>4 DEF Placed
  <2>3. Placed(s)'
    BY <1>1, <1>2, <1>4 DEF Placed
  <2>4. Unique(s)'
    BY <1>1, <1>2, <1>4, <2>1 DEF Unique
  <2> QED
    BY <1>3, <2>2, <2>3, <2>4
<1>5. CASE s \notin S
  BY <1>1, <1>3, <1>5 DEF Unique, Placed
<1> QED
  BY <1>4, <1>5

\* A call that fails gives its sets back.
LEMMA FailPlaces ==
  ASSUME TypeOK, CallsInOrder, OncePlaced, NEW t \in Threads, at[t] # "update",
         ReleaseDescriptorSets(call[t].prepared), Return(t), UNCHANGED <<in_pool, tracked>>
  PROVE  OncePlaced'
<1>1. /\ \A u \in Threads \ {t} : call'[u] = call[u]
      /\ call'[t].set = {} /\ call'[t].prepared = {} /\ call[t].set = {}
      /\ call[t].prepared \in SUBSET Sets
  BY ReturnSays, NoCallTyped, LocalsTyped DEF CallsInOrder, InOrder
<1>2. \A s \in Sets : /\ InCall(s, t) <=> s \in call[t].prepared
                      /\ ~InCall(s, t)'
                      /\ \A u \in Threads \ {t} : InCall(s, u)' <=> InCall(s, u)
  BY <1>1 DEF InCall
<1>3. \A s \in call[t].prepared : \A u \in Threads : s \notin tracked[u] /\ (InCall(s, u) => u = t)
  BY <1>1, <1>2 DEF OncePlaced, Unique
<1> QED
  BY <1>1, <1>2, <1>3, ReleasePlaces

\* A cached set goes to the call that takes it.
LEMMA TakePlaces ==
  ASSUME TypeOK, OncePlaced, NEW t \in Threads, NEW k \in Key, NEW s \in cached[k],
         call[t].left # 0, call[t].set = {},
         cached' = [cached EXCEPT ![k] = @ \ {s}], UseSet(t, s),
         UNCHANGED <<recycled, tracked, in_pool>>
  PROVE  OncePlaced'
<1>1. s \in Sets
  BY DEF TypeOK
<1>2. /\ \A u \in Threads \ {t} : call'[u] = call[u]
      /\ call'[t].set = {} /\ call'[t].prepared = call[t].prepared \union {s}
  BY <1>1, UseSetSays
<1>3. \A l \in Key : cached'[l] = IF l = k THEN cached[k] \ {s} ELSE cached[l]
  BY DEF TypeOK
<1>4. \A q \in Sets, u \in Threads : InCall(q, u)' <=> InCall(q, u) \/ (q = s /\ u = t)
  BY <1>2 DEF InCall
<1>5. Unique(s) /\ (in_pool[s] # 0 <=> Placed(s))
  BY <1>1 DEF OncePlaced
<1>6. /\ \A l \in Key : s \notin cached'[l]
      /\ s \notin recycled /\ \A u \in Threads : ~InCall(s, u) /\ s \notin tracked[u]
  BY <1>3, <1>5 DEF Unique
<1>7. Unique(s)' /\ Placed(s)' /\ Placed(s)
  BY <1>1, <1>4, <1>6 DEF Unique, Placed
<1>8. ASSUME NEW q \in Sets, q # s
      PROVE  Unique(q)' /\ (in_pool'[q] # 0 <=> Placed(q)')
  <2>1. /\ \A l \in Key : q \in cached'[l] <=> q \in cached[l]
        /\ \A u \in Threads : InCall(q, u)' <=> InCall(q, u)
    BY <1>3, <1>4, <1>8
  <2> QED
    BY <2>1 DEF OncePlaced, Unique, Placed
<1> QED
  BY <1>5, <1>7, <1>8 DEF OncePlaced

\* A recycled set, or one the driver allocates, goes to the call.
LEMMA AllocatePlaces ==
  ASSUME TypeOK, pools # <<>>, CallsInOrder, OncePlaced, NEW t \in Threads, AllocateSet(t)
  PROVE  OncePlaced'
<1>1. PICK s \in Sets :
           /\ call' = [call EXCEPT ![t].set = {s}]
           /\ \/ /\ s \in recycled /\ recycled' = recycled \ {s}
                 /\ UNCHANGED <<in_pool, pools>>
              \/ /\ in_pool[s] = 0 /\ UNCHANGED recycled
                 /\ pools' \in Seq(Nat \ {0}) /\ Len(pools) <= Len(pools') /\ pools' # <<>>
                 /\ in_pool' \in [Sets -> 0 .. Len(pools')] /\ in_pool'[s] # 0
                 /\ \A q \in Sets \ {s} : in_pool'[q] = in_pool[q]
  BY AllocateSetTakes
<1>2. /\ \A u \in Threads \ {t} : call'[u] = call[u]
      /\ call'[t].set = {s} /\ call'[t].prepared = call[t].prepared /\ call[t].set = {}
  BY <1>1, AllocateSetSays DEF AllocateSet, CallsInOrder, InOrder
<1>3. \A q \in Sets, u \in Threads : InCall(q, u)' <=> InCall(q, u) \/ (q = s /\ u = t)
  BY <1>2 DEF InCall
<1>4. UNCHANGED <<cached, tracked>>
  BY DEF AllocateSet
<1>5. Unique(s) /\ (in_pool[s] # 0 <=> Placed(s))
  BY DEF OncePlaced
<1>6. /\ \A l \in Key : s \notin cached[l]
      /\ s \notin recycled' /\ \A u \in Threads : ~InCall(s, u) /\ s \notin tracked[u]
      /\ in_pool'[s] # 0
  <2>1. CASE s \in recycled /\ recycled' = recycled \ {s} /\ UNCHANGED in_pool
    BY <1>5, <2>1 DEF Unique, Placed
  <2>2. CASE in_pool[s] = 0 /\ UNCHANGED recycled /\ in_pool'[s] # 0
    BY <1>5, <2>2 DEF Unique, Placed
  <2> QED
    BY <1>1, <2>1, <2>2
<1>7. Unique(s)' /\ Placed(s)'
  BY <1>3, <1>4, <1>6 DEF Unique, Placed
<1>8. ASSUME NEW q \in Sets, q # s
      PROVE  Unique(q)' /\ (in_pool'[q] # 0 <=> Placed(q)')
  <2>1. /\ q \in recycled' <=> q \in recycled
        /\ in_pool'[q] = in_pool[q]
        /\ \A u \in Threads : InCall(q, u)' <=> InCall(q, u)
    BY <1>1, <1>3, <1>8
  <2> QED
    BY <1>4, <2>1 DEF OncePlaced, Unique, Placed
<1> QED
  BY <1>6, <1>7, <1>8 DEF OncePlaced

\* The sets of a call go to its command buffer.
LEMMA RecordPlaces ==
  ASSUME TypeOK, CallsInOrder, OncePlaced, NEW t \in Threads, RecordCopies(t)
  PROVE  OncePlaced'
<1>1. /\ \A u \in Threads \ {t} : call'[u] = call[u]
      /\ call'[t].set = {} /\ call'[t].prepared = {} /\ call[t].set = {}
  BY ReturnSays, NoCallTyped DEF RecordCopies, CallsInOrder, InOrder
<1>2. \A s \in Sets, u \in Threads : /\ InCall(s, u)' <=> InCall(s, u) /\ u # t
                                     /\ InCall(s, t) <=> s \in call[t].prepared
  BY <1>1 DEF InCall
<1>3. \A s \in Sets, u \in Threads :
         s \in tracked'[u] <=> s \in tracked[u] \/ (u = t /\ InCall(s, t))
  BY <1>2 DEF RecordCopies, TypeOK
<1>4. UNCHANGED <<cached, recycled, in_pool>>
  BY DEF RecordCopies, cache_vars, driver_vars
<1>5. ASSUME NEW s \in Sets
      PROVE  Unique(s)' /\ (in_pool'[s] # 0 <=> Placed(s)')
  <2>1. Unique(s) /\ (in_pool[s] # 0 <=> Placed(s))
    BY DEF OncePlaced
  <2>2. Unique(s)'
    BY <1>2, <1>3, <1>4, <2>1 DEF Unique
  <2>3. Placed(s)' <=> Placed(s)
    BY <1>2, <1>3, <1>4 DEF Placed
  <2> QED
    BY <1>4, <2>1, <2>2, <2>3
<1> QED
  BY <1>5 DEF OncePlaced

\* A command buffer gives its sets back.
LEMMA ReleaseBufferPlaces ==
  ASSUME TypeOK, OncePlaced, NEW t \in Threads, ReleaseCommandBuffer(t)
  PROVE  OncePlaced'
<1>1. /\ ReleaseDescriptorSets(tracked[t]) /\ UNCHANGED <<in_pool, call>>
      /\ tracked[t] \in SUBSET Sets
      /\ \A u \in Threads : tracked'[u] = IF u = t THEN {} ELSE tracked[u]
  BY DEF ReleaseCommandBuffer, driver_vars, TypeOK
<1>2. \A s \in Sets, u \in Threads : InCall(s, u)' <=> InCall(s, u)
  BY <1>1 DEF InCall
<1>3. \A s \in tracked[t] : \A u \in Threads : ~InCall(s, u) /\ (s \in tracked[u] => u = t)
  BY <1>1 DEF OncePlaced, Unique
<1> QED
  BY <1>1, <1>2, <1>3, ReleasePlaces

\* A set that is written moves within its call.
LEMMA UpdatePlaces ==
  ASSUME TypeOK, CallsInOrder, OncePlaced, NEW t \in Threads, UpdateSet(t)
  PROVE  OncePlaced'
<1>1. PICK s \in call[t].set : UseSet(t, s)
  BY DEF UpdateSet
<1>2. s \in Sets /\ call[t].set = {s} /\ call[t].left # 0
  BY <1>1, LocalsTyped DEF UpdateSet, CallsInOrder, InOrder
<1>3. /\ \A u \in Threads \ {t} : call'[u] = call[u]
      /\ call'[t].set = {} /\ call'[t].prepared = call[t].prepared \union {s}
  BY <1>1, <1>2, UseSetSays
<1>4. \A q \in Sets, u \in Threads : InCall(q, u)' <=> InCall(q, u)
  BY <1>2, <1>3 DEF InCall
<1> QED
  BY <1>4, SetsStay DEF UpdateSet

\* No step loses a set, or puts one in two places.
LEMMA PlacesNext == IInv /\ [Next]_vars => OncePlaced'
<1> SUFFICES ASSUME IInv, [Next]_vars PROVE OncePlaced'
  OBVIOUS
<1>0. TypeOK /\ CallsInOrder /\ OncePlaced /\ pools # <<>>
  BY DEF IInv
<1> USE DEF cache_vars, driver_vars
<1>1. ASSUME NEW i \in Images, CreateImage(i) \/ DestroyImage(i) PROVE OncePlaced'
  BY <1>0, <1>1, SetsStay DEF CreateImage, DestroyImage, InCall
<1>2. ASSUME NEW t \in Threads,
             \A u \in Threads \ {t} : call'[u] = call[u],
             call'[t].set = call[t].set, call'[t].prepared = call[t].prepared,
             UNCHANGED <<cached, recycled, tracked, in_pool>>
      PROVE  OncePlaced'
  <2>1. \A s \in Sets, u \in Threads : InCall(s, u)' <=> InCall(s, u)
    BY <1>2 DEF InCall
  <2> QED
    BY <1>0, <1>2, <2>1, SetsStay
<1>3. ASSUME NEW t \in Threads, NEW dst \in Images, NEW src \in Images,
             NEW n \in 1 .. MaxRegions, Start(t, dst, src, n)
      PROVE  OncePlaced'
  <2>1. /\ \A u \in Threads \ {t} : call'[u] = call[u]
        /\ call'[t].set = {} /\ call'[t].prepared = {}
    BY <1>0, <1>3, StartSays
  <2>2. call[t].set = {} /\ call[t].prepared = {}
    BY <1>0, <1>3, NoCallTyped DEF Start, CallsInOrder, InOrder
  <2>3. UNCHANGED <<cached, recycled, tracked, in_pool>>
    BY <1>3 DEF Start
  <2> QED
    BY <1>2, <2>1, <2>2, <2>3
<1>4. ASSUME NEW t \in Threads, FindView(t) PROVE OncePlaced'
  <2>1. storage_views[ImageWanted(t)] \in Views \union {NoView}
    BY <1>0, <1>4, WantedExists DEF FindView, TypeOK
  <2>2. UNCHANGED <<cached, recycled, tracked, in_pool>>
    BY <1>4 DEF FindView
  <2>3. CASE storage_views[ImageWanted(t)] # NoView
    BY <1>0, <1>2, <1>4, <2>1, <2>2, <2>3, UseViewSays DEF FindView
  <2>4. CASE storage_views[ImageWanted(t)] = NoView
    BY <1>0, <1>2, <1>4, <2>2, <2>4 DEF FindView
  <2> QED
    BY <2>3, <2>4
<1>5. ASSUME NEW t \in Threads, CreateView(t) PROVE OncePlaced'
  <2>1. PICK v \in Views : call' = [call EXCEPT ![t].created = v]
    BY <1>5 DEF CreateView
  <2>2. UNCHANGED <<cached, recycled, tracked, in_pool>>
    BY <1>5 DEF CreateView
  <2> QED
    BY <1>0, <1>2, <2>1, <2>2, CreateViewSays
<1>6. ASSUME NEW t \in Threads, EmplaceView(t) PROVE OncePlaced'
  <2>1. PICK v \in Views : UseView(t, v)
    BY <1>6, WinnerTyped DEF EmplaceView
  <2>2. UNCHANGED <<cached, recycled, tracked, in_pool>>
    BY <1>6 DEF EmplaceView
  <2> QED
    BY <1>0, <1>2, <2>1, <2>2, UseViewSays
<1>7. ASSUME NEW t \in Threads, TakeCached(t) PROVE OncePlaced'
  <2>1. CASE cached[CopyKey(t)] = {}
    BY <1>0, <1>2, <1>7, <2>1 DEF TakeCached
  <2>2. CASE cached[CopyKey(t)] # {}
    <3>1. PICK s \in cached[CopyKey(t)] :
            cached' = [cached EXCEPT ![CopyKey(t)] = @ \ {s}] /\ UseSet(t, s)
      BY <1>7, <2>2 DEF TakeCached
    <3>2. CopyKey(t) \in Key /\ call[t].left # 0 /\ call[t].set = {}
      BY <1>0, <1>7, CopyKeyTyped DEF TakeCached, CallsInOrder, InOrder
    <3> QED
      BY <1>0, <1>7, <3>1, <3>2, TakePlaces DEF TakeCached
  <2> QED
    BY <2>1, <2>2
<1>8. ASSUME NEW t \in Threads, AllocateSet(t) PROVE OncePlaced'
  BY <1>0, <1>8, AllocatePlaces
<1>9. ASSUME NEW t \in Threads, UpdateSet(t) PROVE OncePlaced'
  BY <1>0, <1>9, UpdatePlaces
<1>10. ASSUME NEW t \in Threads, Fail(t) \/ FailAfterGrowth(t) PROVE OncePlaced'
  BY <1>0, <1>10, FailPlaces DEF Fail, FailAfterGrowth
<1>11. ASSUME NEW t \in Threads, RecordCopies(t) PROVE OncePlaced'
  BY <1>0, <1>11, RecordPlaces
<1>12. ASSUME NEW t \in Threads, ReleaseCommandBuffer(t) PROVE OncePlaced'
  BY <1>0, <1>12, ReleaseBufferPlaces
<1>13. CASE UNCHANGED vars
  BY <1>0, <1>13, SetsStay DEF vars, InCall
<1> QED
  BY <1>1, <1>3, <1>4, <1>5, <1>6, <1>7, <1>8, <1>9, <1>10, <1>11, <1>12, <1>13 DEF Next

-----------------------------------------------------------------------------
(* What the sets refer to.                                                 *)

\* The sides of a record of views.
LEMMA KeySides ==
  ASSUME NEW k \in Key, NEW side \in Sides
  PROVE  k[side] \in Views /\ k[side] # NoView /\ k[side] # Gone
  BY DescriptorSetsAssumption DEF Key, Sides

\* A set that is not recorded or cached anew, when views are destroyed or not.
LEMMA RecordedStays ==
  ASSUME TypeOK, Recorded, NEW S \in SUBSET Sets,
         \A k \in Key : cached'[k] \subseteq cached[k] \union {s \in S : record[s] = k},
         UNCHANGED record,
         \A s \in Sets, side \in Sides :
           written'[s][side] = Gone \/ written'[s][side] = written[s][side]
  PROVE  Recorded'
<1>1. \A k \in Key : cached[k] \subseteq Sets
  BY DEF TypeOK
<1> QED
  BY <1>1 DEF Recorded

\* A step that destroys no view, frees none for reuse and rewrites no set.
LEMMA RefersKept ==
  ASSUME TypeOK, NEW s \in Sets, NEW side \in Sides, NEW i \in Images, Refers(s, side, i),
         \/ written'[s][side] = Gone
         \/ /\ written'[s][side] = written[s][side]
            /\ \A v \in Views : Live(v) /\ v = written[s][side] => view_image'[v] = view_image[v]
  PROVE  Refers(s, side, i)'
<1>1. i # NoImage
  BY DescriptorSetsAssumption
<1> QED
  BY <1>1 DEF Refers, Live

\* A view in use is a view of its image.
LEMMA InUseIsLive ==
  ASSUME TypeOK, ViewsSafe, CallsInOrder, NEW t \in Threads, NEW side \in Sides,
         call[t].view[side] # NoView
  PROVE  call[t].view[side] \in Views /\ view_image[call[t].view[side]] = call[t].image[side]
<1>1. storage_views[call[t].image[side]] = call[t].view[side]
  BY DEF ViewsSafe, ViewsInUse
<1>2. call[t].image[side] \in Images
  BY LocalsTyped DEF CallsInOrder, InOrder, NoCall, NoKey, Sides, TypeOK
<1> QED
  BY <1>1, <1>2 DEF ViewsSafe, ViewsAccounted, TypeOK

\* The images of a call, and of a copy, are images.
LEMMA SidesTyped ==
  ASSUME TypeOK, CallsInOrder, NEW t \in Threads, NEW side \in Sides
  PROVE  /\ at[t] # "idle" => call[t].image[side] \in Images
         /\ \A c \in copies[t] : c[side] \in Images /\ c.set \in Sets
<1>1. at[t] # "idle" => call[t].image.dst \in Images /\ call[t].image.src \in Images
  BY DEF CallsInOrder, InOrder, TypeOK
<1>2. \A c \in copies[t] : c.dst \in Images /\ c.src \in Images /\ c.set \in Sets
  BY DEF TypeOK, Copy
<1> QED
  BY <1>1, <1>2 DEF Sides

\* Steps after which all sets refer to what they referred to, or to views that are gone,
\* and calls and recordings have no new set.
LEMMA SetsReferStay ==
  ASSUME TypeOK, CallsInOrder, SetsRefer,
         \A t \in Threads : /\ call'[t].prepared \subseteq call[t].prepared
                            /\ call'[t].prepared # {} => call'[t].image = call[t].image
                            /\ copies'[t] \subseteq copies[t]
                            /\ copies'[t] # {} => tracked[t] \subseteq tracked'[t],
         \A s \in Sets, side \in Sides :
           \/ written'[s][side] = Gone
           \/ /\ written'[s][side] = written[s][side]
              /\ \A v \in Views : Live(v) /\ v = written[s][side] => view_image'[v] = view_image[v]
  PROVE  SetsRefer'
<1>1. ASSUME NEW t \in Threads, NEW s \in call'[t].prepared, NEW side \in Sides
      PROVE  Refers(s, side, call[t].image[side])' /\ call'[t].image = call[t].image
  <2>1. s \in call[t].prepared /\ call'[t].image = call[t].image /\ s \in Sets
    BY LocalsTyped
  <2>2. at[t] # "idle"
    BY <2>1, NoCallTyped DEF CallsInOrder, InOrder
  <2>3. Refers(s, side, call[t].image[side]) /\ call[t].image[side] \in Images
    BY <2>1, <2>2, SidesTyped DEF SetsRefer
  <2> DEFINE i == call[t].image[side]
  <2>4. Refers(s, side, i)'
    <3> HIDE DEF i
    <3> QED
      BY <2>1, <2>3, RefersKept DEF i, Refers
  <2> QED
    BY <2>1, <2>4 DEF Refers
<1>2. ASSUME NEW t \in Threads, NEW c \in copies'[t]
      PROVE  c.set \in tracked'[t] /\ \A side \in Sides : Refers(c.set, side, c[side])'
  <2>1. c \in copies[t] /\ c.set \in Sets
    BY SidesTyped DEF Sides
  <2> QED
    BY <2>1, SidesTyped, RefersKept DEF SetsRefer
<1> QED
  BY <1>1, <1>2 DEF SetsRefer, Refers

\* A set that joins a call and refers to its images, while others have no part in it.
LEMMA UseSetRefers ==
  ASSUME TypeOK, CallsInOrder, SetsRefer, NEW t \in Threads, NEW s \in Sets,
         at[t] # "idle", call[t].left # 0, UseSet(t, s),
         \A side \in Sides : Refers(s, side, call[t].image[side])',
         \A q \in Sets \ {s} : written'[q] = written[q],
         \A u \in Threads : s \notin tracked[u] /\ (u # t => s \notin call[u].prepared),
         UNCHANGED <<view_image, tracked, copies>>
  PROVE  SetsRefer'
<1> DEFINE Now(q, side, i) ==
             \/ written'[q][side] = Gone
             \/ written'[q][side] \in Views /\ view_image'[written'[q][side]] = i
<1>1. /\ \A u \in Threads \ {t} : call'[u] = call[u]
      /\ call'[t].image = call[t].image /\ call'[t].prepared = call[t].prepared \union {s}
  BY UseSetSays
<1>2. \A q \in Sets \ {s}, side \in Sides, i \in Images :
         Refers(q, side, i) => Now(q, side, i)
  BY DEF Refers
<1>3. ASSUME NEW u \in Threads, NEW q \in call'[u].prepared, NEW side \in Sides
      PROVE  Now(q, side, call'[u].image[side])
  <2>1. CASE q = s
    BY <1>1, <1>3, <2>1 DEF Refers
  <2>2. CASE q # s
    <3>1. q \in call[u].prepared /\ q \in Sets /\ call'[u].image = call[u].image
      BY <1>1, <2>2, LocalsTyped
    <3>2. call[u].image[side] \in Images
      BY <3>1, SidesTyped, NoCallTyped DEF CallsInOrder, InOrder
    <3>3. Refers(q, side, call[u].image[side])
      BY <3>1 DEF SetsRefer
    <3> QED
      BY <1>2, <2>2, <3>1, <3>2, <3>3
  <2> QED
    BY <2>1, <2>2
<1>4. ASSUME NEW u \in Threads, NEW c \in copies[u], NEW side \in Sides
      PROVE  Now(c.set, side, c[side])
  <2>1. Refers(c.set, side, c[side]) /\ c.set \in Sets /\ c[side] \in Images /\ c.set # s
    BY SidesTyped DEF SetsRefer
  <2> QED
    BY <1>2, <2>1
<1>5. \A u \in Threads : \A c \in copies'[u] : c.set \in tracked'[u]
  BY DEF SetsRefer
<1> QED
  BY <1>3, <1>4, <1>5 DEF SetsRefer, Refers

\* A set from the cache refers to the views asked for, or to views that are gone.
LEMMA TakeRefers ==
  ASSUME IInv, NEW t \in Threads, TakeCached(t), cached[CopyKey(t)] # {}
  PROVE  Recorded' /\ SetsRefer'
<1> DEFINE k == CopyKey(t)
<1>0. TypeOK /\ CallsInOrder /\ ViewsSafe /\ OncePlaced /\ Recorded /\ SetsRefer
  BY DEF IInv, ViewsSafe
<1>1. /\ k \in Key /\ at[t] = "take" /\ call[t].left # 0
      /\ \A side \in Sides : k[side] = call[t].view[side]
  BY <1>0, CopyKeyTyped DEF TakeCached, CallsInOrder, InOrder
<1>2. PICK s \in cached[k] : /\ cached' = [cached EXCEPT ![k] = @ \ {s}]
                             /\ record' = [record EXCEPT ![s] = k] /\ UseSet(t, s)
  BY DEF TakeCached
<1>3. UNCHANGED <<written, view_image, tracked, copies>>
  BY DEF TakeCached, driver_vars
<1> HIDE DEF k
<1>4. s \in Sets /\ record[s] = k
  BY <1>0, <1>1 DEF TypeOK, Recorded
<1>5. \A side \in Sides : written[s][side] \in {Gone, k[side]}
  <2>1. k # NoKey
    BY <1>1, DescriptorSetsAssumption DEF Key, NoKey
  <2> QED
    BY <1>0, <1>4, <2>1 DEF Recorded
<1>6. ASSUME NEW side \in Sides PROVE Refers(s, side, call[t].image[side])'
  <2>1. UseSet(t, s) => call'[t].image = call[t].image
    BY <1>0, <1>1, <1>4, UseSetSays
  <2>2. k[side] \in Views /\ k[side] # NoView
    BY <1>1, KeySides
  <2>3. view_image[k[side]] = call[t].image[side]
    BY <1>0, <1>1, <2>2, InUseIsLive
  <2> QED
    BY <1>2, <1>3, <1>5, <2>1, <2>2, <2>3 DEF Refers
<1>7. \A u \in Threads : s \notin tracked[u] /\ s \notin call[u].prepared
  BY <1>0, <1>1, <1>4 DEF OncePlaced, Unique, InCall
<1>8. SetsRefer'
  BY <1>0, <1>1, <1>2, <1>3, <1>4, <1>6, <1>7, UseSetRefers
<1>9. record' = record /\ \A l \in Key : cached'[l] \subseteq cached[l]
  BY <1>0, <1>1, <1>2, <1>4 DEF TypeOK
<1> QED
  BY <1>0, <1>3, <1>8, <1>9 DEF Recorded

\* A set that is written refers to the views it is recorded under.
LEMMA UpdateRefers ==
  ASSUME IInv, NEW t \in Threads, UpdateSet(t)
  PROVE  Recorded' /\ SetsRefer'
<1> DEFINE k == CopyKey(t)
<1>0. TypeOK /\ CallsInOrder /\ ViewsSafe /\ OncePlaced /\ Recorded /\ SetsRefer
  BY DEF IInv, ViewsSafe
<1>1. /\ k \in Key /\ at[t] = "update" /\ call[t].left # 0 /\ call[t].view = k
      /\ \A side \in Sides : k[side] = call[t].view[side]
  BY <1>0, CopyKeyTyped DEF UpdateSet, CallsInOrder, InOrder
<1>2. PICK s \in call[t].set : /\ written' = [written EXCEPT ![s] = k]
                               /\ record' = [record EXCEPT ![s] = k] /\ UseSet(t, s)
  BY <1>1 DEF UpdateSet
<1>3. UNCHANGED <<view_image, tracked, copies, cached>>
  BY DEF UpdateSet
<1> HIDE DEF k
<1>4. s \in Sets /\ InCall(s, t)
  BY <1>0, LocalsTyped DEF InCall
<1>5. /\ written'[s] = k /\ record'[s] = k
      /\ \A q \in Sets \ {s} : written'[q] = written[q] /\ record'[q] = record[q]
  BY <1>0, <1>2, <1>4 DEF TypeOK
<1>6. ASSUME NEW side \in Sides PROVE Refers(s, side, call[t].image[side])'
  <2>1. UseSet(t, s) => call'[t].image = call[t].image
    BY <1>0, <1>1, <1>4, UseSetSays
  <2>2. k[side] \in Views /\ k[side] # NoView
    BY <1>1, KeySides
  <2>3. view_image[k[side]] = call[t].image[side]
    BY <1>0, <1>1, <2>2, InUseIsLive
  <2> QED
    BY <1>2, <1>3, <1>5, <2>1, <2>2, <2>3 DEF Refers
<1>7. /\ \A u \in Threads : s \notin tracked[u] /\ (u # t => s \notin call[u].prepared)
      /\ \A l \in Key : s \notin cached[l]
  BY <1>0, <1>4 DEF OncePlaced, Unique, InCall
<1>8. SetsRefer'
  BY <1>0, <1>1, <1>2, <1>3, <1>4, <1>5, <1>6, <1>7, UseSetRefers
<1>9. \A l \in Key : cached[l] \subseteq Sets
  BY <1>0 DEF TypeOK
<1> QED
  BY <1>0, <1>3, <1>5, <1>7, <1>8, <1>9 DEF Recorded

\* A recorded copy has the sets of its call, and their images.
LEMMA RecordRefers ==
  ASSUME TypeOK, CallsInOrder, SetsRefer, NEW t \in Threads, RecordCopies(t)
  PROVE  SetsRefer'
<1> DEFINE S == call[t].prepared
           dst == call[t].image.dst
           src == call[t].image.src
           Now(s, side, i) ==
             \/ written'[s][side] = Gone
             \/ written'[s][side] \in Views /\ view_image'[written'[s][side]] = i
<1>1. /\ \A u \in Threads \ {t} : call'[u] = call[u]
      /\ call'[t].prepared = {}
  BY ReturnSays, NoCallTyped DEF RecordCopies
<1>2. /\ tracked'[t] = tracked[t] \union S
      /\ copies'[t] = copies[t] \union {[set |-> s, dst |-> dst, src |-> src] : s \in S}
      /\ \A u \in Threads \ {t} : tracked'[u] = tracked[u] /\ copies'[u] = copies[u]
      /\ UNCHANGED <<written, view_image>>
  BY DEF RecordCopies, TypeOK, driver_vars
<1>3. \A s \in S, side \in Sides : Refers(s, side, call[t].image[side])
  BY DEF SetsRefer
<1> HIDE DEF S
<1>4. \A s, side, i : Refers(s, side, i) => Now(s, side, i)
  BY <1>2 DEF Refers
<1>5. ASSUME NEW u \in Threads, NEW c \in copies'[u]
      PROVE  c.set \in tracked'[u] /\ \A side \in Sides : Refers(c.set, side, c[side])
  <2>1. CASE c \in copies[u]
    BY <1>2, <2>1 DEF SetsRefer
  <2>2. CASE c \notin copies[u]
    <3>1. u = t
      BY <1>2, <2>2
    <3>2. PICK s \in S : c = [set |-> s, dst |-> dst, src |-> src]
      BY <1>2, <1>5, <2>2, <3>1
    <3> QED
      BY <1>2, <1>3, <3>1, <3>2 DEF Sides
  <2> QED
    BY <2>1, <2>2
<1>6. ASSUME NEW u \in Threads, NEW s \in call'[u].prepared, NEW side \in Sides
      PROVE  Refers(s, side, call'[u].image[side])
  BY <1>1, <1>6 DEF SetsRefer
<1>7. \A u \in Threads : \A s \in call'[u].prepared : \A side \in Sides :
         Now(s, side, call'[u].image[side])
  BY <1>4, <1>6
<1>8. \A u \in Threads : \A c \in copies'[u] :
         c.set \in tracked'[u] /\ \A side \in Sides : Now(c.set, side, c[side])
  BY <1>4, <1>5
<1> QED
  BY <1>7, <1>8 DEF SetsRefer, Refers

\* No step files a set under another record, or turns a set in use to another image.
LEMMA RefersNext == IInv /\ [Next]_vars => Recorded' /\ SetsRefer'
<1> SUFFICES ASSUME IInv, [Next]_vars PROVE Recorded' /\ SetsRefer'
  OBVIOUS
<1>0. TypeOK /\ CallsInOrder /\ ViewsSafe /\ OncePlaced /\ Recorded /\ SetsRefer /\ pools # <<>>
  BY DEF IInv, ViewsSafe
<1> USE DEF cache_vars, driver_vars
<1>1. ASSUME NEW t \in Threads,
             \A u \in Threads \ {t} : call'[u] = call[u],
             \/ call'[t].prepared = {}
             \/ call'[t].prepared = call[t].prepared /\ call'[t].image = call[t].image,
             UNCHANGED <<written, view_image, cached, record, tracked, copies>>
      PROVE  Recorded' /\ SetsRefer'
  <2>1. SetsRefer'
    BY <1>0, <1>1, SetsReferStay
  <2> QED
    BY <1>0, <1>1, <2>1 DEF Recorded
<1>2. ASSUME NEW i \in Images, CreateImage(i) PROVE Recorded' /\ SetsRefer'
  <2>1. UNCHANGED <<written, view_image, cached, record, tracked, copies, call>>
    BY <1>2 DEF CreateImage
  <2>2. SetsRefer'
    BY <1>0, <2>1, SetsReferStay
  <2> QED
    BY <1>0, <2>1, <2>2 DEF Recorded
<1>3. ASSUME NEW i \in Images, DestroyImage(i) PROVE Recorded' /\ SetsRefer'
  <2> DEFINE V == {storage_views[i]}
  <2>1. /\ DestroyViews(V) /\ UNCHANGED <<cached, record, tracked, call>>
        /\ \A t \in Threads : copies'[t] \subseteq copies[t]
    BY <1>3 DEF DestroyImage
  <2> HIDE DEF V
  <2>2. \A s \in Sets, side \in Sides :
          \/ written'[s][side] = Gone
          \/ written'[s][side] = written[s][side] /\ written[s][side] \notin V
    BY <1>0, <2>1, DestroyViewsSays
  <2>3. \A v \in Views \ V : view_image'[v] = view_image[v]
    BY <1>0, <2>1, DestroyViewsSays
  <2>4. SetsRefer'
    BY <1>0, <2>1, <2>2, <2>3, SetsReferStay
  <2>5. Recorded'
    BY <1>0, <2>1, <2>2 DEF Recorded
  <2> QED
    BY <2>4, <2>5
<1>4. ASSUME NEW t \in Threads, NEW dst \in Images, NEW src \in Images,
             NEW n \in 1 .. MaxRegions, Start(t, dst, src, n)
      PROVE  Recorded' /\ SetsRefer'
  <2>1. UNCHANGED <<written, view_image, cached, record, tracked, copies>>
    BY <1>4 DEF Start
  <2> QED
    BY <1>0, <1>1, <1>4, <2>1, StartSays
<1>5. ASSUME NEW t \in Threads, FindView(t) PROVE Recorded' /\ SetsRefer'
  <2>1. storage_views[ImageWanted(t)] \in Views \union {NoView}
    BY <1>0, <1>5, WantedExists DEF FindView, TypeOK
  <2>2. UNCHANGED <<written, view_image, cached, record, tracked, copies>>
    BY <1>5 DEF FindView
  <2>3. CASE storage_views[ImageWanted(t)] # NoView
    BY <1>0, <1>1, <1>5, <2>1, <2>2, <2>3, UseViewSays DEF FindView
  <2>4. CASE storage_views[ImageWanted(t)] = NoView
    BY <1>0, <1>1, <1>5, <2>2, <2>4 DEF FindView
  <2> QED
    BY <2>3, <2>4
<1>6. ASSUME NEW t \in Threads, CreateView(t) PROVE Recorded' /\ SetsRefer'
  <2>1. PICK v \in Views : /\ ~Live(v) /\ view_image' = [view_image EXCEPT ![v] = ImageWanted(t)]
                           /\ call' = [call EXCEPT ![t].created = v]
    BY <1>6 DEF CreateView
  <2>2. UNCHANGED <<written, cached, record, tracked, copies>>
    BY <1>6 DEF CreateView
  <2>3. \A w \in Views : Live(w) => view_image'[w] = view_image[w]
    BY <1>0, <2>1 DEF TypeOK
  <2>4. /\ \A u \in Threads \ {t} : call'[u] = call[u]
        /\ call'[t].prepared = call[t].prepared /\ call'[t].image = call[t].image
    BY <1>0, <2>1, CreateViewSays
  <2>5. SetsRefer'
    BY <1>0, <2>2, <2>3, <2>4, SetsReferStay
  <2> QED
    BY <1>0, <2>2, <2>5 DEF Recorded
<1>7. ASSUME NEW t \in Threads, EmplaceView(t) PROVE Recorded' /\ SetsRefer'
  <2>1. PICK v \in Views : UseView(t, v) /\ DestroyViews({call[t].created} \ {v})
    BY <1>7, WinnerTyped DEF EmplaceView
  <2>2. UNCHANGED <<cached, record, tracked, copies>>
    BY <1>7 DEF EmplaceView
  <2> DEFINE V == {call[t].created} \ {v}
  <2>3. DestroyViews(V)
    BY <2>1
  <2> HIDE DEF V
  <2>4. \A s \in Sets, side \in Sides :
          \/ written'[s][side] = Gone
          \/ written'[s][side] = written[s][side] /\ written[s][side] \notin V
    BY <1>0, <2>3, DestroyViewsSays
  <2>5. \A w \in Views \ V : view_image'[w] = view_image[w]
    BY <1>0, <2>3, DestroyViewsSays
  <2>6. /\ \A u \in Threads \ {t} : call'[u] = call[u]
        /\ call'[t].prepared = call[t].prepared /\ call'[t].image = call[t].image
    BY <1>0, <2>1, UseViewSays
  <2>7. SetsRefer'
    BY <1>0, <2>2, <2>4, <2>5, <2>6, SetsReferStay
  <2>8. Recorded'
    BY <1>0, <2>2, <2>4 DEF Recorded
  <2> QED
    BY <2>7, <2>8
<1>8. ASSUME NEW t \in Threads, TakeCached(t) PROVE Recorded' /\ SetsRefer'
  <2>1. CASE cached[CopyKey(t)] = {}
    BY <1>0, <1>1, <1>8, <2>1 DEF TakeCached
  <2> QED
    BY <1>8, <2>1, TakeRefers
<1>9. ASSUME NEW t \in Threads, AllocateSet(t) PROVE Recorded' /\ SetsRefer'
  <2>1. PICK s \in Sets : call' = [call EXCEPT ![t].set = {s}]
    BY <1>0, <1>9, AllocateSetTakes
  <2>2. UNCHANGED <<written, view_image, cached, record, tracked, copies>>
    BY <1>9 DEF AllocateSet
  <2> QED
    BY <1>0, <1>1, <2>1, <2>2, AllocateSetSays
<1>10. ASSUME NEW t \in Threads, UpdateSet(t) PROVE Recorded' /\ SetsRefer'
  BY <1>10, UpdateRefers
<1>11. ASSUME NEW S \in SUBSET Sets, ReleaseDescriptorSets(S), UNCHANGED <<record, written>>
       PROVE  Recorded'
  BY <1>0, <1>11, RecordedStays DEF ReleaseDescriptorSets
<1>12. ASSUME NEW t \in Threads, Fail(t) \/ FailAfterGrowth(t) PROVE Recorded' /\ SetsRefer'
  <2>1. /\ ReleaseDescriptorSets(call[t].prepared) /\ Return(t)
        /\ UNCHANGED <<written, view_image, record, tracked, copies>>
    BY <1>12 DEF Fail, FailAfterGrowth
  <2>2. /\ \A u \in Threads \ {t} : call'[u] = call[u]
        /\ call'[t].prepared = {}
    BY <1>0, <2>1, ReturnSays, NoCallTyped
  <2>3. SetsRefer'
    BY <1>0, <2>1, <2>2, SetsReferStay
  <2> QED
    BY <1>0, <1>11, <2>1, <2>3, LocalsTyped
<1>13. ASSUME NEW t \in Threads, RecordCopies(t) PROVE Recorded' /\ SetsRefer'
  <2>1. UNCHANGED <<written, record, cached>>
    BY <1>13 DEF RecordCopies
  <2> QED
    BY <1>0, <1>13, <2>1, RecordRefers DEF Recorded
<1>14. ASSUME NEW t \in Threads, ReleaseCommandBuffer(t) PROVE Recorded' /\ SetsRefer'
  <2>1. /\ ReleaseDescriptorSets(tracked[t])
        /\ UNCHANGED <<written, view_image, record, call>>
        /\ tracked[t] \in SUBSET Sets
        /\ \A u \in Threads : /\ tracked'[u] = IF u = t THEN {} ELSE tracked[u]
                              /\ copies'[u] = IF u = t THEN {} ELSE copies[u]
    BY <1>0, <1>14 DEF ReleaseCommandBuffer, TypeOK
  <2>2. SetsRefer'
    BY <1>0, <2>1, SetsReferStay
  <2> QED
    BY <1>11, <2>1, <2>2
<1>15. CASE UNCHANGED vars
  <2>1. UNCHANGED <<written, view_image, cached, record, tracked, copies, call>>
    BY <1>15 DEF vars
  <2>2. SetsRefer'
    BY <1>0, <2>1, SetsReferStay
  <2> QED
    BY <1>0, <2>1, <2>2 DEF Recorded
<1> QED
  BY <1>2, <1>3, <1>4, <1>5, <1>6, <1>7, <1>8, <1>9, <1>10, <1>12, <1>13, <1>14, <1>15 DEF Next

-----------------------------------------------------------------------------
(* The theorems.                                                           *)

\* Nothing is made or held at first.
LEMMA InitIInv == Init => IInv
<1> SUFFICES ASSUME Init PROVE IInv
  OBVIOUS
<1> USE DescriptorSetsAssumption
<1>1. TypeOK /\ pools # <<>>
  <2>1. pools \in Seq(Nat \ {0}) /\ pools # <<>> /\ Len(pools) = 1
    BY DEF Init
  <2>2. call \in [Threads -> Locals] /\ at \in [Threads -> Steps]
    BY NoCallTyped DEF Init, Steps
  <2>3. written \in [Sets -> [dst : Views \union {NoView, Gone}, src : Views \union {NoView, Gone}]]
    BY DEF Init, NoKey
  <2>4. in_pool \in [Sets -> 0 .. Len(pools)]
    BY <2>1 DEF Init
  <2> QED
    BY <2>1, <2>2, <2>3, <2>4 DEF Init, TypeOK
<1>2. \A t \in Threads : at[t] = "idle" /\ call[t] = NoCall
  BY DEF Init
<1>3. CallsInOrder
  BY <1>2, NoCallTyped DEF CallsInOrder, InOrder
<1>4. ViewsAccounted
  BY DEF Init, ViewsAccounted, Live
<1>5. CreatedApart
  BY <1>2, NoCallTyped DEF CreatedApart
<1>6. ViewsInUse
  BY <1>2, NoCallTyped DEF ViewsInUse, Sides
<1>7. OncePlaced
  <2>1. \A s \in Sets, t \in Threads : ~InCall(s, t)
    BY <1>2, NoCallTyped DEF InCall
  <2>2. \A s \in Sets : in_pool[s] = 0 /\ s \notin recycled /\ \A k \in Key : s \notin cached[k]
    BY DEF Init
  <2>3. \A s \in Sets, t \in Threads : s \notin tracked[t]
    BY DEF Init
  <2> QED
    BY <2>1, <2>2, <2>3 DEF OncePlaced, Unique, Placed
<1>8. Recorded
  BY DEF Init, Recorded
<1>9. SetsRefer
  BY <1>2, NoCallTyped DEF SetsRefer, Init
<1> QED
  BY <1>1, <1>3, <1>4, <1>5, <1>6, <1>7, <1>8, <1>9 DEF IInv

\* Every step keeps the invariant.
LEMMA NextIInv == IInv /\ [Next]_vars => IInv'
  BY TypeNext, CallsNext, ViewsNext, PlacesNext, RefersNext DEF IInv, ViewsSafe

\* The inductive invariant holds in every state.
LEMMA SpecIInv == Spec => []IInv
  BY InitIInv, NextIInv, PTL DEF Spec

\* What a call holds is the map's entry for an image that exists, hence a live view of it.
LEMMA InUseStep == IInv => ViewsInUseLive
<1> SUFFICES ASSUME IInv, NEW t \in Threads, NEW side \in Sides,
                    call[t].view[side] # NoView
             PROVE  view_image[call[t].view[side]] = call[t].image[side]
  BY DEF ViewsInUseLive, Sides
<1> QED
  BY InUseIsLive DEF IInv, ViewsSafe

\* Being in one place is having one place.
LEMMA OnePlaceStep == IInv => SetsInOnePlace
<1> SUFFICES ASSUME IInv, NEW s \in Sets
             PROVE  Cardinality(PlacesOf(s)) = (IF in_pool[s] = 0 THEN 0 ELSE 1)
  BY DEF SetsInOnePlace
<1>1. Unique(s) /\ (in_pool[s] # 0 <=> Placed(s))
  BY DEF IInv, OncePlaced
<1>2. CASE in_pool[s] = 0
  <2>1. PlacesOf(s) = {}
    BY <1>1, <1>2 DEF Placed, PlacesOf, InCall
  <2> QED
    BY <1>2, <2>1, FS_EmptySet
<1>3. CASE in_pool[s] # 0
  <2>1. ASSUME s \in recycled PROVE PlacesOf(s) = {<<"recycled">>}
    BY <1>1, <2>1 DEF Unique, PlacesOf, InCall
  <2>2. ASSUME NEW k \in Key, s \in cached[k] PROVE PlacesOf(s) = {<<"cached", k>>}
    BY <1>1, <2>2 DEF Unique, PlacesOf, InCall
  <2>3. ASSUME NEW t \in Threads, InCall(s, t) PROVE PlacesOf(s) = {<<"call", t>>}
    BY <1>1, <2>3 DEF Unique, PlacesOf, InCall
  <2>4. ASSUME NEW t \in Threads, s \in tracked[t] PROVE PlacesOf(s) = {<<"tracked", t>>}
    BY <1>1, <2>4 DEF Unique, PlacesOf, InCall
  <2>5. \E x : PlacesOf(s) = {x}
    BY <1>1, <1>3, <2>1, <2>2, <2>3, <2>4 DEF Placed
  <2> QED
    BY <1>3, <2>5, FS_Singleton
<1> QED
  BY <1>2, <1>3

\* A copy's set refers to the copy's images or to nothing.
LEMMA NoOtherStep == IInv => NoOtherImage
  BY DEF IInv, SetsRefer, Refers, NoOtherImage, Sides

\* For any number of threads, images and sets: the layer's state keeps its types, through
\* copies that fail halfway and handles that the driver reuses.
THEOREM TypeAlways == Spec => []TypeOK
<1>1. IInv => TypeOK
  BY DEF IInv
<1> QED
  BY <1>1, SpecIInv, PTL

\* get_or_create_storage_view and cleanup_destroyed_image_tracking keep account of every
\* view: none is leaked, none outlives its image, none is an entry of another image.
THEOREM ViewsAlwaysAccounted == Spec => []ViewsAccounted
<1>1. IInv => ViewsAccounted
  BY DEF IInv
<1> QED
  BY <1>1, SpecIInv, PTL

\* Whichever of any number of threads wins the race to make an image's view, the views that
\* a copy is about to bind are live and belong to the images of the copy.
THEOREM ViewsInUseAlwaysLive == Spec => []ViewsInUseLive
  BY InUseStep, SpecIInv, PTL

\* A descriptor set that was ever allocated is in one place: none is lost by a copy that
\* fails, none is taken from the cache by two.
THEOREM SetsAlwaysInOnePlace == Spec => []SetsInOnePlace
  BY OnePlaceStep, SpecIInv, PTL

\* A recorded copy never reads or writes an image it is not about, although sets stay cached
\* under views that were destroyed and whose handles came back for other images.
THEOREM NeverAnotherImage == Spec => []NoOtherImage
  BY NoOtherStep, SpecIInv, PTL
=============================================================================
