------------------------ MODULE CommandBuffers_proofs ------------------------
(***************************************************************************)
(* Proofs about CommandBuffers, for any threads, pools, command buffers    *)
(* and resources, and for any keys: also for those under a loader, where   *)
(* all command buffers of a device share one (finding 1).                  *)
(* The argument: a handler has its pool to itself, so that between its     *)
(* steps nobody else gives its command buffers to another pool, and an     *)
(* entry of the ownership maps has a command buffer with its key that is   *)
(* not on its way to the driver; a resource is moved from one place to     *)
(* one other, whoever's key it was filed under.                            *)
(***************************************************************************)
EXTENDS CommandBuffers, FiniteSetTheorems, TLAPS

-----------------------------------------------------------------------------
(* The invariant.                                                          *)

\* Steps at which the local vectors of a handler are empty.
EmptyHanded == {"idle", "track", "take", "driver_free", "driver_destroy"}

\* A handler works on a live pool, on command buffers of it, and alone.
Exclusive ==
  /\ \A t \in Threads : at[t] = "idle" => in_pool[t] = NoPool /\ target[t] = {}
  /\ \A t \in Threads : at[t] # "idle" =>
       in_pool[t] # NoPool /\ \A c \in target[t] : pool[c] = in_pool[t]
  /\ \A t, u \in Threads : in_pool[t] = in_pool[u] /\ in_pool[t] # NoPool => t = u
  /\ \A t \in Threads : at[t] \in {"release_destroy", "driver_destroy"} =>
       InPool(in_pool[t]) \subseteq target[t]
  /\ \A t \in Threads : at[t] \in EmptyHanded => hands[t] = {}
  /\ \A t \in Threads : at[t] = "record" => \E c \in CommandBuffers : target[t] = {c}

\* A command buffer in such a step of a handler is about to be filed, or to go.
Forgotten == {"track", "release_free", "release_destroy", "driver_free", "driver_destroy"}

Going(c) == \E t \in Threads : c \in target[t] /\ at[t] \in Forgotten

\* An entry of the ownership maps has a command buffer that stays in its pool.
OwnersFiled ==
  \A k \in Keys : owner[k] # NoPool =>
    \E c \in CommandBuffers : KeyOf[c] = k /\ pool[c] = owner[k] /\ ~Going(c)

\* A resource is in one place ...
Unique(r) ==
  /\ \A k, l \in Keys : r \in tracked[k] /\ r \in tracked[l] => k = l
  /\ \A k \in Keys : r \in tracked[k] =>
       r \notin free /\ r \notin abandoned /\ \A t \in Threads : r \notin hands[t]
  /\ \A t, u \in Threads : r \in hands[t] /\ r \in hands[u] => t = u
  /\ \A t \in Threads : r \in hands[t] => r \notin free /\ r \notin abandoned
  /\ r \in free => r \notin abandoned

\* ... and in one it is.
Placed(r) ==
  \/ r \in free \/ r \in abandoned
  \/ \E k \in Keys : r \in tracked[k]
  \/ \E t \in Threads : r \in hands[t]

OncePlaced == \A r \in Resources : Unique(r) /\ Placed(r)

IInv == TypeOK /\ Exclusive /\ OwnersFiled /\ OncePlaced

-----------------------------------------------------------------------------
(* Handlers and their command buffers.                                     *)

\* A command buffer is in one handler.
LEMMA OneHandler ==
  ASSUME TypeOK, Exclusive, NEW t \in Threads, NEW u \in Threads, NEW c \in CommandBuffers,
         c \in target[t], c \in target[u]
  PROVE  t = u
  BY DEF Exclusive

-----------------------------------------------------------------------------
(* Every step keeps every part of the invariant.                           *)

\* Taking keeps the types.
LEMMA TakeTyped ==
  ASSUME TypeOK, NEW t \in Threads, NEW K \in SUBSET Keys, Take(t, K)
  PROVE  hands' \in [Threads -> SUBSET Resources] /\ tracked' \in [Keys -> SUBSET Resources]
<1>1. UNION {tracked[k] : k \in K} \subseteq Resources
  BY DEF TypeOK
<1> QED
  BY <1>1 DEF TypeOK, Take

\* Sets of command buffers have sets of keys.
LEMMA KeysTyped ==
  CommandBuffersAssumption => \A S \in SUBSET CommandBuffers : KeysOf(S) \in SUBSET Keys
  BY DEF CommandBuffersAssumption, KeysOf

\* Types: what a handler takes are resources, and a pool that goes leaves no owner behind.
LEMMA TypeNext == IInv /\ [Next]_vars => TypeOK'
<1> SUFFICES ASSUME IInv, [Next]_vars PROVE TypeOK'
  OBVIOUS
<1> USE DEF IInv, TypeOK, driver_vars
<1>1. ASSUME NEW p \in Pools, CreateCommandPool(p) PROVE TypeOK'
  BY <1>1 DEF CreateCommandPool, Steps, States
<1>2. ASSUME NEW c \in CommandBuffers, Advance(c) PROVE TypeOK'
  BY <1>2 DEF Advance, Steps, States
<1>3. ASSUME NEW t \in Threads, NEW p \in Pools, DestroyCommandPool(t, p) PROVE TypeOK'
  <2>1. hands' \in [Threads -> SUBSET Resources] /\ tracked' \in [Keys -> SUBSET Resources]
    BY <1>3, TakeTyped, KeysTyped, CommandBuffersAssumption DEF DestroyCommandPool
  <2> QED
    BY <1>3, <2>1 DEF DestroyCommandPool, Enters, Erase, Goto, Steps, InPool
<1>4. ASSUME NEW t \in Threads, NEW p \in Pools, ResetCommandPool(t, p) PROVE TypeOK'
  <2>1. hands' \in [Threads -> SUBSET Resources] /\ tracked' \in [Keys -> SUBSET Resources]
    BY <1>4, TakeTyped, KeysTyped, CommandBuffersAssumption DEF ResetCommandPool
  <2> QED
    BY <1>4, <2>1 DEF ResetCommandPool, Enters, Goto, Steps, InPool
<1>5. ASSUME NEW t \in Threads, NEW p \in Pools, NEW S \in SUBSET CommandBuffers,
            AllocateCommandBuffers(t, p, S)
     PROVE  TypeOK'
  BY <1>5 DEF AllocateCommandBuffers, Enters, Goto, Steps, States
<1>6. ASSUME NEW t \in Threads, NEW p \in Pools, NEW S \in SUBSET CommandBuffers,
            FreeCommandBuffers(t, p, S)
     PROVE  TypeOK'
  <2>1. hands' \in [Threads -> SUBSET Resources] /\ tracked' \in [Keys -> SUBSET Resources]
    BY <1>6, TakeTyped, KeysTyped, CommandBuffersAssumption DEF FreeCommandBuffers
  <2> QED
    BY <1>6, <2>1 DEF FreeCommandBuffers, Enters, Erase, Goto, Steps
<1>7. ASSUME NEW t \in Threads, NEW c \in CommandBuffers, AcquireResource(t, c) PROVE TypeOK'
  BY <1>7 DEF AcquireResource, Enters, Goto, Steps, States
<1>8. ASSUME NEW t \in Threads, NEW c \in CommandBuffers, NEW s \in {"initial", "recording"},
            BeginOrReset(t, c, s)
     PROVE  TypeOK'
  BY <1>8 DEF BeginOrReset, Enters, Discard, Goto, Steps, States
<1>9. ASSUME NEW t \in Threads, TrackAllocated(t) PROVE TypeOK'
  BY <1>9 DEF TrackAllocated, Return, Goto, Steps, States
<1>10. ASSUME NEW t \in Threads, ReleaseBeforeDriver(t) PROVE TypeOK'
  BY <1>10 DEF ReleaseBeforeDriver, Release, Proceed, Steps, States
<1>11. ASSUME NEW t \in Threads, DriverFree(t) PROVE TypeOK'
  <2>1. at[t] \in Forgotten /\ at[t] # "idle" /\ in_pool[t] # NoPool
    BY <1>11 DEF DriverFree, Forgotten, Exclusive
  <2>2. ASSUME at[t] = "driver_destroy"
        PROVE  /\ \A c \in CommandBuffers \ target[t] : pool[c] # in_pool[t]
               /\ \A k \in Keys : owner[k] # in_pool[t]
               /\ \A u \in Threads \ {t} : in_pool[u] # in_pool[t]
    <3>1. \A c \in CommandBuffers : pool[c] = in_pool[t] => c \in target[t]
      BY <2>2 DEF Exclusive, InPool
    <3>2. \A k \in Keys : owner[k] # in_pool[t]
      BY <2>1, <3>1 DEF OwnersFiled, Going
    <3> QED
      BY <2>1, <3>1, <3>2 DEF Exclusive
  <2>3. CASE at[t] = "driver_destroy"
    BY <1>11, <2>2, <2>3 DEF DriverFree, Return, Goto, Steps, States
  <2>4. CASE at[t] = "driver_free"
    BY <1>11, <2>4 DEF DriverFree, Return, Goto, Steps, States
  <2> QED
    BY <1>11, <2>3, <2>4 DEF DriverFree
<1>12. ASSUME NEW t \in Threads, TakeForRelease(t) PROVE TypeOK'
  <2>1. hands' \in [Threads -> SUBSET Resources] /\ tracked' \in [Keys -> SUBSET Resources]
    BY <1>12, TakeTyped, KeysTyped, CommandBuffersAssumption DEF TakeForRelease
  <2> QED
    BY <1>12, <2>1 DEF TakeForRelease, Proceed, Steps
<1>13. ASSUME NEW t \in Threads, ReleaseAndReturn(t) PROVE TypeOK'
  BY <1>13 DEF ReleaseAndReturn, Release, Return, Goto, Steps, States
<1>14. ASSUME NEW t \in Threads, DriverResetPool(t) PROVE TypeOK'
  BY <1>14 DEF DriverResetPool, Discard, Proceed, Steps, States
<1>15. ASSUME NEW t \in Threads, DriverResetPoolFails(t) PROVE TypeOK'
  BY <1>15 DEF DriverResetPoolFails, Return, Goto, Steps, States
<1>16. ASSUME NEW t \in Threads, RecordAndTrack(t) PROVE TypeOK'
  BY <1>16 DEF RecordAndTrack, Return, Goto, Steps, States
<1>17. ASSUME NEW t \in Threads, RecordFails(t) PROVE TypeOK'
  BY <1>17 DEF RecordFails, Release, Return, Goto, Steps, States
<1>18. CASE UNCHANGED vars
  BY <1>18 DEF vars, Steps, States
<1> HIDE DEF IInv, TypeOK, driver_vars
<1> QED
  BY <1>1, <1>2, <1>3, <1>4, <1>5, <1>6, <1>7, <1>8, <1>9, <1>10, <1>11, <1>12,
     <1>13, <1>14, <1>15, <1>16, <1>17, <1>18 DEF Next

\* A handler enters a pool only when no other is in it.
LEMMA ExclusiveNext == IInv /\ [Next]_vars => Exclusive'
<1> SUFFICES ASSUME IInv, [Next]_vars PROVE Exclusive'
  OBVIOUS
<1> USE DEF IInv, TypeOK, Exclusive, EmptyHanded, driver_vars
<1>1. ASSUME NEW p \in Pools, CreateCommandPool(p) PROVE Exclusive'
  BY <1>1 DEF CreateCommandPool, InPool
<1>2. ASSUME NEW c \in CommandBuffers, Advance(c) PROVE Exclusive'
  BY <1>2 DEF Advance, InPool
<1>3. ASSUME NEW t \in Threads, NEW p \in Pools, DestroyCommandPool(t, p) PROVE Exclusive'
  BY <1>3 DEF DestroyCommandPool, Enters, Take, Erase, Goto, InPool
<1>4. ASSUME NEW t \in Threads, NEW p \in Pools, ResetCommandPool(t, p) PROVE Exclusive'
  BY <1>4 DEF ResetCommandPool, Enters, Take, Goto, InPool
<1>5. ASSUME NEW t \in Threads, NEW p \in Pools, NEW S \in SUBSET CommandBuffers,
            AllocateCommandBuffers(t, p, S)
     PROVE  Exclusive'
  BY <1>5 DEF AllocateCommandBuffers, Enters, Goto, InPool
<1>6. ASSUME NEW t \in Threads, NEW p \in Pools, NEW S \in SUBSET CommandBuffers,
            FreeCommandBuffers(t, p, S)
     PROVE  Exclusive'
  BY <1>6 DEF FreeCommandBuffers, Enters, Take, Erase, Goto, InPool
<1>7. ASSUME NEW t \in Threads, NEW c \in CommandBuffers, AcquireResource(t, c) PROVE Exclusive'
  BY <1>7 DEF AcquireResource, Enters, Goto, InPool
<1>8. ASSUME NEW t \in Threads, NEW c \in CommandBuffers, NEW s \in {"initial", "recording"},
            BeginOrReset(t, c, s)
     PROVE  Exclusive'
  BY <1>8 DEF BeginOrReset, Enters, Discard, Goto, InPool
<1>9. ASSUME NEW t \in Threads, TrackAllocated(t) PROVE Exclusive'
  BY <1>9 DEF TrackAllocated, Return, Goto, InPool
<1>10. ASSUME NEW t \in Threads, ReleaseBeforeDriver(t) PROVE Exclusive'
  BY <1>10 DEF ReleaseBeforeDriver, Release, Proceed, InPool
<1>11. ASSUME NEW t \in Threads, DriverFree(t) PROVE Exclusive'
  <2>1. \A u \in Threads \ {t} : \A c \in target[u] : c \in CommandBuffers /\ c \notin target[t]
    BY <1>11 DEF DriverFree
  <2> QED
    BY <1>11, <2>1 DEF DriverFree, Return, Goto, InPool
<1>12. ASSUME NEW t \in Threads, TakeForRelease(t) PROVE Exclusive'
  BY <1>12 DEF TakeForRelease, Take, Proceed, InPool
<1>13. ASSUME NEW t \in Threads, ReleaseAndReturn(t) PROVE Exclusive'
  BY <1>13 DEF ReleaseAndReturn, Release, Return, Goto, InPool
<1>14. ASSUME NEW t \in Threads, DriverResetPool(t) PROVE Exclusive'
  BY <1>14 DEF DriverResetPool, Discard, Proceed, InPool
<1>15. ASSUME NEW t \in Threads, DriverResetPoolFails(t) PROVE Exclusive'
  BY <1>15 DEF DriverResetPoolFails, Return, Goto, InPool
<1>16. ASSUME NEW t \in Threads, RecordAndTrack(t) PROVE Exclusive'
  BY <1>16 DEF RecordAndTrack, Return, Goto, InPool
<1>17. ASSUME NEW t \in Threads, RecordFails(t) PROVE Exclusive'
  BY <1>17 DEF RecordFails, Release, Return, Goto, InPool
<1>18. CASE UNCHANGED vars
  BY <1>18 DEF vars, InPool
<1> HIDE DEF IInv, TypeOK, Exclusive, EmptyHanded, driver_vars
<1> QED
  BY <1>1, <1>2, <1>3, <1>4, <1>5, <1>6, <1>7, <1>8, <1>9, <1>10, <1>11, <1>12,
     <1>13, <1>14, <1>15, <1>16, <1>17, <1>18 DEF Next

\* Command buffers of a pool nobody is in are none of another handler's.
LEMMA EntersAlone ==
  ASSUME TypeOK, Exclusive, NEW t \in Threads, NEW p \in Pools, Enters(t, p)
  PROVE  /\ p # NoPool /\ target[t] = {}
         /\ \A c \in CommandBuffers : pool[c] = p => \A u \in Threads : c \notin target[u]
  BY CommandBuffersAssumption DEF TypeOK, Exclusive, Enters

\* Entries that are kept still have their command buffer when none of those with their
\* keys changes its pool or begins to go.
LEMMA KeepsFiled ==
  ASSUME OwnersFiled,
         \A k \in Keys : owner'[k] # NoPool => owner'[k] = owner[k],
         \A c \in CommandBuffers :
           pool[c] # NoPool /\ ~Going(c) /\ owner'[KeyOf[c]] = pool[c]
             => pool'[c] = pool[c] /\ ~Going(c)'
  PROVE  OwnersFiled'
<1> SUFFICES ASSUME NEW k \in Keys, owner'[k] # NoPool
             PROVE  \E c \in CommandBuffers :
                      KeyOf[c] = k /\ pool'[c] = owner'[k] /\ ~Going(c)'
  BY DEF OwnersFiled
<1>1. owner'[k] = owner[k] /\ owner[k] # NoPool
  OBVIOUS
<1>2. PICK c \in CommandBuffers : KeyOf[c] = k /\ pool[c] = owner[k] /\ ~Going(c)
  BY <1>1 DEF OwnersFiled
<1> QED
  BY <1>1, <1>2

\* A handler that begins and forgets nothing, or goes on, changes no entry's command buffer.
LEMMA SameFiled ==
  ASSUME OwnersFiled, UNCHANGED <<pool, owner>>, \A c \in CommandBuffers : Going(c)' => Going(c)
  PROVE  OwnersFiled'
  BY KeepsFiled

\* Entries go before their command buffers, and come after them.
LEMMA OwnersFiledNext == IInv /\ [Next]_vars => OwnersFiled'
<1> SUFFICES ASSUME IInv, [Next]_vars PROVE OwnersFiled'
  OBVIOUS
<1> USE DEF IInv, TypeOK, Exclusive, driver_vars
<1>1. ASSUME NEW p \in Pools, CreateCommandPool(p) PROVE OwnersFiled'
  BY <1>1, SameFiled DEF CreateCommandPool, Going
<1>2. ASSUME NEW c \in CommandBuffers, Advance(c) PROVE OwnersFiled'
  BY <1>2, SameFiled DEF Advance, Going
<1>3. ASSUME NEW t \in Threads, NEW p \in Pools, DestroyCommandPool(t, p) PROVE OwnersFiled'
  <2>1. /\ \A k \in Keys : owner'[k] = IF owner[k] = p THEN NoPool ELSE owner[k]
        /\ pool' = pool
        /\ at' = [at EXCEPT ![t] = "release_destroy"]
        /\ target' = [target EXCEPT ![t] = InPool(p)]
    BY <1>3 DEF DestroyCommandPool, Erase, Goto
  <2>2. \A c \in CommandBuffers : Going(c)' => Going(c) \/ pool[c] = p
    BY <2>1 DEF Going, InPool
  <2>3. p # NoPool
    BY <1>3, EntersAlone DEF DestroyCommandPool
  <2>4. \A c \in CommandBuffers : KeyOf[c] \in Keys
    BY CommandBuffersAssumption
  <2> QED
    BY <2>1, <2>2, <2>3, <2>4, KeepsFiled
<1>4. ASSUME NEW t \in Threads, NEW p \in Pools, ResetCommandPool(t, p) PROVE OwnersFiled'
  BY <1>4, SameFiled DEF ResetCommandPool, Goto, Going, Forgotten
<1>5. ASSUME NEW t \in Threads, NEW p \in Pools, NEW S \in SUBSET CommandBuffers,
            AllocateCommandBuffers(t, p, S)
     PROVE  OwnersFiled'
  <2>1. /\ owner' = owner /\ \A c \in S : pool[c] = NoPool
        /\ \A c \in CommandBuffers \ S : pool'[c] = pool[c]
        /\ at' = [at EXCEPT ![t] = "track"]
        /\ target' = [target EXCEPT ![t] = S]
    BY <1>5 DEF AllocateCommandBuffers, Goto
  <2>2. \A c \in CommandBuffers : Going(c)' => Going(c) \/ c \in S
    BY <2>1 DEF Going
  <2> QED
    BY <2>1, <2>2, KeepsFiled
<1>6. ASSUME NEW t \in Threads, NEW p \in Pools, NEW S \in SUBSET CommandBuffers,
            FreeCommandBuffers(t, p, S)
     PROVE  OwnersFiled'
  <2>1. /\ \A k \in Keys : owner'[k] = IF k \in KeysOf(S) THEN NoPool ELSE owner[k]
        /\ pool' = pool
        /\ at' = [at EXCEPT ![t] = "release_free"]
        /\ target' = [target EXCEPT ![t] = S]
    BY <1>6 DEF FreeCommandBuffers, Erase, Goto
  <2>2. \A c \in CommandBuffers : Going(c)' => Going(c) \/ c \in S
    BY <2>1 DEF Going
  <2>3. \A c \in CommandBuffers : KeyOf[c] \in Keys /\ (c \in S => KeyOf[c] \in KeysOf(S))
    BY CommandBuffersAssumption DEF KeysOf
  <2> QED
    BY <2>1, <2>2, <2>3, KeepsFiled
<1>7. ASSUME NEW t \in Threads, NEW c \in CommandBuffers, AcquireResource(t, c) PROVE OwnersFiled'
  BY <1>7, SameFiled DEF AcquireResource, Goto, Going, Forgotten
<1>8. ASSUME NEW t \in Threads, NEW c \in CommandBuffers, NEW s \in {"initial", "recording"},
            BeginOrReset(t, c, s)
     PROVE  OwnersFiled'
  BY <1>8, SameFiled DEF BeginOrReset, Goto, Going, Forgotten
<1>9. ASSUME NEW t \in Threads, TrackAllocated(t) PROVE OwnersFiled'
  <2>1. /\ \A k \in Keys :
             owner'[k] = IF k \in KeysOf(target[t]) THEN in_pool[t] ELSE owner[k]
        /\ pool' = pool /\ at[t] = "track"
        /\ at' = [at EXCEPT ![t] = "idle"]
        /\ target' = [target EXCEPT ![t] = {}]
    BY <1>9 DEF TrackAllocated, Return, Goto
  <2>2. \A c \in CommandBuffers : Going(c)' => Going(c) /\ c \notin target[t]
    BY <2>1, OneHandler DEF Going
  <2> SUFFICES ASSUME NEW k \in Keys, owner'[k] # NoPool
               PROVE  \E c \in CommandBuffers :
                        KeyOf[c] = k /\ pool'[c] = owner'[k] /\ ~Going(c)'
    BY DEF OwnersFiled
  <2>3. CASE k \in KeysOf(target[t])
    <3>1. PICK c \in target[t] : KeyOf[c] = k
      BY <2>3 DEF KeysOf
    <3>2. c \in CommandBuffers /\ pool[c] = in_pool[t]
      BY <2>1
    <3> QED
      BY <2>1, <2>2, <2>3, <3>1, <3>2
  <2>4. CASE k \notin KeysOf(target[t])
    BY <2>1, <2>2, <2>4 DEF OwnersFiled
  <2> QED
    BY <2>3, <2>4
<1>10. ASSUME NEW t \in Threads, ReleaseBeforeDriver(t) PROVE OwnersFiled'
  BY <1>10, SameFiled DEF ReleaseBeforeDriver, Proceed, Going, Forgotten
<1>11. ASSUME NEW t \in Threads, DriverFree(t) PROVE OwnersFiled'
  <2>1. /\ owner' = owner /\ at[t] \in Forgotten
        /\ \A c \in CommandBuffers \ target[t] : pool'[c] = pool[c]
        /\ at' = [at EXCEPT ![t] = "idle"]
        /\ target' = [target EXCEPT ![t] = {}]
    BY <1>11 DEF DriverFree, Return, Goto, Forgotten
  <2>2. \A c \in CommandBuffers : Going(c)' => Going(c)
    BY <2>1 DEF Going
  <2>3. \A c \in CommandBuffers : ~Going(c) => c \notin target[t]
    BY <2>1 DEF Going
  <2> QED
    BY <2>1, <2>2, <2>3, KeepsFiled
<1>12. ASSUME NEW t \in Threads, TakeForRelease(t) PROVE OwnersFiled'
  BY <1>12, SameFiled DEF TakeForRelease, Proceed, Going, Forgotten
<1>13. ASSUME NEW t \in Threads, ReleaseAndReturn(t) PROVE OwnersFiled'
  BY <1>13, SameFiled DEF ReleaseAndReturn, Return, Goto, Going, Forgotten
<1>14. ASSUME NEW t \in Threads, DriverResetPool(t) PROVE OwnersFiled'
  BY <1>14, SameFiled DEF DriverResetPool, Proceed, Going, Forgotten
<1>15. ASSUME NEW t \in Threads, DriverResetPoolFails(t) PROVE OwnersFiled'
  BY <1>15, SameFiled DEF DriverResetPoolFails, Return, Goto, Going, Forgotten
<1>16. ASSUME NEW t \in Threads, RecordAndTrack(t) PROVE OwnersFiled'
  BY <1>16, SameFiled DEF RecordAndTrack, Return, Goto, Going, Forgotten
<1>17. ASSUME NEW t \in Threads, RecordFails(t) PROVE OwnersFiled'
  BY <1>17, SameFiled DEF RecordFails, Return, Goto, Going, Forgotten
<1>18. CASE UNCHANGED vars
  BY <1>18, SameFiled DEF vars, Going
<1> HIDE DEF IInv, TypeOK, Exclusive, driver_vars
<1> QED
  BY <1>1, <1>2, <1>3, <1>4, <1>5, <1>6, <1>7, <1>8, <1>9, <1>10, <1>11, <1>12,
     <1>13, <1>14, <1>15, <1>16, <1>17, <1>18 DEF Next

\* Resources nobody moves stay in one place.
LEMMA SameHeld ==
  ASSUME OncePlaced, UNCHANGED <<tracked, free, abandoned, hands>>
  PROVE  OncePlaced'
  BY DEF OncePlaced, Unique, Placed

\* So do those that are taken out of the vectors of command buffers,
LEMMA TakeKeeps ==
  ASSUME TypeOK, OncePlaced, NEW t \in Threads, NEW K \in SUBSET Keys, Take(t, K),
         UNCHANGED <<free, abandoned>>
  PROVE  OncePlaced'
<1> SUFFICES ASSUME NEW r \in Resources PROVE Unique(r)' /\ Placed(r)'
  BY DEF OncePlaced
<1> DEFINE taken == \E k \in K : r \in tracked[k]
<1>1. \A k \in Keys : r \in tracked'[k] <=> r \in tracked[k] /\ k \notin K
  BY DEF TypeOK, Take
<1>2. \A u \in Threads : r \in hands'[u] <=> r \in hands[u] \/ (u = t /\ taken)
  BY DEF TypeOK, Take
<1>3. Unique(r) /\ Placed(r)
  BY DEF OncePlaced
<1> HIDE DEF taken
<1>4. taken <=> \E k \in K : r \in tracked[k]
  BY DEF taken
<1>5. Unique(r)'
  BY <1>1, <1>2, <1>3, <1>4 DEF Unique
<1>6. Placed(r)'
  BY <1>1, <1>2, <1>3, <1>4 DEF Placed
<1> QED
  BY <1>5, <1>6

\* those that are recycled,
LEMMA ReleaseKeeps ==
  ASSUME TypeOK, OncePlaced, NEW t \in Threads, Release(t), UNCHANGED <<tracked, abandoned>>
  PROVE  OncePlaced'
  BY DEF TypeOK, OncePlaced, Unique, Placed, Release

\* those that are abandoned,
LEMMA AbandonKeeps ==
  ASSUME TypeOK, OncePlaced, NEW t \in Threads, abandoned' = abandoned \union hands[t],
         hands' = [hands EXCEPT ![t] = {}], UNCHANGED <<tracked, free>>
  PROVE  OncePlaced'
  BY DEF TypeOK, OncePlaced, Unique, Placed

\* one that is acquired,
LEMMA AcquireKeeps ==
  ASSUME TypeOK, OncePlaced, NEW t \in Threads, hands[t] = {}, NEW r \in free, free' = free \ {r},
         hands' = [hands EXCEPT ![t] = {r}], UNCHANGED <<tracked, abandoned>>
  PROVE  OncePlaced'
  BY DEF TypeOK, OncePlaced, Unique, Placed

\* and those that are tracked.
LEMMA TrackKeeps ==
  ASSUME TypeOK, OncePlaced, NEW t \in Threads, NEW k \in Keys, hands' = [hands EXCEPT ![t] = {}],
         tracked' = [l \in Keys |-> IF l \in {k} THEN tracked[l] \union hands[t] ELSE tracked[l]],
         UNCHANGED <<free, abandoned>>
  PROVE  OncePlaced'
  BY DEF TypeOK, OncePlaced, Unique, Placed

\* Every step is one of these moves, or none.
LEMMA OncePlacedNext == IInv /\ [Next]_vars => OncePlaced'
<1> SUFFICES ASSUME IInv, [Next]_vars PROVE OncePlaced'
  OBVIOUS
<1> USE DEF IInv, driver_vars
<1>1. ASSUME NEW p \in Pools, CreateCommandPool(p) PROVE OncePlaced'
  BY <1>1, SameHeld DEF CreateCommandPool
<1>2. ASSUME NEW c \in CommandBuffers, Advance(c) PROVE OncePlaced'
  BY <1>2, SameHeld DEF Advance
<1>3. ASSUME NEW t \in Threads, NEW p \in Pools, DestroyCommandPool(t, p) PROVE OncePlaced'
  BY <1>3, TakeKeeps DEF DestroyCommandPool
<1>4. ASSUME NEW t \in Threads, NEW p \in Pools, ResetCommandPool(t, p) PROVE OncePlaced'
  BY <1>4, TakeKeeps DEF ResetCommandPool
<1>5. ASSUME NEW t \in Threads, NEW p \in Pools, NEW S \in SUBSET CommandBuffers,
            AllocateCommandBuffers(t, p, S)
     PROVE  OncePlaced'
  BY <1>5, SameHeld DEF AllocateCommandBuffers
<1>6. ASSUME NEW t \in Threads, NEW p \in Pools, NEW S \in SUBSET CommandBuffers,
            FreeCommandBuffers(t, p, S)
     PROVE  OncePlaced'
  BY <1>6, TakeKeeps, KeysTyped, CommandBuffersAssumption DEF FreeCommandBuffers
<1>7. ASSUME NEW t \in Threads, NEW c \in CommandBuffers, AcquireResource(t, c) PROVE OncePlaced'
  <2>1. hands[t] = {}
    BY <1>7 DEF AcquireResource, Enters, Exclusive, EmptyHanded
  <2> QED
    BY <1>7, <2>1, AcquireKeeps DEF AcquireResource
<1>8. ASSUME NEW t \in Threads, NEW c \in CommandBuffers, NEW s \in {"initial", "recording"},
            BeginOrReset(t, c, s)
     PROVE  OncePlaced'
  BY <1>8, SameHeld DEF BeginOrReset
<1>9. ASSUME NEW t \in Threads, TrackAllocated(t) PROVE OncePlaced'
  BY <1>9, SameHeld DEF TrackAllocated
<1>10. ASSUME NEW t \in Threads, ReleaseBeforeDriver(t) PROVE OncePlaced'
  BY <1>10, ReleaseKeeps DEF ReleaseBeforeDriver
<1>11. ASSUME NEW t \in Threads, DriverFree(t) PROVE OncePlaced'
  BY <1>11, SameHeld DEF DriverFree
<1>12. ASSUME NEW t \in Threads, TakeForRelease(t) PROVE OncePlaced'
  <2>1. KeysOf(target[t]) \in SUBSET Keys
    BY KeysTyped, CommandBuffersAssumption DEF TypeOK
  <2> QED
    BY <1>12, <2>1, TakeKeeps DEF TakeForRelease
<1>13. ASSUME NEW t \in Threads, ReleaseAndReturn(t) PROVE OncePlaced'
  BY <1>13, ReleaseKeeps DEF ReleaseAndReturn
<1>14. ASSUME NEW t \in Threads, DriverResetPool(t) PROVE OncePlaced'
  BY <1>14, SameHeld DEF DriverResetPool
<1>15. ASSUME NEW t \in Threads, DriverResetPoolFails(t) PROVE OncePlaced'
  BY <1>15, AbandonKeeps DEF DriverResetPoolFails
<1>16. ASSUME NEW t \in Threads, RecordAndTrack(t) PROVE OncePlaced'
  <2>1. PICK c \in CommandBuffers : target[t] = {c}
    BY <1>16 DEF RecordAndTrack, Exclusive
  <2>2. KeyOf[c] \in Keys /\ KeysOf(target[t]) = {KeyOf[c]}
    BY <2>1, CommandBuffersAssumption DEF KeysOf
  <2> QED
    BY <1>16, <2>2, TrackKeeps DEF RecordAndTrack
<1>17. ASSUME NEW t \in Threads, RecordFails(t) PROVE OncePlaced'
  BY <1>17, ReleaseKeeps DEF RecordFails
<1>18. CASE UNCHANGED vars
  BY <1>18, SameHeld DEF vars
<1> HIDE DEF IInv, driver_vars
<1> QED
  BY <1>1, <1>2, <1>3, <1>4, <1>5, <1>6, <1>7, <1>8, <1>9, <1>10, <1>11, <1>12,
     <1>13, <1>14, <1>15, <1>16, <1>17, <1>18 DEF Next

-----------------------------------------------------------------------------
(* The theorems.                                                           *)

\* Nothing exists and every resource is free.
LEMMA InitIInv == Init => IInv
<1> SUFFICES ASSUME Init PROVE IInv
  OBVIOUS
<1>1. TypeOK
  BY CommandBuffersAssumption DEF Init, TypeOK, Steps, States
<1>2. Exclusive
  BY CommandBuffersAssumption DEF Init, Exclusive, EmptyHanded
<1>3. OwnersFiled
  BY DEF Init, OwnersFiled
<1>4. OncePlaced
  BY DEF Init, OncePlaced, Unique, Placed
<1> QED
  BY <1>1, <1>2, <1>3, <1>4 DEF IInv

\* The inductive invariant: its parts together.
LEMMA AlwaysIInv == Spec => []IInv
<1>1. IInv /\ [Next]_vars => IInv'
  BY TypeNext, ExclusiveNext, OwnersFiledNext, OncePlacedNext DEF IInv
<1> QED
  BY <1>1, InitIInv, PTL DEF Spec

\* One place is one holder.
LEMMA OnePlaceStep == IInv => OnePlace
<1> SUFFICES ASSUME IInv, NEW r \in Resources PROVE Cardinality(HoldersOf(r)) = 1
  BY DEF OnePlace
<1>1. Unique(r) /\ Placed(r)
  BY DEF IInv, OncePlaced
<1>2. \E x : HoldersOf(r) = {x}
  <2>1. CASE r \in free
    <3>1. HoldersOf(r) = {<<"free">>}
      BY <1>1, <2>1 DEF Unique, HoldersOf
    <3> QED
      BY <3>1
  <2>2. CASE r \in abandoned
    <3>1. HoldersOf(r) = {<<"abandoned">>}
      BY <1>1, <2>2 DEF Unique, HoldersOf
    <3> QED
      BY <3>1
  <2>3. ASSUME NEW k \in Keys, r \in tracked[k] PROVE HoldersOf(r) = {<<"key", k>>}
    BY <1>1, <2>3 DEF Unique, HoldersOf
  <2>4. ASSUME NEW t \in Threads, r \in hands[t] PROVE HoldersOf(r) = {<<"thread", t>>}
    BY <1>1, <2>4 DEF Unique, HoldersOf
  <2> QED
    BY <1>1, <2>1, <2>2, <2>3, <2>4 DEF Placed
<1> QED
  BY <1>2, FS_Singleton

\* For any threads, pools, command buffers and keys: the handlers' variables keep their
\* types, and no map refers to a pool that is destroyed.
THEOREM TypeAlways == Spec => []TypeOK
<1>1. IInv => TypeOK
  BY DEF IInv
<1> QED
  BY <1>1, AlwaysIInv, PTL

\* Every resource is in one place: none is lost but to a pool reset that failed, none is
\* recycled twice, even when all command buffers are filed under one key.
THEOREM AlwaysOnePlace == Spec => []OnePlace
  BY OnePlaceStep, AlwaysIInv, PTL

\* What the ownership maps say is a pool with a command buffer of that key, whatever keys
\* command buffers share and whatever handles the driver reuses.
THEOREM OwnersAlwaysExist == Spec => []OwnersExist
<1>1. IInv => OwnersExist
  BY DEF IInv, OwnersFiled, OwnersExist
<1> QED
  BY <1>1, AlwaysIInv, PTL
=============================================================================
