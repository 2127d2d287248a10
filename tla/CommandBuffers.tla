--------------------------- MODULE CommandBuffers ---------------------------
(***************************************************************************)
(* Who owns a command buffer, which staging allocations and descriptor     *)
(* sets its recording uses, and when they are recycled: the hooks of       *)
(* layer_command_buffer_hooks.cpp over the maps of                         *)
(* layer_command_buffer_ownership.cpp and ..._resources.cpp.               *)
(*                                                                         *)
(* A handler is a sequence of lock sections and driver calls; each is one  *)
(* action, so that handlers of several threads interleave; the sections in *)
(* which a handler takes and forgets the entries of its own command        *)
(* buffers follow each other at once and are one action.  The maps are     *)
(* indexed by dispatch_key(handle), the first word of the object behind    *)
(* the handle, which is the constant KeyOf: nothing in the layer makes it  *)
(* unique.  The two kinds of resources are tracked, taken and released     *)
(* side by side everywhere and are not told apart.  One device; the        *)
(* application respects external synchronization (one thread in a pool at  *)
(* a time) and touches no command buffer the GPU executes.                 *)
(***************************************************************************)
EXTENDS FiniteSets

CONSTANTS
  Threads,         \* application threads
  Pools,           \* VkCommandPool handles
  CommandBuffers,  \* VkCommandBuffer handles
  Keys,            \* values of dispatch_key
  KeyOf,           \* dispatch_key of each command buffer
  Resources,       \* staging allocations and descriptor sets
  NoPool           \* no entry in the ownership maps

ASSUME CommandBuffersAssumption ==
  /\ KeyOf \in [CommandBuffers -> Keys]
  /\ NoPool \notin Pools

VARIABLES
  \* the driver and the GPU
  live_pools,  \* command pools that exist
  pool,        \* command buffer -> pool it is allocated from
  state,       \* command buffer -> its Vulkan state
  uses,        \* command buffer -> resources its commands refer to
  \* the layer
  owner,       \* key -> pool: command_buffer_to_pool, _to_device, _device_handle
  tracked,     \* key -> resources in the command buffer's vectors
  free,        \* resources nobody holds
  abandoned,   \* resources dropped by a pool reset that failed
  \* handlers under way
  at,          \* thread -> next step of the handler it is in
  in_pool,     \* thread -> pool that handler works on
  target,      \* thread -> command buffers it works on
  hands        \* thread -> resources in its local vectors

driver_vars == <<live_pools, pool, state, uses>>
vars == <<live_pools, pool, state, uses, owner, tracked, free, abandoned,
          at, in_pool, target, hands>>

Steps == {"idle", "track", "driver_free", "driver_destroy", "driver_reset",
          "take", "release", "release_free", "release_destroy", "record"}

States == {"none", "initial", "recording", "executable", "pending"}

TypeOK ==
  /\ live_pools \subseteq Pools
  /\ pool \in [CommandBuffers -> live_pools \union {NoPool}]
  /\ state \in [CommandBuffers -> States]
  /\ uses \in [CommandBuffers -> SUBSET Resources]
  /\ owner \in [Keys -> live_pools \union {NoPool}]
  /\ tracked \in [Keys -> SUBSET Resources]
  /\ free \subseteq Resources
  /\ abandoned \subseteq Resources
  /\ at \in [Threads -> Steps]
  /\ in_pool \in [Threads -> live_pools \union {NoPool}]
  /\ target \in [Threads -> SUBSET CommandBuffers]
  /\ hands \in [Threads -> SUBSET Resources]

Init ==
  /\ live_pools = {}
  /\ pool = [c \in CommandBuffers |-> NoPool]
  /\ state = [c \in CommandBuffers |-> "none"]
  /\ uses = [c \in CommandBuffers |-> {}]
  /\ owner = [k \in Keys |-> NoPool]
  /\ tracked = [k \in Keys |-> {}]
  /\ free = Resources
  /\ abandoned = {}
  /\ at = [t \in Threads |-> "idle"]
  /\ in_pool = [t \in Threads |-> NoPool]
  /\ target = [t \in Threads |-> {}]
  /\ hands = [t \in Threads |-> {}]

-----------------------------------------------------------------------------
(* Steps and maps.                                                         *)

InPool(p) == {c \in CommandBuffers : pool[c] = p}
KeysOf(S) == {KeyOf[c] : c \in S}

\* External synchronization: a handler on pool p starts when nobody is in p.
Enters(t, p) ==
  /\ at[t] = "idle"
  /\ p \in live_pools
  /\ \A u \in Threads : in_pool[u] # p

Goto(t, step, p, S) ==
  /\ at' = [at EXCEPT ![t] = step]
  /\ in_pool' = [in_pool EXCEPT ![t] = p]
  /\ target' = [target EXCEPT ![t] = S]

Proceed(t, step) == at' = [at EXCEPT ![t] = step] /\ UNCHANGED <<in_pool, target>>

Return(t) == Goto(t, "idle", NoPool, {})

\* take_command_buffer_staging_allocations and ..._descriptor_sets for the keys K.
Take(t, K) ==
  /\ hands' = [hands EXCEPT ![t] = @ \union UNION {tracked[k] : k \in K}]
  /\ tracked' = [k \in Keys |-> IF k \in K THEN {} ELSE tracked[k]]

Erase(K) == owner' = [k \in Keys |-> IF k \in K THEN NoPool ELSE owner[k]]

\* Mutant of Release: what was taken is dropped.
Release_Drop(t) ==
  /\ hands' = [hands EXCEPT ![t] = {}]
  /\ UNCHANGED free

\* release_staging_allocations and release_descriptor_sets on the local vectors.
Release(t) ==
  /\ free' = free \union hands[t]
  /\ hands' = [hands EXCEPT ![t] = {}]

-----------------------------------------------------------------------------
(* Pools and allocation.                                                   *)

\* handle_create_command_pool
CreateCommandPool(p) ==
  /\ p \notin live_pools
  /\ live_pools' = live_pools \union {p}
  /\ UNCHANGED <<pool, state, uses, owner, tracked, free, abandoned,
                 at, in_pool, target, hands>>

\* handle_allocate_command_buffers, up to the driver's answer: the driver may
\* reuse any handle that was freed.
AllocateCommandBuffers(t, p, S) ==
  /\ Enters(t, p)
  /\ S # {} /\ \A c \in S : pool[c] = NoPool
  /\ pool' = [c \in CommandBuffers |-> IF c \in S THEN p ELSE pool[c]]
  /\ state' = [c \in CommandBuffers |-> IF c \in S THEN "initial" ELSE state[c]]
  /\ Goto(t, "track", p, S)
  /\ UNCHANGED <<live_pools, uses, owner, tracked, free, abandoned, hands>>

\* track_allocated_command_buffers
TrackAllocated(t) ==
  /\ at[t] = "track"
  /\ owner' = [k \in Keys |-> IF k \in KeysOf(target[t]) THEN in_pool[t] ELSE owner[k]]
  /\ Return(t)
  /\ UNCHANGED <<driver_vars, tracked, free, abandoned, hands>>

-----------------------------------------------------------------------------
(* Free and destroy.                                                       *)

\* Mutant of FreeCommandBuffers: the ownership entries stay.
FreeCommandBuffers_KeepOwner(t, p, S) ==
  /\ Enters(t, p)
  /\ S # {} /\ \A c \in S : pool[c] = p /\ state[c] # "pending"
  /\ Take(t, KeysOf(S))
  /\ Goto(t, "release_free", p, S)
  /\ UNCHANGED <<driver_vars, owner, free, abandoned>>

\* handle_free_command_buffers: take what S holds and forget S ...
FreeCommandBuffers(t, p, S) ==
  /\ Enters(t, p)
  /\ S # {} /\ \A c \in S : pool[c] = p /\ state[c] # "pending"
  /\ Take(t, KeysOf(S))
  /\ Erase(KeysOf(S))
  /\ Goto(t, "release_free", p, S)
  /\ UNCHANGED <<driver_vars, free, abandoned>>

\* Mutant of DestroyCommandPool: the ownership entries stay.
DestroyCommandPool_KeepOwner(t, p) ==
  /\ Enters(t, p)
  /\ \A c \in InPool(p) : state[c] # "pending"
  /\ Take(t, {k \in Keys : owner[k] = p})
  /\ Goto(t, "release_destroy", p, InPool(p))
  /\ UNCHANGED <<driver_vars, owner, free, abandoned>>

\* handle_destroy_command_pool: the same for every key the maps file under p ...
DestroyCommandPool(t, p) ==
  /\ Enters(t, p)
  /\ \A c \in InPool(p) : state[c] # "pending"
  /\ LET K == {k \in Keys : owner[k] = p} IN Take(t, K) /\ Erase(K)
  /\ Goto(t, "release_destroy", p, InPool(p))
  /\ UNCHANGED <<driver_vars, free, abandoned>>

\* ... then recycle the resources ...
ReleaseBeforeDriver(t) ==
  /\ at[t] \in {"release_free", "release_destroy"}
  /\ Release(t)
  /\ Proceed(t, IF at[t] = "release_free" THEN "driver_free" ELSE "driver_destroy")
  /\ UNCHANGED <<driver_vars, owner, tracked, abandoned>>

\* ... and only then let the driver have the handles back.
DriverFree(t) ==
  /\ at[t] \in {"driver_free", "driver_destroy"}
  /\ pool' = [c \in CommandBuffers |-> IF c \in target[t] THEN NoPool ELSE pool[c]]
  /\ state' = [c \in CommandBuffers |-> IF c \in target[t] THEN "none" ELSE state[c]]
  /\ uses' = [c \in CommandBuffers |-> IF c \in target[t] THEN {} ELSE uses[c]]
  /\ live_pools' = IF at[t] = "driver_destroy" THEN live_pools \ {in_pool[t]} ELSE live_pools
  /\ Return(t)
  /\ UNCHANGED <<owner, tracked, free, abandoned, hands>>

-----------------------------------------------------------------------------
(* Begin and reset.                                                        *)

Discard(S, s) ==
  /\ state' = [c \in CommandBuffers |-> IF c \in S THEN s ELSE state[c]]
  /\ uses' = [c \in CommandBuffers |-> IF c \in S THEN {} ELSE uses[c]]

\* handle_begin_command_buffer and handle_reset_command_buffer, up to the driver's
\* success; without an ownership entry they return an error and do nothing.
BeginOrReset(t, c, s) ==
  /\ pool[c] # NoPool /\ Enters(t, pool[c])
  /\ IF s = "recording" THEN state[c] \in {"initial", "executable"}
                        ELSE state[c] \in {"initial", "recording", "executable"}
  /\ owner[KeyOf[c]] # NoPool
  /\ Discard({c}, s)
  /\ Goto(t, "take", pool[c], {c})
  /\ UNCHANGED <<live_pools, pool, owner, tracked, free, abandoned, hands>>

\* release_command_buffer_resources, under g_lock ...
TakeForRelease(t) ==
  /\ at[t] = "take"
  /\ Take(t, KeysOf(target[t]))
  /\ Proceed(t, "release")
  /\ UNCHANGED <<driver_vars, owner, free, abandoned>>

\* ... and after it.
ReleaseAndReturn(t) ==
  /\ at[t] = "release"
  /\ Release(t)
  /\ Return(t)
  /\ UNCHANGED <<driver_vars, owner, tracked, abandoned>>

\* handle_reset_command_pool takes before it asks the driver ...
ResetCommandPool(t, p) ==
  /\ Enters(t, p)
  /\ \A c \in InPool(p) : state[c] # "pending"
  /\ Take(t, {k \in Keys : owner[k] = p})
  /\ Goto(t, "driver_reset", p, InPool(p))
  /\ UNCHANGED <<driver_vars, owner, free, abandoned>>

DriverResetPool(t) ==
  /\ at[t] = "driver_reset"
  /\ Discard(target[t], "initial")
  /\ Proceed(t, "release")
  /\ UNCHANGED <<live_pools, pool, owner, tracked, free, abandoned, hands>>

\* Mutant of DriverResetPoolFails: the resources are released all the same.
DriverResetPoolFails_Release(t) ==
  /\ at[t] = "driver_reset"
  /\ Release(t)
  /\ Return(t)
  /\ UNCHANGED <<driver_vars, owner, tracked, abandoned>>

\* ... and if the driver refuses, returns with the local vectors still full.
DriverResetPoolFails(t) ==
  /\ at[t] = "driver_reset"
  /\ abandoned' = abandoned \union hands[t]
  /\ hands' = [hands EXCEPT ![t] = {}]
  /\ Return(t)
  /\ UNCHANGED <<driver_vars, owner, tracked, free>>

-----------------------------------------------------------------------------
(* Recording.                                                              *)

\* A translated copy into c obtains a resource from the pools; without an ownership
\* entry there is no device to translate for ...
AcquireResource(t, c) ==
  /\ pool[c] # NoPool /\ Enters(t, pool[c])
  /\ state[c] = "recording"
  /\ owner[KeyOf[c]] # NoPool
  /\ \E r \in free :
       /\ free' = free \ {r}
       /\ hands' = [hands EXCEPT ![t] = {r}]
  /\ Goto(t, "record", pool[c], {c})
  /\ UNCHANGED <<driver_vars, owner, tracked, abandoned>>

\* Mutant of RecordAndTrack: the commands are recorded, the vectors not filled.
RecordAndTrack_NoTrack(t) ==
  /\ at[t] = "record"
  /\ uses' = [c \in CommandBuffers |->
                IF c \in target[t] THEN uses[c] \union hands[t] ELSE uses[c]]
  /\ hands' = [hands EXCEPT ![t] = {}]
  /\ Return(t)
  /\ UNCHANGED <<live_pools, pool, state, owner, tracked, free, abandoned>>

\* ... and either records it and tracks it under the key of c ...
RecordAndTrack(t) ==
  /\ at[t] = "record"
  /\ uses' = [c \in CommandBuffers |->
                IF c \in target[t] THEN uses[c] \union hands[t] ELSE uses[c]]
  /\ tracked' = [k \in Keys |->
                   IF k \in KeysOf(target[t]) THEN tracked[k] \union hands[t] ELSE tracked[k]]
  /\ hands' = [hands EXCEPT ![t] = {}]
  /\ Return(t)
  /\ UNCHANGED <<live_pools, pool, state, owner, free, abandoned>>

\* ... or fails on the way and gives it back.
RecordFails(t) ==
  /\ at[t] = "record"
  /\ Release(t)
  /\ Return(t)
  /\ UNCHANGED <<driver_vars, owner, tracked, abandoned>>

\* The application and the GPU, between hooks: vkEndCommandBuffer, vkQueueSubmit
\* and the completion of a submission.
Advance(c) ==
  /\ state[c] # "none"
  /\ \A t \in Threads : in_pool[t] # pool[c]
  /\ \/ state[c] = "recording" /\ state' = [state EXCEPT ![c] = "executable"]
     \/ state[c] = "executable" /\ state' = [state EXCEPT ![c] = "pending"]
     \/ state[c] = "pending" /\ state' = [state EXCEPT ![c] = "executable"]
  /\ UNCHANGED <<live_pools, pool, uses, owner, tracked, free, abandoned,
                 at, in_pool, target, hands>>

Next ==
  \/ \E p \in Pools : CreateCommandPool(p)
  \/ \E c \in CommandBuffers : Advance(c)
  \/ \E t \in Threads :
       \/ \E p \in Pools :
            \/ DestroyCommandPool(t, p)
            \/ ResetCommandPool(t, p)
            \/ \E S \in SUBSET CommandBuffers :
                 AllocateCommandBuffers(t, p, S) \/ FreeCommandBuffers(t, p, S)
       \/ \E c \in CommandBuffers :
            \/ AcquireResource(t, c)
            \/ \E s \in {"initial", "recording"} : BeginOrReset(t, c, s)
       \/ TrackAllocated(t)
       \/ ReleaseBeforeDriver(t) \/ DriverFree(t)
       \/ TakeForRelease(t) \/ ReleaseAndReturn(t)
       \/ DriverResetPool(t) \/ DriverResetPoolFails(t)
       \/ RecordAndTrack(t) \/ RecordFails(t)

Spec == Init /\ [][Next]_vars

-----------------------------------------------------------------------------
(* Properties.                                                             *)

InHandler(c) == \E t \in Threads : c \in target[t]

\* The GPU may still execute what c records; c is not on its way to the driver.
Executable(c) ==
  /\ state[c] \in {"recording", "executable", "pending"}
  /\ \A t \in Threads : c \in target[t] =>
       at[t] \notin {"release_free", "release_destroy", "driver_free", "driver_destroy"}

\* "Safe release per command buffer": what a recording uses that may still be
\* executed is neither recycled nor part of another recording.
SafeRelease ==
  \A c \in CommandBuffers : Executable(c) =>
    /\ uses[c] \intersect free = {}
    /\ \A d \in CommandBuffers \ {c} : Executable(d) => uses[c] \intersect uses[d] = {}

HoldersOf(r) ==
  {<<"key", k>> : k \in {k \in Keys : r \in tracked[k]}}
    \union {<<"thread", t>> : t \in {t \in Threads : r \in hands[t]}}
    \union {<<"free">> : x \in {x \in {r} : r \in free}}
    \union {<<"abandoned">> : x \in {x \in {r} : r \in abandoned}}

\* Every resource is in one place: the pools, one command buffer's vectors, the
\* local vectors of one handler, or lost to a failed pool reset.
OnePlace == \A r \in Resources : Cardinality(HoldersOf(r)) = 1

\* Whatever keys the command buffers have, an entry of the ownership maps names the pool
\* of a command buffer with that key, and so a live pool: no handle that the driver has
\* back is looked up (handle_free_command_buffers, handle_destroy_command_pool).
OwnersExist ==
  \A k \in Keys : owner[k] # NoPool =>
    \E c \in CommandBuffers : KeyOf[c] = k /\ pool[c] = owner[k]

\* The maps file every command buffer between two handlers under its own pool,
\* whatever handles the driver reuses.
OwnerMatchesDriver == \A c \in CommandBuffers : ~InHandler(c) => owner[KeyOf[c]] = pool[c]

\* Between two handlers the vectors of a command buffer are exactly what its
\* recording uses, save what a failed pool reset lost: its next begin, reset or
\* free returns all of it and nothing else.
TrackedIsUsed ==
  \A c \in CommandBuffers : ~InHandler(c) => tracked[KeyOf[c]] = uses[c] \ abandoned
=============================================================================
