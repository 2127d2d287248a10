---------------------------- MODULE DeviceRuntime ----------------------------
(***************************************************************************)
(* The life of a device under one dispatch key, with the compute runtime   *)
(* that the layer makes on it (layer_compute_runtime.cpp, its map and its  *)
(* callers in layer_entry.cpp).  When a device is gone the next one may    *)
(* have the same key.                                                      *)
(*                                                                         *)
(* The runtime is initialized once, under its init_mutex, object by        *)
(* object, by vkCreateDevice (the prewarm) or by the first translated      *)
(* copy; any object may be refused.  Its pipeline cache begins with the    *)
(* content of a file, if there is one, and is written back to it with the  *)
(* device; a process that ends meanwhile leaves the file torn.  All        *)
(* devices and processes write to the same file.                           *)
(* The subgroup variants of a pipeline and the descriptor buffer, which no *)
(* device enables in this build, are left out, as are the descriptor sets  *)
(* (DescriptorSets) and the staging memory (StagingAllocator).             *)
(***************************************************************************)
EXTENDS Naturals, SequencesExt

CONSTANTS
  Threads,
  Kinds,     \* shader kinds: one pipeline for each
  Prewarms   \* is the runtime made with the device: TRUE, FALSE or either

VARIABLES
  device,       \* where the device is between two vkCreateDevice
  refuses,      \* what its driver may refuse: objects, and what a file holds
  runtime,      \* g_compute_runtime: the runtime's flags
  handles,      \* the handles it holds
  made,         \* the driver's objects: how many of each kind exist
  at,           \* thread -> its step in vkCreateDevice or a translated copy
  next_object,  \* thread -> place in Objects of the object it makes
  data,         \* thread -> initial_data, read from the cache file
  refused,      \* thread -> the driver refused it something in this call
  cache_file    \* the pipeline cache on disk

vars == <<device, refuses, runtime, handles, made, at, next_object, data, refused, cache_file>>

\* In the order in which initialize_compute_runtime makes them; then the pipelines,
\* one for each shader kind.
Objects == <<"set_layout", "pipeline_layout", "sampler", "pipeline_cache", "descriptor_pool">>
AllObjects == ToSet(Objects) \union Kinds

ASSUME DeviceRuntimeAssumption ==
  /\ Prewarms \subseteq BOOLEAN
  /\ Kinds # {} /\ Kinds \intersect ToSet(Objects) = {}

NoRuntime == [present |-> FALSE, initialized |-> FALSE, available |-> FALSE, dirty |-> FALSE]
NoRefusal == [objects |-> {}, data |-> {}]

\* What a file holds that is not empty: all of what was written, or anything else.
Bytes == {"valid", "torn"}

DeviceStates == {"none", "prewarm", "alive", "persist", "write", "destroy", "gone"}

TypeOK ==
  /\ device \in DeviceStates
  /\ refuses \in [objects : SUBSET AllObjects, data : SUBSET Bytes]
  /\ runtime \in [present : BOOLEAN, initialized : BOOLEAN, available : BOOLEAN, dirty : BOOLEAN]
  /\ handles \subseteq AllObjects
  /\ made \in [AllObjects -> 0..1]
  /\ at \in [Threads -> {"idle", "lock", "make", "copy", "failed"}]
  /\ next_object \in [Threads -> 0..(Len(Objects) + 1)]
  /\ data \in [Threads -> {"unread", "none"} \union Bytes]
  /\ refused \in [Threads -> BOOLEAN]
  /\ cache_file \in {"none"} \union Bytes

Init ==
  /\ device = "none"
  /\ refuses = NoRefusal
  /\ runtime = NoRuntime
  /\ handles = {}
  /\ made = [o \in AllObjects |-> 0]
  /\ at = [t \in Threads |-> "idle"]
  /\ next_object = [t \in Threads |-> 0]
  /\ data = [t \in Threads |-> "unread"]
  /\ refused = [t \in Threads |-> FALSE]
  /\ cache_file = "none"

-----------------------------------------------------------------------------
(* Creation of the device.                                                 *)

\* layer_CreateDevice enters the device in the maps; a device shared with LSFG, or of
\* another vendor, is not prewarmed.
CreateDevice(t) ==
  /\ device = "none"
  /\ refuses' \in [objects : SUBSET AllObjects, data : SUBSET Bytes]
  /\ \/ /\ FALSE \in Prewarms
        /\ device' = "alive"
        /\ UNCHANGED <<runtime, at>>
     \/ /\ TRUE \in Prewarms
        /\ device' = "prewarm"
        /\ runtime' = [runtime EXCEPT !.present = TRUE]
        /\ at' = [at EXCEPT ![t] = "lock"]
  /\ UNCHANGED <<handles, made, next_object, data, refused, cache_file>>

-----------------------------------------------------------------------------
(* The compute runtime.                                                    *)

\* try_special_copy_image_regions: get_or_create_compute_runtime, then the init_mutex.
UseRuntime(t) ==
  /\ device = "alive"
  /\ at[t] = "idle"
  /\ runtime' = [runtime EXCEPT !.present = TRUE]
  /\ at' = [at EXCEPT ![t] = "lock"]
  /\ UNCHANGED <<device, refuses, handles, made, next_object, data, refused, cache_file>>

Answer(t, available) == at' = [at EXCEPT ![t] = IF available THEN "copy" ELSE "failed"]

Start(t) ==
  /\ runtime' = [runtime EXCEPT !.initialized = TRUE, !.available = FALSE, !.dirty = FALSE]
  /\ next_object' = [next_object EXCEPT ![t] = 1]
  /\ at' = [at EXCEPT ![t] = "make"]

\* Mutant of LockRuntime: there is no mutex, and the flag is set at the end.
LockRuntime_NoMutex(t) ==
  /\ at[t] = "lock"
  /\ IF runtime.initialized /\ \A u \in Threads : at[u] # "make"
       THEN Answer(t, runtime.available) /\ UNCHANGED <<runtime, next_object>>
       ELSE Start(t)
  /\ UNCHANGED <<device, refuses, handles, made, data, refused, cache_file>>

\* initialize_compute_runtime, with the init_mutex: it was called before, or it starts.
LockRuntime(t) ==
  /\ at[t] = "lock"
  /\ \A u \in Threads : at[u] # "make"
  /\ IF runtime.initialized
       THEN Answer(t, runtime.available) /\ UNCHANGED <<runtime, next_object>>
       ELSE Start(t)
  /\ UNCHANGED <<device, refuses, handles, made, data, refused, cache_file>>

Make(S) ==
  /\ made' = [o \in AllObjects |-> IF o \in S THEN made[o] + 1 ELSE made[o]]
  /\ handles' = handles \union S

Making(t, n) == at[t] = "make" /\ next_object[t] = n

\* The thread knows what it asks for: the pipeline cache, only after it read the file.
Asks(t, n) == Making(t, n) /\ (Objects[n] = "pipeline_cache" => data[t] # "unread")

\* create_runtime_pipeline_cache reads the file.  read_binary_file takes the size and then
\* the bytes, and its result is not looked at: when a read fails, or the file shrinks
\* meanwhile, the vector has the right size and the wrong bytes.
ReadCacheFile(t) ==
  /\ \E n \in DOMAIN Objects : Making(t, n) /\ Objects[n] = "pipeline_cache"
  /\ data[t] = "unread"
  /\ \E bytes \in {cache_file} \union (IF cache_file \in Bytes THEN {"torn"} ELSE {}) :
       data' = [data EXCEPT ![t] = bytes]
  /\ UNCHANGED <<device, refuses, runtime, handles, made, at, next_object, refused, cache_file>>

\* Mutant of RefuseData: there is no second try.
RefuseData_NoSecondTry(t) ==
  /\ at[t] = "make"
  /\ data[t] \in Bytes \intersect refuses.data
  /\ Answer(t, FALSE)
  /\ refused' = [refused EXCEPT ![t] = TRUE]
  /\ data' = [data EXCEPT ![t] = "unread"]
  /\ next_object' = [next_object EXCEPT ![t] = 0]
  /\ UNCHANGED <<device, refuses, runtime, handles, made, cache_file>>

\* The driver refuses a pipeline cache with the data of the file: the next try has none.
RefuseData(t) ==
  /\ at[t] = "make"
  /\ data[t] \in Bytes \intersect refuses.data
  /\ data' = [data EXCEPT ![t] = "none"]
  /\ refused' = [refused EXCEPT ![t] = TRUE]
  /\ UNCHANGED <<device, refuses, runtime, handles, made, at, next_object, cache_file>>

\* The next object is made, a pipeline cache with whatever data.
MakeObject(t) ==
  /\ \E n \in DOMAIN Objects :
       /\ Asks(t, n)
       /\ Make({Objects[n]})
       /\ next_object' = [next_object EXCEPT ![t] = n + 1]
  /\ data' = [data EXCEPT ![t] = "unread"]
  /\ UNCHANGED <<device, refuses, runtime, at, refused, cache_file>>

\* Mutant of RefuseObject: the next caller starts again.
RefuseObject_Again(t) ==
  /\ \E n \in DOMAIN Objects : Asks(t, n) /\ Objects[n] \in refuses.objects
  /\ data[t] \notin Bytes
  /\ Answer(t, FALSE)
  /\ runtime' = [runtime EXCEPT !.initialized = FALSE]
  /\ refused' = [refused EXCEPT ![t] = TRUE]
  /\ data' = [data EXCEPT ![t] = "unread"]
  /\ next_object' = [next_object EXCEPT ![t] = 0]
  /\ UNCHANGED <<device, refuses, handles, made, cache_file>>

\* The driver refuses it (a pipeline cache, without data): initialization ends, and what
\* was made so far is kept.
RefuseObject(t) ==
  /\ \E n \in DOMAIN Objects : Asks(t, n) /\ Objects[n] \in refuses.objects
  /\ data[t] \notin Bytes
  /\ Answer(t, FALSE)
  /\ refused' = [refused EXCEPT ![t] = TRUE]
  /\ data' = [data EXCEPT ![t] = "unread"]
  /\ next_object' = [next_object EXCEPT ![t] = 0]
  /\ UNCHANGED <<device, refuses, runtime, handles, made, cache_file>>

\* create_compute_pipeline_for_kind for every kind: the driver may refuse any of them,
\* and one is enough.
MakePipelines(t) ==
  /\ Making(t, Len(Objects) + 1)
  /\ \E S \in SUBSET Kinds :
       /\ Kinds \ S \subseteq refuses.objects
       /\ Make(S)
       /\ runtime' = [runtime EXCEPT !.available = S # {}, !.dirty = S # {}]
       /\ refused' = [refused EXCEPT ![t] = @ \/ S # Kinds]
       /\ Answer(t, S # {})
  /\ next_object' = [next_object EXCEPT ![t] = 0]
  /\ UNCHANGED <<device, refuses, data, cache_file>>

\* The copy is recorded, or there is none without a runtime; vkCreateDevice returns
\* all the same.
ReturnFromCall(t) ==
  /\ at[t] \in {"copy", "failed"}
  /\ at' = [at EXCEPT ![t] = "idle"]
  /\ refused' = [refused EXCEPT ![t] = FALSE]
  /\ device' = IF device = "prewarm" THEN "alive" ELSE device
  /\ UNCHANGED <<refuses, runtime, handles, made, next_object, data, cache_file>>

-----------------------------------------------------------------------------
(* Destruction.                                                            *)

\* layer_DestroyDevice takes the device out of the maps, under the lock.  The
\* application uses the device no more, and the GPU is done with it.
DestroyDevice ==
  /\ device = "alive"
  /\ \A t \in Threads : at[t] = "idle"
  /\ device' = "persist"
  /\ runtime' = [runtime EXCEPT !.present = FALSE]
  /\ UNCHANGED <<refuses, handles, made, at, next_object, data, refused, cache_file>>

\* persist_runtime_pipeline_cache: nothing to do, the driver does not give the data,
\* or the file is truncated ...
PersistCache ==
  /\ device = "persist"
  /\ \/ device' = "destroy" /\ UNCHANGED cache_file
     \/ /\ "pipeline_cache" \in handles /\ runtime.dirty
        /\ device' = "write"
        /\ cache_file' = "none"
  /\ UNCHANGED <<refuses, runtime, handles, made, at, next_object, data, refused>>

\* ... and written, all of it or some.
WriteCache ==
  /\ device = "write"
  /\ \/ cache_file' = "valid" /\ device' = "destroy"
     \/ cache_file' = "torn" /\ device' \in {"write", "destroy"}
  /\ UNCHANGED <<refuses, runtime, handles, made, at, next_object, data, refused>>

\* Another device or process persists its cache in the same file.
OthersWriteCache ==
  /\ cache_file' \in {"none"} \union Bytes
  /\ UNCHANGED <<device, refuses, runtime, handles, made, at, next_object, data, refused>>

\* Mutant of DestroyRuntime: one that is not available is let alone.
DestroyRuntime_Available ==
  /\ device = "destroy"
  /\ IF runtime.available
       THEN /\ made' = [o \in AllObjects |-> IF o \in handles THEN made[o] - 1 ELSE made[o]]
            /\ handles' = {}
            /\ runtime' = NoRuntime
       ELSE UNCHANGED <<made, handles, runtime>>
  /\ device' = "gone"
  /\ UNCHANGED <<refuses, at, next_object, data, refused, cache_file>>

\* The rest of destroy_compute_runtime: every handle the runtime holds.
DestroyRuntime ==
  /\ device = "destroy"
  /\ made' = [o \in AllObjects |-> IF o \in handles THEN made[o] - 1 ELSE made[o]]
  /\ handles' = {}
  /\ runtime' = NoRuntime
  /\ device' = "gone"
  /\ UNCHANGED <<refuses, at, next_object, data, refused, cache_file>>

\* The driver destroys the device, and with it what is left of its objects.
DriverDestroyDevice ==
  /\ device = "gone"
  /\ device' = "none"
  /\ refuses' = NoRefusal
  /\ made' = [o \in AllObjects |-> 0]
  /\ UNCHANGED <<runtime, handles, at, next_object, data, refused, cache_file>>

\* The process ends at any moment; the file stays.
Crash ==
  /\ device' = "none"
  /\ refuses' = NoRefusal
  /\ runtime' = NoRuntime
  /\ handles' = {}
  /\ made' = [o \in AllObjects |-> 0]
  /\ at' = [t \in Threads |-> "idle"]
  /\ next_object' = [t \in Threads |-> 0]
  /\ data' = [t \in Threads |-> "unread"]
  /\ refused' = [t \in Threads |-> FALSE]
  /\ UNCHANGED cache_file

Next ==
  \/ \E t \in Threads :
       \/ CreateDevice(t) \/ UseRuntime(t) \/ LockRuntime(t)
       \/ ReadCacheFile(t) \/ RefuseData(t) \/ MakeObject(t) \/ RefuseObject(t)
       \/ MakePipelines(t) \/ ReturnFromCall(t)
  \/ DestroyDevice \/ PersistCache \/ WriteCache \/ OthersWriteCache
  \/ DestroyRuntime \/ DriverDestroyDevice
  \/ Crash

Spec == Init /\ [][Next]_vars

-----------------------------------------------------------------------------
(* Properties.                                                             *)

\* Whoever initializes the runtime and however far it gets, the driver has exactly one
\* object for each handle the runtime holds: no handle is overwritten, none is stale.
HandlesMatchDriver == \A o \in AllObjects : made[o] = (IF o \in handles THEN 1 ELSE 0)

\* When the driver is asked to destroy the device, nothing that the runtime made on it
\* exists any more (destroy_compute_runtime).
ChildrenGone == device = "gone" => \A o \in AllObjects : made[o] = 0

\* Whatever the cache file holds and whoever writes it meanwhile, also after a crash in
\* the middle of writing it and on a driver that refuses such data, a caller goes without
\* a runtime only if the driver may refuse some object itself
\* (create_runtime_pipeline_cache, initialize_compute_runtime).
OnlyDriverFails == (\E t \in Threads : at[t] = "failed") => refuses.objects # {}

\* "The layer will retry lazily on first BCn decode/copy use": a copy that gets no
\* runtime asked the driver for one.
RetriesLazily == \A t \in Threads : at[t] = "failed" => refused[t]
=============================================================================
