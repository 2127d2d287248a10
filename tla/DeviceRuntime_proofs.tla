------------------------- MODULE DeviceRuntime_proofs -------------------------
(***************************************************************************)
(* Proofs about DeviceRuntime, for any threads and any shader kinds: the   *)
(* runtime's handles are the driver's objects, none is left on a device    *)
(* that goes, and nothing but a driver that may refuse an object leaves a  *)
(* caller without a runtime, whatever the cache file holds.                *)
(* The argument: of the threads that enter initialize_compute_runtime one  *)
(* makes objects, it begins with none, and what it holds is what it has    *)
(* made so far, in order; nobody makes any once they are being destroyed.  *)
(* A caller may also find a runtime that an earlier one gave up: the       *)
(* refusal is then the same device's, because the runtime is forgotten     *)
(* with the device and no thread is in a call while there is none.         *)
(***************************************************************************)
EXTENDS DeviceRuntime, TLAPS

-----------------------------------------------------------------------------
(* The invariant.                                                          *)

Made(n) == {Objects[k] : k \in 1..(n - 1)}

RuntimeTyped ==
  /\ device \in DeviceStates
  /\ refuses \in [objects : SUBSET AllObjects, data : SUBSET Bytes]
  /\ runtime \in [present : BOOLEAN, initialized : BOOLEAN, available : BOOLEAN, dirty : BOOLEAN]
  /\ handles \subseteq AllObjects
  /\ made \in [AllObjects -> Nat]
  /\ at \in [Threads -> {"idle", "lock", "make", "copy", "failed"}]
  /\ next_object \in [Threads -> 0..(Len(Objects) + 1)]
  /\ data \in [Threads -> {"unread", "none"} \union Bytes]
  /\ refused \in [Threads -> BOOLEAN]
  /\ cache_file \in {"none"} \union Bytes

\* One thread makes objects; it holds those before the next one.
OneMaker ==
  /\ \A t, u \in Threads : at[t] = "make" /\ at[u] = "make" => t = u
  /\ \A t \in Threads : at[t] = "make" =>
       runtime.initialized /\ next_object[t] # 0 /\ handles = Made(next_object[t])

\* Handles belong to an initialized runtime of a device that is there, and threads work
\* on a device in use.
OfDevice ==
  /\ ~runtime.initialized => handles = {}
  /\ device \in {"none", "gone"} => ~runtime.initialized
  /\ device \notin {"prewarm", "alive"} => \A t \in Threads : at[t] = "idle"

\* A runtime that nobody is making any more and that is not available was given up for
\* what this device's driver may refuse; so was the one of each caller that has none.
GivenUp ==
  /\ OnlyDriverFails
  /\ runtime.initialized /\ ~runtime.available /\ (\A t \in Threads : at[t] # "make")
       => refuses.objects # {}

RInv == RuntimeTyped /\ OneMaker /\ OfDevice /\ HandlesMatchDriver /\ GivenUp

-----------------------------------------------------------------------------
(* The objects.                                                            *)

\* The objects are five different ones, and no shader kind is one of them.
LEMMA ObjectsFacts ==
  /\ Len(Objects) = 5 /\ DOMAIN Objects = 1..5
  /\ \A m, n \in 1..5 : Objects[m] = Objects[n] => m = n
  /\ \A n \in 1..5 : Objects[n] \in AllObjects /\ Objects[n] \notin Kinds
  /\ Kinds \subseteq AllObjects /\ Kinds # {}
<1>1. Len(Objects) = 5 /\ DOMAIN Objects = 1..5
  BY DEF Objects
<1>2. \A m, n \in 1..5 : Objects[m] = Objects[n] => m = n
  BY DEF Objects
<1>3. ToSet(Objects) = {Objects[n] : n \in 1..5}
  BY <1>1 DEF ToSet
<1> QED
  BY <1>1, <1>2, <1>3, DeviceRuntimeAssumption DEF AllObjects

\* The next object is a new one, and the pipelines are new ones.
LEMMA MadeFacts ==
  /\ Made(1) = {}
  /\ \A n \in 1..5 : Objects[n] \notin Made(n) /\ Made(n + 1) = Made(n) \union {Objects[n]}
  /\ Made(6) \intersect Kinds = {}
<1> USE ObjectsFacts DEF Made
<1>1. Made(1) = {}
  OBVIOUS
<1>2. ASSUME NEW n \in 1..5
      PROVE  Objects[n] \notin Made(n) /\ Made(n + 1) = Made(n) \union {Objects[n]}
  <2>1. \A k \in 1..(n - 1) : k \in 1..5 /\ k # n
    OBVIOUS
  <2>2. 1..((n + 1) - 1) = (1..(n - 1)) \union {n}
    OBVIOUS
  <2> QED
    BY <2>1, <2>2
<1>3. Made(6) \intersect Kinds = {}
  OBVIOUS
<1> QED
  BY <1>1, <1>2, <1>3

\* Making objects one has not: the handles still are the driver's.
LEMMA MakeNew ==
  ASSUME RuntimeTyped, HandlesMatchDriver, NEW S \in SUBSET AllObjects,
         S \intersect handles = {}, Make(S)
  PROVE  /\ handles' \subseteq AllObjects /\ made' \in [AllObjects -> Nat]
         /\ HandlesMatchDriver'
  BY DEF RuntimeTyped, HandlesMatchDriver, Make

-----------------------------------------------------------------------------
(* Every step keeps the invariant.                                         *)

\* Nothing exists at first.
LEMMA InitRInv == Init => RInv
  BY ObjectsFacts
     DEF Init, RInv, RuntimeTyped, OneMaker, OfDevice, HandlesMatchDriver, GivenUp,
         OnlyDriverFails, NoRuntime, NoRefusal, DeviceStates

\* One step for each action.
LEMMA NextRInv == RInv /\ [Next]_vars => RInv'
<1> SUFFICES ASSUME RInv, [Next]_vars PROVE RInv'
  OBVIOUS
<1> USE ObjectsFacts
    DEF RInv, RuntimeTyped, OneMaker, OfDevice, HandlesMatchDriver, GivenUp, OnlyDriverFails,
        DeviceStates
<1>1. ASSUME NEW t \in Threads, CreateDevice(t) PROVE RInv'
  BY <1>1 DEF CreateDevice
<1>2. ASSUME NEW t \in Threads, UseRuntime(t) PROVE RInv'
  BY <1>2 DEF UseRuntime
<1>3. ASSUME NEW t \in Threads, LockRuntime(t) PROVE RInv'
  <2>1. /\ at[t] = "lock" /\ \A u \in Threads : at[u] # "make"
        /\ UNCHANGED <<device, refuses, handles, made, data, refused, cache_file>>
    BY <1>3 DEF LockRuntime
  <2>2. CASE runtime.initialized
    <3>1. /\ at' = [at EXCEPT ![t] = IF runtime.available THEN "copy" ELSE "failed"]
          /\ UNCHANGED <<runtime, next_object>>
      BY <1>3, <2>2 DEF LockRuntime, Answer
    <3>2. OnlyDriverFails'
      BY <2>1, <2>2, <3>1
    <3> QED
      BY <2>1, <2>2, <3>1, <3>2
  <2>3. CASE ~runtime.initialized
    <3>1. /\ runtime' = [runtime EXCEPT !.initialized = TRUE, !.available = FALSE, !.dirty = FALSE]
          /\ next_object' = [next_object EXCEPT ![t] = 1]
          /\ at' = [at EXCEPT ![t] = "make"]
      BY <1>3, <2>3 DEF LockRuntime, Start
    <3>2. handles = Made(1)
      BY <2>3, MadeFacts
    <3>3. runtime'.initialized
            /\ runtime' \in [present : BOOLEAN, initialized : BOOLEAN,
                             available : BOOLEAN, dirty : BOOLEAN]
      BY <3>1
    <3>4. device \in {"prewarm", "alive"}
      BY <2>1
    <3>5. at' \in [Threads -> {"idle", "lock", "make", "copy", "failed"}]
            /\ next_object' \in [Threads -> 0..(Len(Objects) + 1)]
      BY <3>1
    <3>6. OneMaker'
      BY <2>1, <3>1, <3>2, <3>3
    <3>7. GivenUp'
      BY <2>1, <3>1
    <3> QED
      BY <2>1, <3>3, <3>4, <3>5, <3>6, <3>7
  <2> QED
    BY <2>2, <2>3
<1>4. ASSUME NEW t \in Threads, ReadCacheFile(t) PROVE RInv'
  <2>1. PICK bytes \in {"none"} \union Bytes : data' = [data EXCEPT ![t] = bytes]
    BY <1>4 DEF ReadCacheFile, Bytes
  <2>2. data' \in [Threads -> {"unread", "none"} \union Bytes]
    BY <2>1
  <2> QED
    BY <1>4, <2>2 DEF ReadCacheFile
<1>5. ASSUME NEW t \in Threads, RefuseData(t) PROVE RInv'
  BY <1>5 DEF RefuseData
<1>6. ASSUME NEW t \in Threads, MakeObject(t) PROVE RInv'
  <2>1. PICK n \in 1..5 : /\ at[t] = "make" /\ next_object[t] = n
                          /\ Make({Objects[n]})
                          /\ next_object' = [next_object EXCEPT ![t] = n + 1]
    BY <1>6 DEF MakeObject, Asks, Making
  <2>2. Objects[n] \notin handles /\ handles' = Made(n + 1)
    BY <2>1, MadeFacts DEF Make
  <2>3. /\ handles' \subseteq AllObjects /\ made' \in [AllObjects -> Nat]
        /\ HandlesMatchDriver'
    BY <2>1, <2>2, MakeNew
  <2> QED
    BY <1>6, <2>1, <2>2, <2>3 DEF MakeObject
<1>7. ASSUME NEW t \in Threads, RefuseObject(t) PROVE RInv'
  <2>1. refuses.objects # {} /\ at[t] = "make"
    BY <1>7 DEF RefuseObject, Asks, Making
  <2>2. GivenUp'
    BY <1>7, <2>1 DEF RefuseObject
  <2> QED
    BY <1>7, <2>1, <2>2 DEF RefuseObject, Answer
<1>8. ASSUME NEW t \in Threads, MakePipelines(t) PROVE RInv'
  <2>1. PICK S \in SUBSET Kinds :
          /\ Kinds \ S \subseteq refuses.objects
          /\ Make(S)
          /\ runtime' = [runtime EXCEPT !.available = S # {}, !.dirty = S # {}]
          /\ refused' = [refused EXCEPT ![t] = @ \/ S # Kinds]
          /\ Answer(t, S # {})
    BY <1>8 DEF MakePipelines
  <2>2. /\ at[t] = "make" /\ handles = Made(6) /\ device \in {"prewarm", "alive"}
        /\ UNCHANGED <<device, refuses, data, cache_file>>
    BY <1>8 DEF MakePipelines, Making
  <2>3. /\ handles' \subseteq AllObjects /\ made' \in [AllObjects -> Nat]
        /\ HandlesMatchDriver'
    <3>1. S \intersect handles = {} /\ S \in SUBSET AllObjects
      BY <2>2, MadeFacts
    <3> QED
      BY <2>1, <3>1, MakeNew
  <2>4. at' \in [Threads -> {"idle", "lock", "make", "copy", "failed"}]
        /\ \A u \in Threads : at'[u] # "make"
    BY <2>1, <2>2 DEF Answer
  <2>5. runtime' \in [present : BOOLEAN, initialized : BOOLEAN,
                      available : BOOLEAN, dirty : BOOLEAN]
        /\ runtime'.initialized
    BY <2>1, <2>2
  <2>6. refused' \in [Threads -> BOOLEAN]
        /\ next_object' \in [Threads -> 0..(Len(Objects) + 1)]
    BY <1>8, <2>1 DEF MakePipelines
  <2>7. GivenUp'
    <3>1. CASE S = {}
      BY <2>1, <2>2, <3>1
    <3>2. CASE S # {}
      <4>1. runtime'.available
        BY <2>1, <3>2
      <4>2. at' = [at EXCEPT ![t] = "copy"]
        BY <2>1, <3>2 DEF Answer
      <4> QED
        BY <2>2, <4>1, <4>2
    <3> QED
      BY <3>1, <3>2
  <2> QED
    BY <2>2, <2>3, <2>4, <2>5, <2>6, <2>7
<1>9. ASSUME NEW t \in Threads, ReturnFromCall(t) PROVE RInv'
  BY <1>9 DEF ReturnFromCall
<1>10. CASE DestroyDevice
  BY <1>10 DEF DestroyDevice
<1>11. CASE PersistCache
  BY <1>11 DEF PersistCache
<1>12. CASE WriteCache
  BY <1>12 DEF WriteCache, Bytes
<1>13. CASE OthersWriteCache
  BY <1>13 DEF OthersWriteCache
<1>14. CASE DestroyRuntime
  BY <1>14 DEF DestroyRuntime, NoRuntime
<1>15. CASE DriverDestroyDevice
  BY <1>15 DEF DriverDestroyDevice, NoRefusal
<1>16. CASE Crash
  BY <1>16 DEF Crash, NoRuntime, NoRefusal
<1>17. CASE UNCHANGED vars
  BY <1>17 DEF vars
<1> HIDE DEF RInv
<1> QED
  BY <1>1, <1>2, <1>3, <1>4, <1>5, <1>6, <1>7, <1>8, <1>9, <1>10, <1>11, <1>12,
     <1>13, <1>14, <1>15, <1>16, <1>17 DEF Next

\* The inductive invariant.
LEMMA AlwaysRInv == Spec => []RInv
  BY InitRInv, NextRInv, PTL DEF Spec

-----------------------------------------------------------------------------
(* The theorems.                                                           *)

\* The variables have their types; there is never more than one object of a kind.
THEOREM TypeAlways == Spec => []TypeOK
<1>1. RInv => TypeOK
  <2> SUFFICES ASSUME RInv PROVE made \in [AllObjects -> 0..1]
    BY DEF RInv, RuntimeTyped, TypeOK
  <2> QED
    BY DEF RInv, RuntimeTyped, HandlesMatchDriver
<1> QED
  BY <1>1, AlwaysRInv, PTL

\* Whoever initializes the runtime, however far it gets and whatever crashes, the driver has
\* one object for each handle the runtime holds, for any number of threads that race for it.
THEOREM HandlesAlwaysMatch == Spec => []HandlesMatchDriver
<1>1. RInv => HandlesMatchDriver
  BY DEF RInv
<1> QED
  BY <1>1, AlwaysRInv, PTL

\* Nothing the runtime made is left when the driver destroys the device
\* (destroy_compute_runtime before vkDestroyDevice), wherever initialization stopped.
THEOREM ChildrenAlwaysGone == Spec => []ChildrenGone
<1>1. RInv => ChildrenGone
  BY DEF RInv, OfDevice, HandlesMatchDriver, ChildrenGone
<1> QED
  BY <1>1, AlwaysRInv, PTL

\* No content of the cache file, whole, torn by a crash or another process's, and no
\* refusal of such content costs a caller the runtime: only a refusal of an object does,
\* also the one met by a caller before it (create_runtime_pipeline_cache).
THEOREM OnlyDriverEverFails == Spec => []OnlyDriverFails
<1>1. RInv => OnlyDriverFails
  BY DEF RInv, GivenUp
<1> QED
  BY <1>1, AlwaysRInv, PTL
=============================================================================
