------------------------- MODULE VirtualImages_proofs -------------------------
(***************************************************************************)
(* Proofs about VirtualImages, for any threads, images and retry interval: *)
(* its type invariant, that the maps agree with the driver, and that no    *)
(* virtual image gets foreign bytes; and, for two threads, how many copies *)
(* of an image can be skipped in a row.                                    *)
(***************************************************************************)
EXTENDS VirtualImages, TLAPS

\* The handle a thread is creating or destroying is no application's business.
Private(t) == at[t] \in {"track", "driver_destroy"}
Copying(t) == at[t] \in {"skip", "unblock", "decode", "block", "check"}
Transferring(t) == at[t] \in {"special", "route"}

\* An image has one owner: the application, or the one thread that makes or destroys it.
OneOwner ==
  /\ \A t \in Threads : Private(t) =>
       /\ job[t].dst \in Images \ known
       /\ format[job[t].dst] # "none"
       /\ \A u \in Threads : Private(u) /\ job[u].dst = job[t].dst => u = t
  /\ \A t \in Threads : Copying(t) \/ Transferring(t) => job[t].dst \in known
  /\ \A t \in Threads : Transferring(t) => job[t].src \in known

\* What the maps say, image by image.
MapsOf(i) ==
  IF i \in known
    THEN format[i] # "none" /\ tracked[i] = format[i] /\ (i \in virtual <=> Replaced(i))
    ELSE tracked[i] = "none" /\ i \notin virtual

\* A transfer that may go to the driver as it is has two images of one format, or none
\* that is virtual; the images cannot change while it is under way.
NativeOf(t) ==
  Transferring(t) /\ job[t].native =>
    \/ format[job[t].src] = format[job[t].dst]
    \/ ~Replaced(job[t].src) /\ ~Replaced(job[t].dst)
NativeSound == \A t \in Threads : NativeOf(t)

\* Only a count that was raised and is below the interval is stored.
CountsBounded == \A t \in Threads : at[t] = "skip" => job[t].count \in 1 .. RetryInterval - 1

IInv ==
  /\ TypeOK
  /\ OneOwner
  /\ \A i \in Images : MapsOf(i)
  /\ NativeSound
  /\ CountsBounded

-----------------------------------------------------------------------------

\* The parts of the type invariant that take records.
Job == [dst : Images \union {NoImage}, src : Images \union {NoImage}, count : Nat, native : BOOLEAN]
State == [blocked : BOOLEAN, count : 0..(RetryInterval - 1)]
Transfer == [from : Formats \union {"none"}, to : Formats \union {"none"}, virtual : BOOLEAN]
HandlersTyped == at \in [Threads -> Steps] /\ job \in [Threads -> Job]

LEMMA JobTypes ==
  /\ NoJob \in Job
  /\ \A i \in Images : [NoJob EXCEPT !.dst = i] \in Job
  /\ \A i \in Images, c \in Nat : [NoJob EXCEPT !.dst = i, !.count = c] \in Job
  /\ \A i, j \in Images, b \in BOOLEAN : [NoJob EXCEPT !.dst = i, !.src = j, !.native = b] \in Job
  BY DEF Job, NoJob

LEMMA StateTypes ==
  /\ NoState \in State
  /\ \A c \in 0..(RetryInterval - 1) : [blocked |-> TRUE, count |-> c] \in State
  BY VirtualImagesAssumption, Z3 DEF NoState, State

LEMMA TransferTypes ==
  /\ NoTransfer \in Transfer
  /\ \A f, g \in Formats \union {"none"}, b \in BOOLEAN :
       [from |-> f, to |-> g, virtual |-> b] \in Transfer
  BY DEF NoTransfer, Transfer

LEMMA BeginTyped ==
  ASSUME HandlersTyped, NEW t, NEW s \in Steps, NEW j \in Job, Begin(t, s, j)
  PROVE  HandlersTyped'
  BY DEF HandlersTyped, Begin

LEMMA GotoTyped ==
  ASSUME HandlersTyped, NEW t, NEW s \in Steps, Goto(t, s)
  PROVE  HandlersTyped'
  BY DEF HandlersTyped, Goto

LEMMA ReturnTyped ==
  ASSUME HandlersTyped, NEW t, Return(t)
  PROVE  HandlersTyped'
  BY BeginTyped, JobTypes DEF Return, Steps

\* The type invariant in these terms.
Typed ==
  /\ format \in [Images -> Formats \union {"none"}]
  /\ asked \in [Images -> Formats \union {"none"}]
  /\ known \subseteq Images
  /\ sent \in [Threads -> Transfer]
  /\ skipped \in [Images -> 0..MaxSkipped]
  /\ virtual \subseteq Images
  /\ tracked \in [Images -> Formats \union {"none"}]
  /\ decode_state \in [Images -> State]
  /\ HandlersTyped

LEMMA TypeParts == (TypeOK <=> Typed) /\ (TypeOK' <=> Typed')
  BY DEF TypeOK, Typed, Transfer, State, Job, HandlersTyped

LEMMA TypeInit == Init => TypeOK
<1> SUFFICES ASSUME Init PROVE TypeOK
  OBVIOUS
<1>1. sent \in [Threads -> Transfer] /\ decode_state \in [Images -> State]
  BY TransferTypes, StateTypes DEF Init
<1>2. HandlersTyped
  BY JobTypes DEF Init, HandlersTyped, Steps
<1>3. skipped \in [Images -> 0..MaxSkipped]
  BY VirtualImagesAssumption DEF Init
<1> QED
  BY <1>1, <1>2, <1>3, TypeParts DEF Init, Typed

LEMMA TypeNext == IInv /\ [Next]_vars => TypeOK'
<1> SUFFICES ASSUME IInv, [Next]_vars PROVE Typed'
  BY TypeParts
<1>a. Typed /\ OneOwner /\ CountsBounded /\ HandlersTyped
  BY TypeParts DEF IInv, Typed
<1>b. \A t \in Threads : job[t].count \in Nat
  BY <1>a DEF Typed, HandlersTyped, Job
<1>c. \A t \in Threads : Copying(t) \/ Transferring(t) => job[t].dst \in Images
  BY <1>a DEF Typed, OneOwner
<1>d. \A i : Replaced(i) \in BOOLEAN
  BY DEF Replaced
<1> USE <1>a DEF Typed, app_vars, maps
<1>1. ASSUME NEW t \in Threads, NEW i \in Images, NEW f \in Formats, NEW real \in Formats,
             CreateImage(t, i, f, real)
      PROVE Typed'
  <2>1. HandlersTyped'
    BY <1>1, BeginTyped, JobTypes DEF CreateImage, Steps
  <2>2. skipped' \in [Images -> 0..MaxSkipped]
    BY <1>1, VirtualImagesAssumption DEF CreateImage
  <2> QED
    BY <1>1, <2>1, <2>2 DEF CreateImage
<1>2. ASSUME NEW t \in Threads, TrackImage(t) PROVE Typed'
  <2>1. job[t].dst \in Images /\ HandlersTyped' /\ NoState \in State
    BY <1>2, ReturnTyped, StateTypes DEF TrackImage, OneOwner, Private
  <2> QED
    BY <1>2, <2>1 DEF TrackImage
<1>3. ASSUME NEW t \in Threads, NEW i \in Images, DestroyImage(t, i) PROVE Typed'
  <2>1. HandlersTyped' /\ NoState \in State
    BY <1>3, BeginTyped, JobTypes, StateTypes DEF DestroyImage, Steps
  <2> QED
    BY <1>3, <2>1 DEF DestroyImage
<1>4. ASSUME NEW t \in Threads, DriverDestroyImage(t) PROVE Typed'
  <2>1. HandlersTyped'
    BY <1>4, ReturnTyped DEF DriverDestroyImage
  <2> QED
    BY <1>4, <2>1 DEF DriverDestroyImage
<1>5. ASSUME NEW t \in Threads, NEW i \in Images, CopyBufferToImage(t, i) PROVE Typed'
  <2>1. decode_state[i].count + 1 \in Nat
    BY StateTypes, VirtualImagesAssumption DEF State
  <2>2. HandlersTyped' /\ NoTransfer \in Transfer
    BY <1>5, <2>1, BeginTyped, JobTypes, TransferTypes DEF CopyBufferToImage, Steps
  <2> QED
    BY <1>5, <2>2 DEF CopyBufferToImage, NoForward
<1>6. ASSUME NEW t \in Threads, SkipCopy(t) PROVE Typed'
  <2>1. HandlersTyped'
    BY <1>6, GotoTyped DEF SkipCopy, Steps
  <2>2. job[t].count \in 0..(RetryInterval - 1)
    BY <1>6, <1>b, VirtualImagesAssumption DEF SkipCopy, CountsBounded
  <2>3. decode_state' \in [Images -> State]
    BY <1>6, <2>2, StateTypes DEF SkipCopy
  <2>4. skipped' \in [Images -> 0..MaxSkipped]
    BY <1>6, <1>c, VirtualImagesAssumption DEF SkipCopy, Copying
  <2> QED
    BY <1>6, <2>1, <2>3, <2>4 DEF SkipCopy
<1>7. ASSUME NEW t \in Threads, UnblockImage(t) PROVE Typed'
  <2>1. HandlersTyped' /\ NoState \in State
    BY <1>7, GotoTyped, StateTypes DEF UnblockImage, Steps
  <2> QED
    BY <1>7, <2>1 DEF UnblockImage
<1>8. ASSUME NEW t \in Threads, Decode(t) PROVE Typed'
  <2>1. HandlersTyped'
    BY <1>8, GotoTyped, ReturnTyped DEF Decode, Steps
  <2>2. skipped' \in [Images -> 0..MaxSkipped]
    BY <1>8, <1>c, VirtualImagesAssumption DEF Decode, Copying
  <2> QED
    BY <1>8, <2>1, <2>2 DEF Decode
<1>9. ASSUME NEW t \in Threads, BlockImage(t) PROVE Typed'
  <2>1. HandlersTyped'
    BY <1>9, GotoTyped DEF BlockImage, Steps
  <2>2. decode_state' \in [Images -> State]
    BY <1>9, <1>c, StateTypes, VirtualImagesAssumption DEF BlockImage, Copying
  <2> QED
    BY <1>9, <2>1, <2>2 DEF BlockImage
<1>10. ASSUME NEW t \in Threads, ForwardCopy(t) PROVE Typed'
  <2>1. HandlersTyped' /\ job[t].dst \in Images
    BY <1>10, ReturnTyped DEF ForwardCopy, OneOwner, Copying
  <2>2. sent' \in [Threads -> Transfer]
    BY <1>10, <1>d, <2>1, TransferTypes DEF ForwardCopy, NoForward
  <2> QED
    BY <1>10, <2>1, <2>2 DEF ForwardCopy
<1>11. ASSUME NEW t \in Threads, NEW src \in Images, NEW dst \in Images,
              TransferImage(t, src, dst)
       PROVE Typed'
  <2>1. CanCopyReal(src, dst) \in BOOLEAN
    BY DEF CanCopyReal
  <2>2. HandlersTyped' /\ NoTransfer \in Transfer
    BY <1>11, <2>1, BeginTyped, JobTypes, TransferTypes DEF TransferImage, Steps
  <2> QED
    BY <1>11, <2>2 DEF TransferImage, NoForward
<1>12. ASSUME NEW t \in Threads, TranslateTransfer(t) PROVE Typed'
  <2>1. HandlersTyped'
    BY <1>12, GotoTyped, ReturnTyped DEF TranslateTransfer, Steps
  <2> QED
    BY <1>12, <2>1 DEF TranslateTransfer
<1>13. ASSUME NEW t \in Threads, RouteTransfer(t) PROVE Typed'
  <2>1. HandlersTyped' /\ job[t].src \in Images /\ job[t].dst \in Images
    BY <1>13, ReturnTyped DEF RouteTransfer, OneOwner, Transferring
  <2>2. sent' \in [Threads -> Transfer]
    BY <1>13, <1>d, <2>1, TransferTypes DEF RouteTransfer, NoForward
  <2> QED
    BY <1>13, <2>1, <2>2 DEF RouteTransfer
<1>14. CASE UNCHANGED vars
  BY <1>14 DEF vars, HandlersTyped
<1> QED
  BY <1>1, <1>2, <1>3, <1>4, <1>5, <1>6, <1>7, <1>8, <1>9, <1>10, <1>11, <1>12, <1>13, <1>14
     DEF Next, Step

LEMMA OwnerNext == IInv /\ [Next]_vars => OneOwner'
<1> SUFFICES ASSUME IInv, [Next]_vars PROVE OneOwner'
  OBVIOUS
<1> USE DEF IInv, TypeOK, OneOwner, MapsOf, Private, Copying, Transferring, app_vars, maps
<1>1. ASSUME NEW t \in Threads, NEW i \in Images, NEW f \in Formats, NEW real \in Formats, CreateImage(t, i, f, real)
      PROVE  OneOwner'
  <2>1. i \notin known /\ real # "none"
    BY <1>1 DEF CreateImage, Formats
  <2>2. /\ at'[t] = "track" /\ job'[t].dst = i
        /\ \A u \in Threads \ {t} : at'[u] = at[u] /\ job'[u] = job[u]
    BY <1>1 DEF CreateImage, Begin, NoJob
  <2>3. /\ format[i] = "none" /\ format'[i] = real /\ known' = known
        /\ \A j \in Images \ {i} : format'[j] = format[j]
    BY <1>1 DEF CreateImage
  <2> HIDE DEF TypeOK, MapsOf
  <2> QED
    BY <2>1, <2>2, <2>3
<1>2. ASSUME NEW t \in Threads, TrackImage(t)
      PROVE  OneOwner'
  BY <1>2 DEF TrackImage, Begin, Return, NoJob
<1>3. ASSUME NEW t \in Threads, NEW i \in Images, DestroyImage(t, i)
      PROVE  OneOwner'
  BY <1>3 DEF DestroyImage, Begin, NoJob, InUse
<1>4. ASSUME NEW t \in Threads, DriverDestroyImage(t)
      PROVE  OneOwner'
  BY <1>4 DEF DriverDestroyImage, Begin, Return, NoJob
<1>5. ASSUME NEW t \in Threads, NEW i \in Images, CopyBufferToImage(t, i)
      PROVE  OneOwner'
  <2>1. /\ \E s \in {"check", "decode", "skip", "unblock"} : at' = [at EXCEPT ![t] = s]
        /\ job'[t].dst = i /\ \A u \in Threads \ {t} : job'[u] = job[u]
        /\ UNCHANGED <<known, format>> /\ i \in known
    BY <1>5 DEF CopyBufferToImage, Begin, NoJob
  <2>2. /\ at'[t] \in {"check", "decode", "skip", "unblock"}
        /\ \A u \in Threads \ {t} : at'[u] = at[u]
        /\ known' = known /\ format' = format
    BY <2>1
  <2> HIDE DEF TypeOK, MapsOf
  <2>3. \A u \in Threads : Private(u)' => Private(u) /\ job'[u] = job[u]
    BY <2>1, <2>2
  <2>4. \A u \in Threads : Transferring(u)' => Transferring(u) /\ job'[u] = job[u]
    BY <2>1, <2>2
  <2>5. \A u \in Threads : Copying(u)' => job'[u].dst \in known
    BY <2>1, <2>2
  <2> QED
    BY <2>2, <2>3, <2>4, <2>5
<1>6. ASSUME NEW t \in Threads, SkipCopy(t)
      PROVE  OneOwner'
  BY <1>6 DEF SkipCopy, Goto
<1>7. ASSUME NEW t \in Threads, UnblockImage(t)
      PROVE  OneOwner'
  BY <1>7 DEF UnblockImage, Goto
<1>8. ASSUME NEW t \in Threads, Decode(t)
      PROVE  OneOwner'
  <2>1. CASE Return(t)
    BY <1>8, <2>1 DEF Decode, Begin, Return, NoJob
  <2>2. CASE Goto(t, "block")
    BY <1>8, <2>2 DEF Decode, Goto
  <2> QED
    BY <1>8, <2>1, <2>2 DEF Decode
<1>9. ASSUME NEW t \in Threads, BlockImage(t)
      PROVE  OneOwner'
  BY <1>9 DEF BlockImage, Goto
<1>10. ASSUME NEW t \in Threads, ForwardCopy(t)
      PROVE  OneOwner'
  BY <1>10 DEF ForwardCopy, Begin, Return, NoJob
<1>11. ASSUME NEW t \in Threads, NEW src \in Images, NEW dst \in Images, TransferImage(t, src, dst)
      PROVE  OneOwner'
  BY <1>11 DEF TransferImage, Begin, NoJob
<1>12. ASSUME NEW t \in Threads, TranslateTransfer(t)
      PROVE  OneOwner'
  <2>1. CASE Return(t)
    BY <1>12, <2>1 DEF TranslateTransfer, Begin, Return, NoJob
  <2>2. CASE Goto(t, "route")
    BY <1>12, <2>2 DEF TranslateTransfer, Goto
  <2> QED
    BY <1>12, <2>1, <2>2 DEF TranslateTransfer
<1>13. ASSUME NEW t \in Threads, RouteTransfer(t)
      PROVE  OneOwner'
  BY <1>13 DEF RouteTransfer, Begin, Return, NoJob
<1>14. CASE UNCHANGED vars
  BY <1>14 DEF vars
<1> QED
  BY <1>1, <1>2, <1>3, <1>4, <1>5, <1>6, <1>7, <1>8, <1>9, <1>10, <1>11, <1>12, <1>13, <1>14
     DEF Next, Step

\* Only the creation and the destruction of an image change what MapsOf speaks of.
LEMMA MapsNext == IInv /\ [Next]_vars => (\A j \in Images : MapsOf(j))'
<1> SUFFICES ASSUME IInv, [Next]_vars, NEW j \in Images PROVE MapsOf(j)'
  OBVIOUS
<1> USE DEF app_vars, maps
<1>a. /\ format \in [Images -> Formats \union {"none"}] /\ asked \in [Images -> Formats \union {"none"}]
      /\ tracked \in [Images -> Formats \union {"none"}] /\ OneOwner /\ MapsOf(j)
  BY DEF IInv, TypeOK
<1>1. ASSUME NEW t \in Threads, NEW i \in Images, NEW f \in Formats, NEW real \in Formats,
             CreateImage(t, i, f, real)
      PROVE  MapsOf(j)'
  BY <1>1, <1>a DEF CreateImage, MapsOf, Replaced
<1>2. ASSUME NEW t \in Threads, TrackImage(t)
      PROVE  MapsOf(j)'
  <2>1. job[t].dst \in Images /\ format[job[t].dst] # "none" /\ job[t].dst \notin known
    BY <1>2, <1>a DEF TrackImage, OneOwner, Private
  <2> QED
    BY <1>2, <1>a, <2>1 DEF TrackImage, MapsOf, Replaced
<1>3. ASSUME NEW t \in Threads, NEW i \in Images, DestroyImage(t, i)
      PROVE  MapsOf(j)'
  BY <1>3, <1>a DEF DestroyImage, MapsOf, Replaced
<1>4. ASSUME NEW t \in Threads, DriverDestroyImage(t)
      PROVE  MapsOf(j)'
  <2>1. job[t].dst \in Images \ known
    BY <1>4, <1>a DEF DriverDestroyImage, OneOwner, Private
  <2> QED
    BY <1>4, <1>a, <2>1 DEF DriverDestroyImage, MapsOf, Replaced
<1>5. ASSUME UNCHANGED <<app_vars, virtual, tracked>>
      PROVE  MapsOf(j)'
  BY <1>5, <1>a DEF MapsOf, Replaced
<1>6. ASSUME NEW t \in Threads,
             SkipCopy(t) \/ UnblockImage(t) \/ Decode(t) \/ BlockImage(t) \/ ForwardCopy(t)
               \/ TranslateTransfer(t) \/ RouteTransfer(t)
      PROVE  UNCHANGED <<app_vars, virtual, tracked>>
  BY <1>6 DEF SkipCopy, UnblockImage, Decode, BlockImage, ForwardCopy, TranslateTransfer, RouteTransfer
<1>7. ASSUME NEW t \in Threads, NEW i \in Images, NEW src \in Images,
             CopyBufferToImage(t, i) \/ TransferImage(t, src, i)
      PROVE  UNCHANGED <<app_vars, virtual, tracked>>
  BY <1>7 DEF CopyBufferToImage, TransferImage
<1>8. ASSUME UNCHANGED vars
      PROVE  UNCHANGED <<app_vars, virtual, tracked>>
  BY <1>8 DEF vars
<1> QED
  BY <1>1, <1>2, <1>3, <1>4, <1>5, <1>6, <1>7, <1>8 DEF Next, Step

\* A known image keeps its format and what the application asked for.
LEMMA KnownUnchanged ==
  IInv /\ [Next]_vars => \A i \in known : format'[i] = format[i] /\ asked'[i] = asked[i]
<1> SUFFICES ASSUME IInv, [Next]_vars, NEW j \in known
             PROVE  format'[j] = format[j] /\ asked'[j] = asked[j]
  OBVIOUS
<1> USE DEF app_vars, maps
<1>a. /\ format \in [Images -> Formats \union {"none"}] /\ asked \in [Images -> Formats \union {"none"}]
      /\ j \in Images /\ OneOwner /\ MapsOf(j)
  BY DEF IInv, TypeOK
<1>1. ASSUME NEW t \in Threads, NEW i \in Images, NEW f \in Formats, NEW real \in Formats,
             CreateImage(t, i, f, real)
      PROVE  format'[j] = format[j] /\ asked'[j] = asked[j]
  BY <1>1, <1>a DEF CreateImage, MapsOf
<1>2. ASSUME NEW t \in Threads, DriverDestroyImage(t)
      PROVE  format'[j] = format[j] /\ asked'[j] = asked[j]
  BY <1>2, <1>a DEF DriverDestroyImage, OneOwner, Private
<1>3. ASSUME NEW t \in Threads,
             TrackImage(t) \/ SkipCopy(t) \/ UnblockImage(t) \/ Decode(t) \/ BlockImage(t)
               \/ ForwardCopy(t) \/ TranslateTransfer(t) \/ RouteTransfer(t)
      PROVE  UNCHANGED <<format, asked>>
  BY <1>3 DEF TrackImage, SkipCopy, UnblockImage, Decode, BlockImage, ForwardCopy, TranslateTransfer,
              RouteTransfer
<1>4. ASSUME NEW t \in Threads, NEW i \in Images, NEW src \in Images,
             DestroyImage(t, i) \/ CopyBufferToImage(t, i) \/ TransferImage(t, src, i)
      PROVE  UNCHANGED <<format, asked>>
  BY <1>4 DEF DestroyImage, CopyBufferToImage, TransferImage
<1>5. ASSUME UNCHANGED vars
      PROVE  UNCHANGED <<format, asked>>
  BY <1>5 DEF vars
<1> QED
  BY <1>1, <1>2, <1>3, <1>4, <1>5 DEF Next, Step

\* The steps into and within a transfer.
LEMMA TransferSteps ==
  IInv /\ [Next]_vars =>
    \A u \in Threads : Transferring(u)' =>
      \/ Transferring(u) /\ job'[u] = job[u]
      \/ \E src, dst \in known :
           /\ job'[u].src = src /\ job'[u].dst = dst /\ job'[u].native = CanCopyReal(src, dst)
           /\ UNCHANGED app_vars
<1> SUFFICES ASSUME IInv, [Next]_vars, NEW u \in Threads, Transferring(u)'
             PROVE  \/ Transferring(u) /\ job'[u] = job[u]
                    \/ \E src, dst \in known :
                         /\ job'[u].src = src /\ job'[u].dst = dst
                         /\ job'[u].native = CanCopyReal(src, dst)
                         /\ UNCHANGED app_vars
  OBVIOUS
<1> DEFINE Stays == Transferring(u) /\ job'[u] = job[u]
<1>a. at \in [Threads -> Steps] /\ job \in [Threads -> Job]
  BY DEF IInv, TypeOK, Job
<1> USE <1>a DEF Transferring
<1>1. ASSUME NEW t \in Threads, NEW i \in Images, NEW f \in Formats, NEW real \in Formats,
             CreateImage(t, i, f, real)
      PROVE  Stays
  BY <1>1 DEF CreateImage, Begin
<1>2. ASSUME NEW t \in Threads,
             TrackImage(t) \/ DriverDestroyImage(t) \/ ForwardCopy(t) \/ RouteTransfer(t)
      PROVE  Stays
  BY <1>2 DEF TrackImage, DriverDestroyImage, ForwardCopy, RouteTransfer, Return, Begin
<1>3. ASSUME NEW t \in Threads, SkipCopy(t) \/ UnblockImage(t) \/ BlockImage(t)
      PROVE  Stays
  BY <1>3 DEF SkipCopy, UnblockImage, BlockImage, Goto
<1>4. ASSUME NEW t \in Threads, Decode(t)
      PROVE  Stays
  BY <1>4 DEF Decode, Return, Begin, Goto
<1>5. ASSUME NEW t \in Threads, TranslateTransfer(t)
      PROVE  Stays
  BY <1>5 DEF TranslateTransfer, Return, Begin, Goto
<1>6. ASSUME NEW t \in Threads, NEW i \in Images, DestroyImage(t, i) \/ CopyBufferToImage(t, i)
      PROVE  Stays
  BY <1>6 DEF DestroyImage, CopyBufferToImage, Begin
<1>7. ASSUME NEW t \in Threads, NEW src \in Images, NEW dst \in Images, TransferImage(t, src, dst)
      PROVE  \/ Stays
             \/ /\ job'[u].src = src /\ job'[u].dst = dst /\ job'[u].native = CanCopyReal(src, dst)
                /\ src \in known /\ dst \in known /\ UNCHANGED app_vars
  BY <1>7 DEF TransferImage, Begin, NoJob
<1>8. ASSUME UNCHANGED vars
      PROVE  Stays
  BY <1>8 DEF vars
<1> HIDE DEF Stays
<1>9. Stays \/ \E src, dst \in known :
                 /\ job'[u].src = src /\ job'[u].dst = dst /\ job'[u].native = CanCopyReal(src, dst)
                 /\ UNCHANGED app_vars
  BY <1>1, <1>2, <1>3, <1>4, <1>5, <1>6, <1>7, <1>8 DEF Next, Step
<1> QED
  BY <1>9 DEF Stays

LEMMA NativeNext == IInv /\ [Next]_vars => NativeSound'
<1> SUFFICES ASSUME IInv, [Next]_vars, NEW u \in Threads, Transferring(u)'
             PROVE  NativeOf(u)'
  BY DEF NativeSound, NativeOf
<1>1. CASE Transferring(u) /\ job'[u] = job[u]
  <2>1. /\ job[u].src \in known /\ job[u].dst \in known
        /\ NativeOf(u)
    BY <1>1 DEF IInv, OneOwner, NativeSound
  <2>2. /\ format'[job[u].src] = format[job[u].src] /\ asked'[job[u].src] = asked[job[u].src]
        /\ format'[job[u].dst] = format[job[u].dst] /\ asked'[job[u].dst] = asked[job[u].dst]
    BY <2>1, KnownUnchanged
  <2> QED
    BY <1>1, <2>1, <2>2 DEF NativeOf, Replaced
<1>2. ASSUME NEW src \in known, NEW dst \in known,
             job'[u].src = src, job'[u].dst = dst, job'[u].native = CanCopyReal(src, dst),
             UNCHANGED app_vars
      PROVE  NativeOf(u)'
  <2>1. MapsOf(src) /\ MapsOf(dst)
    BY DEF IInv, TypeOK
  <2>2. CanCopyReal(src, dst) => format[src] = format[dst] \/ (~Replaced(src) /\ ~Replaced(dst))
    <3>1. {src, dst} \intersect virtual = {} => src \notin virtual /\ dst \notin virtual
      OBVIOUS
    <3> QED
      BY <2>1, <3>1 DEF CanCopyReal, MapsOf, Replaced
  <2>3. format' = format /\ asked' = asked
    BY <1>2 DEF app_vars
  <2>4. job'[u].native => format'[src] = format'[dst] \/ (~Replaced(src)' /\ ~Replaced(dst)')
    BY <1>2, <2>2, <2>3 DEF Replaced
  <2> QED
    BY <1>2, <2>3, <2>4 DEF NativeOf, Replaced
<1> QED
  BY <1>1, <1>2, TransferSteps

LEMMA CountsNext == IInv /\ [Next]_vars => CountsBounded'
<1> SUFFICES ASSUME IInv, [Next]_vars, NEW u \in Threads, at'[u] = "skip"
             PROVE  job'[u].count \in 1 .. RetryInterval - 1
  BY DEF CountsBounded
<1>a. at \in [Threads -> Steps] /\ job \in [Threads -> Job] /\ CountsBounded
  BY DEF IInv, TypeOK, Job
<1> USE <1>a DEF CountsBounded
<1>1. ASSUME NEW t \in Threads, NEW i \in Images, NEW f \in Formats, NEW real \in Formats,
             CreateImage(t, i, f, real)
      PROVE  job'[u].count \in 1 .. RetryInterval - 1
  BY <1>1 DEF CreateImage, Begin
<1>2. ASSUME NEW t \in Threads,
             TrackImage(t) \/ DriverDestroyImage(t) \/ ForwardCopy(t) \/ RouteTransfer(t)
      PROVE  job'[u].count \in 1 .. RetryInterval - 1
  BY <1>2 DEF TrackImage, DriverDestroyImage, ForwardCopy, RouteTransfer, Return, Begin
<1>3. ASSUME NEW t \in Threads, SkipCopy(t) \/ UnblockImage(t) \/ BlockImage(t)
      PROVE  job'[u].count \in 1 .. RetryInterval - 1
  BY <1>3 DEF SkipCopy, UnblockImage, BlockImage, Goto
<1>4. ASSUME NEW t \in Threads, Decode(t) \/ TranslateTransfer(t)
      PROVE  job'[u].count \in 1 .. RetryInterval - 1
  BY <1>4 DEF Decode, TranslateTransfer, Return, Begin, Goto
<1>5. ASSUME NEW t \in Threads, NEW i \in Images, DestroyImage(t, i)
      PROVE  job'[u].count \in 1 .. RetryInterval - 1
  BY <1>5 DEF DestroyImage, Begin
<1>6. ASSUME NEW t \in Threads, NEW i \in Images, CopyBufferToImage(t, i)
      PROVE  job'[u].count \in 1 .. RetryInterval - 1
  <2>1. decode_state[i].count \in Nat /\ RetryInterval \in Nat
    BY VirtualImagesAssumption DEF IInv, TypeOK
  <2>2. u = t => decode_state[i].count + 1 < RetryInterval /\ job'[u].count = decode_state[i].count + 1
    BY <1>6 DEF CopyBufferToImage, Begin, NoJob
  <2>3. u # t => at'[u] = at[u] /\ job'[u] = job[u]
    BY <1>6 DEF CopyBufferToImage, Begin
  <2> QED
    BY <2>1, <2>2, <2>3
<1>7. ASSUME NEW t \in Threads, NEW src \in Images, NEW dst \in Images, TransferImage(t, src, dst)
      PROVE  job'[u].count \in 1 .. RetryInterval - 1
  BY <1>7 DEF TransferImage, Begin
<1>8. ASSUME UNCHANGED vars
      PROVE  job'[u].count \in 1 .. RetryInterval - 1
  BY <1>8 DEF vars
<1> QED
  BY <1>1, <1>2, <1>3, <1>4, <1>5, <1>6, <1>7, <1>8 DEF Next, Step

LEMMA BytesNext == IInv /\ NoForeignBytes /\ [Next]_vars => NoForeignBytes'
<1> SUFFICES ASSUME IInv, NoForeignBytes, [Next]_vars, BlockIncompatible,
                    NEW u \in Threads, sent'[u].virtual
             PROVE  sent'[u].from = sent'[u].to
  BY DEF NoForeignBytes
<1>a. sent \in [Threads -> Transfer] /\ (sent[u].virtual => sent[u].from = sent[u].to)
  BY DEF IInv, TypeOK, Transfer, NoForeignBytes
<1> USE <1>a
<1>1. ASSUME UNCHANGED sent \/ \E t \in Threads : NoForward(t)
      PROVE  sent'[u].from = sent'[u].to
  BY <1>1 DEF NoForward, NoTransfer
<1>2. ASSUME NEW t \in Threads, ForwardCopy(t)
      PROVE  sent'[u].from = sent'[u].to
  <2>1. job[t].dst \in known /\ MapsOf(job[t].dst)
    BY <1>2 DEF IInv, TypeOK, OneOwner, Copying, ForwardCopy
  <2>2. job[t].dst \in virtual \/ ~Replaced(job[t].dst)
    BY <2>1 DEF MapsOf
  <2> QED
    BY <1>2, <2>2, <1>1 DEF ForwardCopy
<1>3. ASSUME NEW t \in Threads, RouteTransfer(t)
      PROVE  sent'[u].from = sent'[u].to
  <2>1. job[t].native => \/ format[job[t].src] = format[job[t].dst]
                         \/ ~Replaced(job[t].src) /\ ~Replaced(job[t].dst)
    BY <1>3 DEF IInv, NativeSound, NativeOf, Transferring, RouteTransfer
  <2>2. CASE ~job[t].native
    BY <1>3, <2>2, <1>1 DEF RouteTransfer
  <2>3. CASE job[t].native
    <3>1. sent' = [sent EXCEPT ![t] = [from |-> format[job[t].src], to |-> format[job[t].dst],
                                       virtual |-> Replaced(job[t].src) \/ Replaced(job[t].dst)]]
      BY <1>3, <2>3 DEF RouteTransfer
    <3>2. CASE u = t
      BY <2>1, <2>3, <3>1, <3>2
    <3>3. CASE u # t
      BY <3>1, <3>3
    <3> QED
      BY <3>2, <3>3
  <2> QED
    BY <2>2, <2>3
<1>4. ASSUME NEW t \in Threads,
             TrackImage(t) \/ DriverDestroyImage(t) \/ SkipCopy(t) \/ UnblockImage(t) \/ Decode(t)
               \/ BlockImage(t) \/ TranslateTransfer(t)
      PROVE  sent'[u].from = sent'[u].to
  BY <1>4 DEF TrackImage, DriverDestroyImage, SkipCopy, UnblockImage, Decode, BlockImage,
              TranslateTransfer
<1>5. ASSUME NEW t \in Threads, NEW i \in Images, NEW f, NEW real,
             CreateImage(t, i, f, real) \/ DestroyImage(t, i)
      PROVE  sent'[u].from = sent'[u].to
  BY <1>5 DEF CreateImage, DestroyImage
<1>6. ASSUME NEW t \in Threads, NEW i \in Images, NEW src \in Images,
             CopyBufferToImage(t, i) \/ TransferImage(t, src, i)
      PROVE  sent'[u].from = sent'[u].to
  BY <1>6, <1>1 DEF CopyBufferToImage, TransferImage
<1>7. ASSUME UNCHANGED vars
      PROVE  sent'[u].from = sent'[u].to
  BY <1>7 DEF vars
<1> QED
  BY <1>2, <1>3, <1>4, <1>5, <1>6, <1>7 DEF Next, Step

LEMMA IInvInit == Init => IInv /\ NoForeignBytes
<1> SUFFICES ASSUME Init PROVE IInv /\ NoForeignBytes
  OBVIOUS
<1>1. TypeOK
  BY TypeInit
<1>2. OneOwner /\ NativeSound /\ CountsBounded
  BY DEF Init, OneOwner, Private, Copying, Transferring, NativeSound, NativeOf, CountsBounded
<1>3. \A i \in Images : MapsOf(i)
  BY DEF Init, MapsOf
<1>4. NoForeignBytes
  BY DEF Init, NoForeignBytes, NoTransfer
<1> QED
  BY <1>1, <1>2, <1>3, <1>4 DEF IInv

LEMMA IInvNext == IInv /\ NoForeignBytes /\ [Next]_vars => IInv' /\ NoForeignBytes'
  BY TypeNext, OwnerNext, MapsNext, NativeNext, CountsNext, BytesNext DEF IInv

-----------------------------------------------------------------------------

\* The inductive invariant holds always.
LEMMA Inductive == Spec => [](IInv /\ NoForeignBytes)
  BY IInvInit, IInvNext, PTL DEF Spec

\* The maps, the handlers' locals and the last transfers have the types they should have:
\* in particular no count of the retry logic reaches the interval (try_decode_copy_regions).
THEOREM TypeCorrect == Spec => []TypeOK
<1>1. IInv => TypeOK
  BY DEF IInv
<1> QED
  BY <1>1, Inductive, PTL

\* Whatever threads create, destroy and reuse handles of images, g_virtual_images and
\* g_tracked_images say of each what the driver has (layer_CreateImage, layer_DestroyImage).
THEOREM MapsAlwaysMatchDriver == Spec => []MapsMatchDriver
<1>1. IInv => MapsMatchDriver
  BY DEF IInv, MapsMatchDriver, MapsOf
<1> QED
  BY <1>1, Inductive, PTL

\* If the setting blocks what cannot be translated, no virtual image ever gets the bytes of
\* another format, of any number of threads that copy, create and destroy at once.
THEOREM NeverForeignBytes == Spec => []NoForeignBytes
  BY Inductive, PTL

-----------------------------------------------------------------------------
(* Copies skipped in a row.                                                *)

\* Twice the copies of an image that two threads can skip before the next attempt when d
\* copies are left until one is due: each time one thread runs d copies and the other then
\* stores the count it read before them, which leaves d - 1.
Twice(d) == d * (d + 3)

\* Twice the bound of SkipsBounded.
Most == Twice(RetryInterval - 1) + 2 * (RetryInterval - 1)

\* What may still be skipped, K being twice what was skipped and d what is left until an
\* attempt is due.  One thread is at step s and, if it skips, leaves e; the other is at r
\* and leaves f.
HasRoom(K, d, s, e, r, f) ==
  /\ K <= Most
  /\ r \in {"unblock", "decode"} =>
       /\ s = "free" => K + 2 * d <= Most
       /\ s = "skip" => K + 2 + 2 * e <= Most
       /\ s = "block" => K + 2 * (RetryInterval - 1) <= Most
  /\ r = "block" =>
       /\ s = "free" => K + 2 * d + Twice(RetryInterval - 1) <= Most
       /\ s = "skip" => K + 2 + 2 * e + Twice(RetryInterval - 1) <= Most
       /\ s = "block" => K = 0
  /\ r = "skip" =>
       /\ s = "skip" => K + 4 + 2 * e + Twice(f) <= Most
       /\ s = "free" => /\ K + 2 + 2 * d + Twice(f) <= Most
                        /\ d # 0 => K + 4 + 2 * f + Twice(d - 1) <= Most
  /\ r = "free" /\ s = "free" => K + Twice(d) <= Most

BothHaveRoom(K, d, s, e, r, f) == HasRoom(K, d, s, e, r, f) /\ HasRoom(K, d, r, f, s, e)

\* Where a thread is in a copy to image i, and what its count leaves if it stores it.
Phases == {"free", "skip", "unblock", "decode", "block"}
Phase(t, i) ==
  IF t \in Threads /\ at[t] \in Phases /\ job[t].dst = i THEN at[t] ELSE "free"
Leaves(t, i) == IF Phase(t, i) = "skip" THEN RetryInterval - 1 - job[t].count ELSE 0
Left(i) == IF decode_state[i].blocked THEN RetryInterval - 1 - decode_state[i].count ELSE 0

RoomOf(a, b, i) ==
  BothHaveRoom(2 * skipped[i], Left(i), Phase(a, i), Leaves(a, i), Phase(b, i), Leaves(b, i))

LEMMA TwiceSays ==
  ASSUME NEW x \in Nat
  PROVE  /\ Twice(x) \in Nat /\ Twice(0) = 0
         /\ x # 0 => x - 1 \in Nat /\ Twice(x) = Twice(x - 1) + 2 * x + 2
         /\ \A y \in Nat : x <= y => Twice(x) + 2 * (y - x) <= Twice(y)
  <1>1. Twice(x) \in Nat /\ Twice(0) = 0
    BY DEF Twice
  <1>2. ASSUME x # 0 PROVE x - 1 \in Nat /\ Twice(x) = Twice(x - 1) + 2 * x + 2
    BY <1>2 DEF Twice
  <1>3. ASSUME NEW y \in Nat, x <= y PROVE Twice(x) + 2 * (y - x) <= Twice(y)
    <2> DEFINE z == y - x
    <2>1. z \in Nat /\ y = x + z
      BY <1>3
    <2> HIDE DEF z
    <2>2. Twice(y) = Twice(x) + 2 * (x * z) + z * z + 3 * z
      BY <2>1 DEF Twice
    <2>3. x * z >= 0 /\ z * z >= 0
      BY <2>1
    <2>4. x * z \in Nat /\ z * z \in Nat
      BY <2>1
    <2> DEFINE p == x * z
               q == z * z
               v == Twice(x)
               w == Twice(y)
    <2>5. w = v + 2 * p + q + 3 * z /\ p \in Nat /\ q \in Nat /\ v \in Nat
      BY <1>1, <2>2, <2>4
    <2> HIDE DEF p, q, v, w
    <2>6. v + 2 * z <= w
      BY <2>1, <2>5
    <2> QED
      BY <2>1, <2>6 DEF v, w, z
  <1> QED
    BY <1>1, <1>2, <1>3

\* The counts that occur: d copies are left at most, and a thread that skips leaves fewer.
Counts(K, d, s, e) ==
  /\ K \in Nat /\ d \in 0 .. RetryInterval - 1
  /\ s \in Phases
  /\ s = "skip" => e \in 0 .. RetryInterval - 2

LEMMA MostSays ==
  /\ RetryInterval - 1 \in Nat /\ Twice(RetryInterval - 1) \in Nat
  /\ Most = Twice(RetryInterval - 1) + 2 * (RetryInterval - 1)
  /\ \A d \in 0 .. RetryInterval - 1 :
       /\ Twice(d) \in Nat /\ 2 * d <= Twice(d)
       /\ Twice(d) <= Twice(RetryInterval - 1)
       /\ d # 0 => Twice(d) = Twice(d - 1) + 2 * d + 2 /\ d - 1 \in 0 .. RetryInterval - 1
       /\ \A e \in 0 .. RetryInterval - 1 : d <= e => Twice(d) + 2 * (e - d) <= Twice(e)
  <1>1. RetryInterval - 1 \in Nat
    BY VirtualImagesAssumption
  <1>2. 0 \in Nat /\ \A d \in 0 .. RetryInterval - 1 : d \in Nat /\ 0 <= d /\ d <= RetryInterval - 1
    BY <1>1
  <1>3. \A d \in 0 .. RetryInterval - 1 :
          /\ Twice(d) \in Nat
          /\ Twice(0) + 2 * (d - 0) <= Twice(d)
          /\ Twice(d) + 2 * (RetryInterval - 1 - d) <= Twice(RetryInterval - 1)
          /\ d # 0 => Twice(d) = Twice(d - 1) + 2 * d + 2
          /\ \A e \in 0 .. RetryInterval - 1 : d <= e => Twice(d) + 2 * (e - d) <= Twice(e)
    BY <1>1, <1>2, TwiceSays
  <1>4. Twice(0) = 0 /\ Twice(RetryInterval - 1) \in Nat
    BY <1>1, <1>2, TwiceSays
  <1> QED
    BY <1>1, <1>2, <1>3, <1>4 DEF Most

\* What the room lemmas use of a count that is left.
LEMMA LeftSays ==
  ASSUME NEW x \in 0 .. RetryInterval - 1
  PROVE  /\ x \in Nat /\ x <= RetryInterval - 1
         /\ Twice(x) \in Nat /\ 2 * x <= Twice(x)
         /\ Twice(x) + 2 * (RetryInterval - 1 - x) <= Twice(RetryInterval - 1)
  <1>1. RetryInterval - 1 \in Nat /\ RetryInterval - 1 \in 0 .. RetryInterval - 1
    BY MostSays
  <1> QED
    BY <1>1, MostSays

\* Right after an attempt there is room, wherever the threads are.
LEMMA RoomAtFirst ==
  ASSUME NEW d, NEW s, NEW e, NEW r, NEW f, Counts(0, d, s, e), Counts(0, d, r, f)
  PROVE  HasRoom(0, d, s, e, r, f)
  <1> DEFINE m == RetryInterval - 1
             M == Twice(m)
             D == Twice(d)
  <1>1. /\ m \in Nat /\ M \in Nat /\ Most = M + 2 * m
        /\ d \in Nat /\ d <= m /\ D \in Nat /\ 2 * d <= D /\ D + 2 * (m - d) <= M
    BY MostSays, LeftSays DEF Counts
  <1>2. /\ s = "skip" => e \in Nat /\ e <= m - 1
        /\ r = "skip" => /\ f \in Nat /\ f <= m - 1
                          /\ Twice(f) \in Nat /\ Twice(f) + 2 * (m - f) <= M
    <2>1. \A x \in 0 .. RetryInterval - 2 : x \in 0 .. RetryInterval - 1 /\ x \in Nat /\ x <= m - 1
      BY VirtualImagesAssumption
    <2> QED
      BY <2>1, LeftSays DEF Counts
  <1>3. d # 0 => Twice(d - 1) = D - 2 * d - 2
    <2>1. d # 0 => Twice(d) = Twice(d - 1) + 2 * d + 2 /\ Twice(d - 1) \in Nat
      BY MostSays DEF Counts
    <2> QED
      BY <1>1, <2>1
  <1> HIDE DEF m, M, D
  <1>4. 0 <= Most /\ 0 + 2 * d <= Most /\ 0 + 2 * m <= Most /\ 0 + 2 * d + M <= Most /\ 0 + D <= Most
    BY <1>1
  <1>5. s = "skip" => 0 + 2 + 2 * e <= Most /\ 0 + 2 + 2 * e + M <= Most
    BY <1>1, <1>2
  <1>6. r = "skip" => /\ s = "skip" => 0 + 4 + 2 * e + Twice(f) <= Most
                      /\ 0 + 2 + 2 * d + Twice(f) <= Most
                      /\ d # 0 => 0 + 4 + 2 * f + Twice(d - 1) <= Most
    <2> DEFINE F == Twice(f)
               E == Twice(d - 1)
    <2>1. r = "skip" => f \in Nat /\ f <= m - 1 /\ F \in Nat /\ F + 2 * (m - f) <= M
      BY <1>2
    <2>2. d # 0 => E = D - 2 * d - 2
      BY <1>3
    <2> HIDE DEF E, F
    <2>3. r = "skip" => /\ s = "skip" => 0 + 4 + 2 * e + F <= Most
                        /\ 0 + 2 + 2 * d + F <= Most
                        /\ d # 0 => 0 + 4 + 2 * f + E <= Most
      BY <1>1, <1>2, <2>1, <2>2
    <2> QED
      BY <2>3 DEF E, F
  <1> QED
    BY <1>4, <1>5, <1>6 DEF HasRoom, m, M, D

\* What is known of a count that a skipping thread leaves.
LEMMA SkipLeaves ==
  ASSUME NEW K, NEW d, NEW e, Counts(K, d, "skip", e)
  PROVE  /\ e \in Nat /\ e <= RetryInterval - 2 /\ e \in 0 .. RetryInterval - 1
         /\ Twice(e) \in Nat /\ 2 * e <= Twice(e)
         /\ Twice(e) + 2 * (RetryInterval - 1 - e) <= Twice(RetryInterval - 1)
         /\ e # 0 => Twice(e - 1) = Twice(e) - 2 * e - 2
  <1>1. e \in 0 .. RetryInterval - 1 /\ e \in Nat /\ e <= RetryInterval - 2
    BY VirtualImagesAssumption DEF Counts
  <1>2. e # 0 => Twice(e - 1) \in Nat /\ Twice(e) = Twice(e - 1) + 2 * e + 2
    <2>1. e # 0 => e - 1 \in 0 .. RetryInterval - 1
      BY <1>1, VirtualImagesAssumption
    <2> QED
      BY <1>1, <2>1, MostSays
  <1>3. e # 0 => Twice(e - 1) = Twice(e) - 2 * e - 2
    BY <1>1, <1>2
  <1> QED
    BY <1>1, <1>3, LeftSays

\* A copy reads the count and goes to skip.
LEMMA RoomStart ==
  ASSUME NEW K, NEW d, NEW e, NEW r, NEW f, Counts(K, d, "free", e), Counts(K, d, r, f),
         BothHaveRoom(K, d, "free", e, r, f), d # 0
  PROVE  BothHaveRoom(K, d, "skip", d - 1, r, f)
  <1> DEFINE D == Twice(d)
             C == Twice(d - 1)
  <1>1. K \in Nat /\ d \in Nat /\ C \in Nat /\ D = C + 2 * d + 2
    <2>1. D = C + 2 * d + 2 /\ d - 1 \in 0 .. RetryInterval - 1
      BY MostSays DEF Counts
    <2> QED
      BY <2>1, MostSays DEF Counts
  <1>2. HasRoom(K, d, "skip", d - 1, r, f)
    <2>1. r = "skip" => f \in Nat /\ Twice(f) \in Nat
      BY SkipLeaves
    <2>2. 2 + 2 * (d - 1) = 2 * d
      BY <1>1
    <2>3. K + 2 + 2 * (d - 1) = K + 2 * d /\ K + 4 + 2 * (d - 1) = K + 2 + 2 * d
      BY <1>1
    <2> QED
      BY <2>3 DEF BothHaveRoom, HasRoom
  <1>3. HasRoom(K, d, r, f, "skip", d - 1)
    <2>1. r = "free" => K + D <= Most
      BY DEF BothHaveRoom, HasRoom
    <2>2. r = "skip" => K + 4 + 2 * f + C <= Most
      BY DEF BothHaveRoom, HasRoom
    <2>3. K <= Most
      BY DEF BothHaveRoom, HasRoom
    <2> HIDE DEF C, D
    <2>4. K + 2 + 2 * d + C = K + D /\ K + 4 + 2 * (d - 1) + C = K + D
      BY <1>1
    <2>5. r = "free" => K + 2 + 2 * d + C <= Most /\ K + 4 + 2 * (d - 1) + C <= Most
      BY <2>1, <2>4
    <2> QED
      BY <2>2, <2>3, <2>5 DEF HasRoom, C
  <1> QED
    BY <1>2, <1>3 DEF BothHaveRoom

\* A copy is due, or finds the image not blocked.
LEMMA RoomDue ==
  ASSUME NEW K, NEW e, NEW r, NEW f, Counts(K, 0, "free", e), Counts(K, 0, r, f),
         BothHaveRoom(K, 0, "free", e, r, f), NEW s \in {"unblock", "decode"}, NEW g
  PROVE  BothHaveRoom(K, 0, s, g, r, f)
  <1> DEFINE m == RetryInterval - 1
             M == Twice(m)
             F == Twice(f)
  <1>1. K \in Nat /\ m \in Nat /\ M \in Nat /\ 2 * m <= M /\ Most = M + 2 * m
    <2>1. m \in 0 .. RetryInterval - 1
      BY MostSays
    <2> QED
      BY <2>1, MostSays DEF Counts
  <1>2. r = "skip" => f \in Nat /\ F \in Nat /\ 2 * f <= F
    BY SkipLeaves
  <1>3. K <= Most /\ (r = "skip" => K + 2 + 2 * 0 + F <= Most) /\ (r = "block" => K + 2 * 0 + M <= Most)
    BY DEF BothHaveRoom, HasRoom
  <1> HIDE DEF m, M, F
  <1>4. /\ K + 2 * 0 <= Most
        /\ r = "skip" => K + 2 + 2 * f <= Most
        /\ r = "block" => K + 2 * m <= Most
    BY <1>1, <1>2, <1>3
  <1> QED
    BY <1>3, <1>4 DEF BothHaveRoom, HasRoom, m

\* A copy is skipped and its count stored.
LEMMA RoomSkip ==
  ASSUME NEW K, NEW L \in Nat, NEW d, NEW e, NEW r, NEW f, NEW g,
         Counts(K, d, "skip", e), Counts(K, d, r, f),
         BothHaveRoom(K, d, "skip", e, r, f), L <= K + 2
  PROVE  BothHaveRoom(L, e, "free", g, r, f)
  <1> DEFINE m == RetryInterval - 1
             M == Twice(m)
             E == Twice(e)
             F == Twice(f)
             C == Twice(e - 1)
  <1>1. /\ K \in Nat /\ d \in Nat /\ m \in Nat /\ M \in Nat /\ Most = M + 2 * m
        /\ e \in Nat /\ E \in Nat /\ (e # 0 => C = E - 2 * e - 2)
    <2>1. K \in Nat /\ d \in Nat /\ m \in Nat /\ M \in Nat /\ Most = M + 2 * m
      BY MostSays DEF Counts
    <2>2. e \in Nat /\ E \in Nat /\ (e # 0 => C = E - 2 * e - 2)
      BY SkipLeaves
    <2> QED
      BY <2>1, <2>2
  <1>2. r = "skip" => f \in Nat /\ F \in Nat
    BY SkipLeaves
  <1>3. /\ r \in {"unblock", "decode"} => K + 2 + 2 * e <= Most
        /\ r = "block" => K + 2 + 2 * e + M <= Most
        /\ r = "skip" => K + 4 + 2 * e + F <= Most /\ K + 4 + 2 * f + E <= Most
        /\ r = "free" => K + 2 + 2 * d + E <= Most
    BY DEF BothHaveRoom, HasRoom
  <1>4. r \in {"free", "skip", "unblock", "decode", "block"}
    BY DEF Counts, Phases
  <1> HIDE DEF m, M, E, F, C
  <1>5. L <= Most
    BY <1>1, <1>2, <1>3, <1>4
  <1>6. /\ r \in {"unblock", "decode"} => L + 2 * e <= Most
        /\ r = "block" => L + 2 * e + M <= Most
        /\ r = "free" => L + E <= Most
    BY <1>1, <1>3
  <1>7. r = "skip" => /\ L + 2 + 2 * e + F <= Most
                      /\ e # 0 => L + 4 + 2 * f + C <= Most
    BY <1>1, <1>2, <1>3
  <1> QED
    BY <1>5, <1>6, <1>7 DEF BothHaveRoom, HasRoom, m, M, E, F, C

\* An image that is due is unblocked.
LEMMA RoomUnblock ==
  ASSUME NEW K, NEW d, NEW e, NEW r, NEW f, NEW g, Counts(K, d, "unblock", e), Counts(K, d, r, f),
         BothHaveRoom(K, d, "unblock", e, r, f)
  PROVE  BothHaveRoom(K, 0, "decode", g, r, f)
  <1>1. K \in Nat /\ K <= Most
    BY DEF Counts, BothHaveRoom, HasRoom
  <1>2. K + 2 * 0 <= Most
    BY <1>1
  <1> QED
    BY <1>1, <1>2 DEF BothHaveRoom, HasRoom

\* A decode that failed blocks the image.
LEMMA RoomBlock ==
  ASSUME NEW K, NEW d, NEW e, NEW r, NEW f, NEW g, Counts(K, d, "block", e), Counts(K, d, r, f),
         BothHaveRoom(K, d, "block", e, r, f)
  PROVE  BothHaveRoom(K, RetryInterval - 1, "free", g, r, f)
  <1> DEFINE m == RetryInterval - 1
             M == Twice(m)
             F == Twice(f)
             C == Twice(m - 1)
  <1>1. /\ K \in Nat /\ d \in Nat /\ m \in Nat /\ M \in Nat /\ Most = M + 2 * m
        /\ m # 0 => C \in Nat /\ M = C + 2 * m + 2
    <2>1. m \in Nat /\ m \in 0 .. RetryInterval - 1
      BY MostSays
    <2>2. m # 0 => m - 1 \in 0 .. RetryInterval - 1
      <3> HIDE DEF m
      <3>1. m # 0 => m - 1 \in 0 .. m
        BY <2>1
      <3> QED
        BY <3>1 DEF m
    <2> QED
      BY <2>1, <2>2, MostSays DEF Counts
  <1>2. r = "skip" => f \in Nat /\ F \in Nat /\ F + 2 * (m - f) <= M
    BY SkipLeaves
  <1>3. /\ K <= Most
        /\ r \in {"unblock", "decode"} => K + 2 * m <= Most
        /\ r = "block" => K = 0
        /\ r = "skip" => K + 2 + 2 * f + M <= Most
        /\ r = "free" => K + 2 * d + M <= Most
    BY DEF BothHaveRoom, HasRoom
  <1> HIDE DEF m, M, F, C
  <1>4. /\ r = "block" => K + 2 * m + M <= Most
        /\ r = "free" => K + M <= Most
    BY <1>1, <1>3
  <1>5. r = "skip" => /\ K + 2 + 2 * m + F <= Most
                      /\ m # 0 => K + 4 + 2 * f + C <= Most
    BY <1>1, <1>2, <1>3
  <1> QED
    BY <1>3, <1>4, <1>5 DEF BothHaveRoom, HasRoom, m, M, F, C

\* Nobody copies to an image whose state is dropped.
LEMMA RoomDropped ==
  ASSUME NEW K, NEW d, NEW e, NEW f, NEW g, NEW h, Counts(K, d, "free", e),
         BothHaveRoom(K, d, "free", e, "free", f)
  PROVE  BothHaveRoom(K, 0, "free", g, "free", h)
  <1>1. K \in Nat /\ K <= Most /\ Twice(0) = 0
    BY TwiceSays DEF Counts, BothHaveRoom, HasRoom
  <1>2. K + Twice(0) <= Most
    BY <1>1
  <1> QED
    BY <1>1, <1>2 DEF BothHaveRoom, HasRoom

-----------------------------------------------------------------------------
(* The steps of the threads in these terms.                                *)

\* Nothing changes for image i, as far as thread t, or the image itself, is concerned.
Same(t, i) == Phase(t, i)' = Phase(t, i) /\ Leaves(t, i)' = Leaves(t, i)
SameImage(i) == Left(i)' = Left(i) /\ skipped'[i] = skipped[i]

LEMMA SameRoom ==
  ASSUME NEW t, NEW u, NEW i, Same(t, i), Same(u, i), SameImage(i), RoomOf(t, u, i)
  PROVE  RoomOf(t, u, i)'
  BY DEF Same, SameImage, RoomOf

LEMMA OtherSame ==
  ASSUME NEW u, NEW i, u \in Threads => at'[u] = at[u] /\ job'[u] = job[u]
  PROVE  Same(u, i)
  BY DEF Same, Phase, Leaves, Phases

\* A thread is away from an image as long as its handler is none that copies to it.
LEMMA Away ==
  ASSUME NEW t, NEW i,
         t \in Threads => at[t] \notin Phases \/ job[t].dst # i
  PROVE  Phase(t, i) = "free" /\ Leaves(t, i) = 0
  BY DEF Phase, Leaves, Phases

LEMMA AwayNext ==
  ASSUME NEW t, NEW i,
         t \in Threads => at'[t] \notin Phases \/ job'[t].dst # i
  PROVE  Phase(t, i)' = "free" /\ Leaves(t, i)' = 0
  BY DEF Phase, Leaves, Phases

LEMMA There ==
  ASSUME NEW t \in Threads, NEW i, NEW s \in Phases \ {"free"}, at[t] = s, job[t].dst = i
  PROVE  /\ Phase(t, i) = s
         /\ s # "skip" => Leaves(t, i) = 0
         /\ s = "skip" => Leaves(t, i) = RetryInterval - 1 - job[t].count
  BY DEF Phase, Leaves, Phases

LEMMA ThereNext ==
  ASSUME NEW t \in Threads, NEW i, NEW s \in Phases \ {"free"}, at'[t] = s, job'[t].dst = i
  PROVE  /\ Phase(t, i)' = s
         /\ s # "skip" => Leaves(t, i)' = 0
         /\ s = "skip" => Leaves(t, i)' = RetryInterval - 1 - job'[t].count
  BY DEF Phase, Leaves, Phases

\* The counts are those of the room lemmas.
LEMMA CountsOf ==
  ASSUME IInv, NEW i \in Images, NEW t
  PROVE  Counts(2 * skipped[i], Left(i), Phase(t, i), Leaves(t, i))
  <1>1. skipped[i] \in Nat /\ 2 * skipped[i] \in Nat
    BY VirtualImagesAssumption DEF IInv, TypeOK
  <1>2. Left(i) \in 0 .. RetryInterval - 1
    <2>1. decode_state[i].count \in 0 .. RetryInterval - 1 /\ RetryInterval \in Nat \ {0}
      BY VirtualImagesAssumption DEF IInv, TypeOK
    <2> QED
      BY <2>1 DEF Left
  <1>3. Phase(t, i) \in Phases
    BY DEF Phase, Phases
  <1>4. ASSUME Phase(t, i) = "skip" PROVE Leaves(t, i) \in 0 .. RetryInterval - 2
    <2>1. t \in Threads /\ at[t] = "skip"
      BY <1>4 DEF Phase
    <2>2. job[t].count \in 1 .. RetryInterval - 1 /\ RetryInterval \in Nat
      BY <2>1, VirtualImagesAssumption DEF IInv, CountsBounded
    <2>3. Leaves(t, i) = RetryInterval - 1 - job[t].count
      BY <1>4 DEF Leaves
    <2> QED
      BY <2>2, <2>3
  <1> QED
    BY <1>1, <1>2, <1>3, <1>4 DEF Counts

\* Right after an attempt, or for a new image, whatever the threads do.
LEMMA ResetRoom ==
  ASSUME IInv, NEW i \in Images, NEW t, NEW u, NEW s \in Phases \ {"skip"},
         skipped'[i] = 0, Left(i)' = Left(i), Same(u, i),
         Phase(t, i)' = s, Leaves(t, i)' = 0
  PROVE  RoomOf(t, u, i)'
  <1> DEFINE d == Left(i)
             r == Phase(u, i)
             f == Leaves(u, i)
  <1>1. Counts(0, d, s, 0) /\ Counts(0, d, r, f)
    BY CountsOf DEF Counts
  <1>2. HasRoom(0, d, s, 0, r, f) /\ HasRoom(0, d, r, f, s, 0)
    <2> HIDE DEF d, r, f
    <2> QED
      BY <1>1, RoomAtFirst
  <1>3. 2 * 0 = 0
    OBVIOUS
  <1> QED
    BY <1>2, <1>3 DEF RoomOf, BothHaveRoom, Same

\* Dropping the state of an image that nobody copies to.
LEMMA DroppedRoom ==
  ASSUME IInv, NEW i \in Images, NEW t, NEW u, RoomOf(t, u, i),
         Phase(t, i) = "free", Phase(u, i) = "free",
         Phase(t, i)' = "free", Phase(u, i)' = "free",
         decode_state' = [decode_state EXCEPT ![i] = NoState], skipped'[i] = skipped[i]
  PROVE  RoomOf(t, u, i)'
  <1>1. Left(i)' = 0
    BY DEF IInv, TypeOK, Left, NoState
  <1>2. Counts(2 * skipped[i], Left(i), "free", Leaves(t, i))
    BY CountsOf
  <1>3. BothHaveRoom(2 * skipped[i], Left(i), "free", Leaves(t, i), "free", Leaves(u, i))
    BY DEF RoomOf
  <1>4. BothHaveRoom(2 * skipped[i], 0, "free", Leaves(t, i)', "free", Leaves(u, i)')
    BY <1>2, <1>3, RoomDropped
  <1> QED
    BY <1>1, <1>4 DEF RoomOf

\* An image is made: its copies are counted from nothing.
LEMMA CreateRoom ==
  ASSUME IInv, NEW t \in Threads, NEW u, NEW i \in Images, Same(u, i), RoomOf(t, u, i),
         NEW j \in Images, NEW f, NEW real, CreateImage(t, j, f, real)
  PROVE  RoomOf(t, u, i)'
  <1>1. /\ at' = [at EXCEPT ![t] = "track"] /\ at[t] = "idle"
        /\ skipped' = [skipped EXCEPT ![j] = 0] /\ decode_state' = decode_state
    BY DEF CreateImage, Begin, maps
  <1>2. at'[t] = "track" /\ "track" \notin Phases /\ "idle" \notin Phases
    BY <1>1 DEF IInv, TypeOK, Phases
  <1>3. /\ Phase(t, i) = "free" /\ Leaves(t, i) = 0
        /\ Phase(t, i)' = "free" /\ Leaves(t, i)' = 0
    BY <1>1, <1>2, Away, AwayNext
  <1>4. Left(i)' = Left(i)
    BY <1>1 DEF Left
  <1>5. CASE i = j
    <2>1. skipped'[i] = 0
      BY <1>1, <1>5 DEF IInv, TypeOK
    <2>2. "free" \in Phases \ {"skip"}
      BY DEF Phases
    <2> QED
      BY <1>3, <1>4, <2>1, <2>2, ResetRoom
  <1>6. CASE i # j
    <2>1. skipped'[i] = skipped[i]
      BY <1>1, <1>6 DEF IInv, TypeOK
    <2> QED
      BY <1>3, <1>4, <2>1, SameRoom DEF Same, SameImage
  <1> QED
    BY <1>5, <1>6

\* An image is entered, or destroyed: its state is dropped, and nobody copies to it.
LEMMA TrackRoom ==
  ASSUME IInv, NEW t \in Threads, NEW u, NEW i \in Images, Same(u, i), RoomOf(t, u, i),
         TrackImage(t)
  PROVE  RoomOf(t, u, i)'
  <1> DEFINE j == job[t].dst
  <1>1. /\ at[t] = "track" /\ at' = [at EXCEPT ![t] = "idle"]
        /\ decode_state' = [decode_state EXCEPT ![j] = NoState] /\ skipped' = skipped
    BY DEF TrackImage, Return, Begin
  <1>2. at'[t] = "idle" /\ "track" \notin Phases /\ "idle" \notin Phases
    BY <1>1 DEF IInv, TypeOK, Phases
  <1>3. /\ Phase(t, i) = "free" /\ Leaves(t, i) = 0
        /\ Phase(t, i)' = "free" /\ Leaves(t, i)' = 0
    BY <1>1, <1>2, Away, AwayNext
  <1>4. CASE i = j
    <2>1. i \notin known
      BY <1>1, <1>4 DEF IInv, OneOwner, Private
    <2>2. Phase(u, i) = "free"
      BY <2>1 DEF IInv, OneOwner, Copying, Phase, Phases
    <2>3. Phase(u, i)' = "free"
      BY <2>2 DEF Same
    <2>4. decode_state' = [decode_state EXCEPT ![i] = NoState] /\ skipped'[i] = skipped[i]
      BY <1>1, <1>4
    <2> QED
      BY <1>3, <2>2, <2>3, <2>4, DroppedRoom
  <1>5. CASE i # j
    <2>1. Left(i)' = Left(i)
      BY <1>1, <1>5 DEF IInv, TypeOK, Left
    <2> QED
      BY <1>1, <1>3, <2>1, SameRoom DEF Same, SameImage
  <1> QED
    BY <1>4, <1>5

LEMMA DestroyRoom ==
  ASSUME IInv, NEW t \in Threads, NEW u, NEW i \in Images, Same(u, i), RoomOf(t, u, i),
         NEW j \in Images, DestroyImage(t, j)
  PROVE  RoomOf(t, u, i)'
  <1>1. /\ at[t] = "idle" /\ at' = [at EXCEPT ![t] = "driver_destroy"] /\ ~InUse(j)
        /\ decode_state' = [decode_state EXCEPT ![j] = NoState] /\ skipped' = skipped
    BY DEF DestroyImage, Begin
  <1>2. at'[t] = "driver_destroy" /\ "driver_destroy" \notin Phases /\ "idle" \notin Phases
    BY <1>1 DEF IInv, TypeOK, Phases
  <1>3. /\ Phase(t, i) = "free" /\ Leaves(t, i) = 0
        /\ Phase(t, i)' = "free" /\ Leaves(t, i)' = 0
    BY <1>1, <1>2, Away, AwayNext
  <1>4. CASE i = j
    <2>1. Phase(u, i) = "free"
      BY <1>1, <1>4 DEF InUse, Phase
    <2>2. Phase(u, i)' = "free"
      BY <2>1 DEF Same
    <2>3. decode_state' = [decode_state EXCEPT ![i] = NoState] /\ skipped'[i] = skipped[i]
      BY <1>1, <1>4
    <2> QED
      BY <1>3, <2>1, <2>2, <2>3, DroppedRoom
  <1>5. CASE i # j
    <2>1. Left(i)' = Left(i)
      BY <1>1, <1>5 DEF IInv, TypeOK, Left
    <2> QED
      BY <1>1, <1>3, <2>1, SameRoom DEF Same, SameImage
  <1> QED
    BY <1>4, <1>5

\* Steps that have nothing to do with the counts.
LEMMA AwayRoom ==
  ASSUME IInv, NEW t \in Threads, NEW u, NEW i \in Images, Same(u, i), RoomOf(t, u, i),
         at[t] \notin Phases \/ at[t] = "free", at'[t] \notin Phases,
         UNCHANGED <<skipped, decode_state>>
  PROVE  RoomOf(t, u, i)'
  <1>1. at[t] \notin Phases
    BY DEF IInv, TypeOK, Steps
  <1>2. /\ Phase(t, i) = "free" /\ Leaves(t, i) = 0
        /\ Phase(t, i)' = "free" /\ Leaves(t, i)' = 0
    BY <1>1, Away, AwayNext
  <1>3. Left(i)' = Left(i)
    BY DEF Left
  <1> QED
    BY <1>2, <1>3, SameRoom DEF Same, SameImage

\* A copy begins.
LEMMA CopyRoom ==
  ASSUME IInv, NEW t \in Threads, NEW u, NEW i \in Images, Same(u, i), RoomOf(t, u, i),
         NEW j \in Images, CopyBufferToImage(t, j)
  PROVE  RoomOf(t, u, i)'
  <1> DEFINE s == decode_state[j]
             step == IF j \notin virtual THEN "check"
                     ELSE IF ~s.blocked THEN "decode"
                     ELSE IF s.count + 1 < RetryInterval THEN "skip" ELSE "unblock"
  <1>1. /\ at[t] = "idle" /\ at' = [at EXCEPT ![t] = step]
        /\ job' = [job EXCEPT ![t] = [NoJob EXCEPT !.dst = j, !.count = s.count + 1]]
        /\ skipped' = skipped /\ decode_state' = decode_state
    BY DEF CopyBufferToImage, Begin, maps
  <1>2. /\ at'[t] = step /\ job'[t].dst = j /\ job'[t].count = s.count + 1
        /\ step \in {"check", "decode", "skip", "unblock"}
    BY <1>1 DEF IInv, TypeOK, NoJob
  <1>3. Phase(t, i) = "free" /\ Leaves(t, i) = 0
    BY <1>1, Away DEF Phases
  <1>4. Left(i)' = Left(i) /\ skipped'[i] = skipped[i]
    BY <1>1 DEF Left
  <1>5. /\ Counts(2 * skipped[i], Left(i), "free", 0)
        /\ Counts(2 * skipped[i], Left(i), Phase(u, i), Leaves(u, i))
        /\ BothHaveRoom(2 * skipped[i], Left(i), "free", 0, Phase(u, i), Leaves(u, i))
    BY <1>3, CountsOf DEF RoomOf
  <1>6. s.count \in 0 .. RetryInterval - 1 /\ RetryInterval \in Nat
    BY VirtualImagesAssumption DEF IInv, TypeOK
  <1>7. CASE i # j \/ step = "check"
    <2>1. Phase(t, i)' = "free" /\ Leaves(t, i)' = 0
      BY <1>2, <1>7, AwayNext DEF Phases
    <2> QED
      BY <1>3, <1>4, <2>1, SameRoom DEF Same, SameImage
  <1>8. CASE i = j /\ step \in {"decode", "unblock"}
    <2>1. Left(i) = 0
      BY <1>6, <1>8 DEF Left
    <2>2. step \in Phases \ {"free"} /\ step # "skip"
      BY <1>8 DEF Phases
    <2>3. Phase(t, i)' = step /\ Leaves(t, i)' = 0
      <3> HIDE DEF step
      <3> QED
        BY <1>2, <1>8, <2>2, ThereNext
    <2> HIDE DEF step
    <2>4. BothHaveRoom(2 * skipped[i], 0, step, 0, Phase(u, i), Leaves(u, i))
      BY <1>5, <1>8, <2>1, RoomDue
    <2> QED
      BY <1>4, <2>1, <2>3, <2>4 DEF RoomOf, Same
  <1>9. CASE i = j /\ step = "skip"
    <2>1. Left(i) # 0 /\ Left(i) - 1 = RetryInterval - 1 - (s.count + 1)
      BY <1>6, <1>9 DEF Left
    <2>2. "skip" \in Phases \ {"free"}
      BY DEF Phases
    <2>3. Phase(t, i)' = "skip" /\ Leaves(t, i)' = Left(i) - 1
      <3> HIDE DEF step, s
      <3> QED
        BY <1>2, <1>9, <2>1, <2>2, ThereNext
    <2>4. BothHaveRoom(2 * skipped[i], Left(i), "skip", Left(i) - 1, Phase(u, i), Leaves(u, i))
      BY <1>5, <2>1, RoomStart
    <2> QED
      BY <1>4, <2>3, <2>4 DEF RoomOf, Same
  <1> HIDE DEF step
  <1> QED
    BY <1>2, <1>7, <1>8, <1>9

\* The steps of a copy.
LEMMA SkipRoom ==
  ASSUME IInv, NEW t \in Threads, NEW u, NEW i \in Images, Same(u, i), RoomOf(t, u, i), SkipCopy(t)
  PROVE  RoomOf(t, u, i)'
  <1> DEFINE j == job[t].dst
             stored == [blocked |-> TRUE, count |-> job[t].count]
  <1>1. /\ at[t] = "skip" /\ at' = [at EXCEPT ![t] = "check"] /\ job' = job
        /\ decode_state' = [decode_state EXCEPT ![j] = stored]
        /\ skipped' = [skipped EXCEPT ![j] = IF @ < MaxSkipped THEN @ + 1 ELSE @]
    BY DEF SkipCopy, Goto
  <1>2. at'[t] = "check" /\ "check" \notin Phases /\ "skip" \in Phases \ {"free"}
    BY <1>1 DEF IInv, TypeOK, Phases
  <1>3. Phase(t, i)' = "free" /\ Leaves(t, i)' = 0
    BY <1>2, AwayNext
  <1>4. CASE i = j
    <2>1. Phase(t, i) = "skip" /\ Leaves(t, i) = RetryInterval - 1 - job[t].count
      BY <1>1, <1>2, <1>4, There
    <2>2. Left(i)' = Leaves(t, i)
      BY <1>1, <1>4, <2>1 DEF IInv, TypeOK, Left
    <2>3. skipped'[i] \in Nat /\ skipped[i] \in Nat /\ skipped'[i] <= skipped[i] + 1
      BY <1>1, <1>4, VirtualImagesAssumption DEF IInv, TypeOK
    <2>4. 2 * skipped'[i] \in Nat /\ 2 * skipped'[i] <= 2 * skipped[i] + 2
      BY <2>3
    <2>5. /\ Counts(2 * skipped[i], Left(i), "skip", Leaves(t, i))
          /\ Counts(2 * skipped[i], Left(i), Phase(u, i), Leaves(u, i))
          /\ BothHaveRoom(2 * skipped[i], Left(i), "skip", Leaves(t, i), Phase(u, i), Leaves(u, i))
      BY <2>1, CountsOf DEF RoomOf
    <2>6. BothHaveRoom(2 * skipped'[i], Leaves(t, i), "free", 0, Phase(u, i), Leaves(u, i))
      BY <2>4, <2>5, RoomSkip
    <2> QED
      BY <1>3, <2>2, <2>6 DEF RoomOf, Same
  <1>5. CASE i # j
    <2>1. Phase(t, i) = "free" /\ Leaves(t, i) = 0
      BY <1>5, Away
    <2>2. Left(i)' = Left(i) /\ skipped'[i] = skipped[i]
      BY <1>1, <1>5 DEF IInv, TypeOK, Left
    <2> QED
      BY <1>3, <2>1, <2>2, SameRoom DEF Same, SameImage
  <1> QED
    BY <1>4, <1>5

LEMMA UnblockRoom ==
  ASSUME IInv, NEW t \in Threads, NEW u, NEW i \in Images, Same(u, i), RoomOf(t, u, i),
         UnblockImage(t)
  PROVE  RoomOf(t, u, i)'
  <1> DEFINE j == job[t].dst
  <1>1. /\ at[t] = "unblock" /\ at' = [at EXCEPT ![t] = "decode"] /\ job' = job
        /\ decode_state' = [decode_state EXCEPT ![j] = NoState] /\ skipped' = skipped
    BY DEF UnblockImage, Goto
  <1>2. at'[t] = "decode" /\ {"unblock", "decode"} \subseteq Phases \ {"free"}
    BY <1>1 DEF IInv, TypeOK, Phases
  <1>3. CASE i = j
    <2>1. Phase(t, i) = "unblock" /\ Phase(t, i)' = "decode" /\ Leaves(t, i)' = 0
      BY <1>1, <1>2, <1>3, There, ThereNext
    <2>2. Left(i)' = 0
      BY <1>1, <1>3 DEF IInv, TypeOK, Left, NoState
    <2>3. /\ Counts(2 * skipped[i], Left(i), "unblock", Leaves(t, i))
          /\ Counts(2 * skipped[i], Left(i), Phase(u, i), Leaves(u, i))
          /\ BothHaveRoom(2 * skipped[i], Left(i), "unblock", Leaves(t, i), Phase(u, i), Leaves(u, i))
      BY <2>1, CountsOf DEF RoomOf
    <2>4. BothHaveRoom(2 * skipped[i], 0, "decode", 0, Phase(u, i), Leaves(u, i))
      BY <2>3, RoomUnblock
    <2> QED
      BY <1>1, <2>1, <2>2, <2>4 DEF RoomOf, Same
  <1>4. CASE i # j
    <2>1. /\ Phase(t, i) = "free" /\ Leaves(t, i) = 0
          /\ Phase(t, i)' = "free" /\ Leaves(t, i)' = 0
      BY <1>1, <1>4, Away, AwayNext
    <2>2. Left(i)' = Left(i) /\ skipped'[i] = skipped[i]
      BY <1>1, <1>4 DEF IInv, TypeOK, Left
    <2> QED
      BY <2>1, <2>2, SameRoom DEF Same, SameImage
  <1> QED
    BY <1>3, <1>4

LEMMA DecodeRoom ==
  ASSUME IInv, NEW t \in Threads, NEW u, NEW i \in Images, Same(u, i), RoomOf(t, u, i), Decode(t)
  PROVE  RoomOf(t, u, i)'
  <1> DEFINE j == job[t].dst
  <1>1. /\ at[t] = "decode" /\ decode_state' = decode_state
        /\ skipped' = [skipped EXCEPT ![j] = 0]
    BY DEF Decode, maps
  <1>2. at'[t] = "idle" \/ (at'[t] = "block" /\ job' = job)
    BY DEF Decode, Return, Begin, Goto, IInv, TypeOK
  <1>3. Left(i)' = Left(i)
    BY <1>1 DEF Left
  <1>4. CASE i = j
    <2>1. skipped'[i] = 0
      BY <1>1, <1>4 DEF IInv, TypeOK
    <2>2. \E s \in {"free", "block"} : Phase(t, i)' = s /\ Leaves(t, i)' = 0
      <3>1. "idle" \notin Phases /\ "block" \in Phases \ {"free"}
        BY DEF Phases
      <3>2. CASE at'[t] = "idle"
        BY <3>1, <3>2, AwayNext
      <3>3. CASE at'[t] = "block" /\ job' = job
        BY <1>4, <3>1, <3>3, ThereNext
      <3> QED
        BY <1>2, <3>2, <3>3
    <2>3. {"free", "block"} \subseteq Phases \ {"skip"}
      BY DEF Phases
    <2> QED
      BY <1>3, <2>1, <2>2, <2>3, ResetRoom
  <1>5. CASE i # j
    <2>1. Phase(t, i) = "free" /\ Leaves(t, i) = 0
      BY <1>5, Away
    <2>2. at'[t] \notin Phases \/ job'[t].dst # i
      BY <1>2, <1>5 DEF Phases
    <2>3. Phase(t, i)' = "free" /\ Leaves(t, i)' = 0
      BY <2>2, AwayNext
    <2>4. skipped'[i] = skipped[i]
      BY <1>1, <1>5 DEF IInv, TypeOK
    <2> QED
      BY <1>3, <2>1, <2>3, <2>4, SameRoom DEF Same, SameImage
  <1> QED
    BY <1>4, <1>5

LEMMA BlockRoom ==
  ASSUME IInv, NEW t \in Threads, NEW u, NEW i \in Images, Same(u, i), RoomOf(t, u, i), BlockImage(t)
  PROVE  RoomOf(t, u, i)'
  <1> DEFINE j == job[t].dst
             stored == [blocked |-> TRUE, count |-> 0]
  <1>1. /\ at[t] = "block" /\ at' = [at EXCEPT ![t] = "check"] /\ job' = job
        /\ decode_state' = [decode_state EXCEPT ![j] = stored] /\ skipped' = skipped
    BY DEF BlockImage, Goto
  <1>2. at'[t] = "check" /\ "check" \notin Phases /\ "block" \in Phases \ {"free"}
    BY <1>1 DEF IInv, TypeOK, Phases
  <1>3. Phase(t, i)' = "free" /\ Leaves(t, i)' = 0
    BY <1>2, AwayNext
  <1>4. CASE i = j
    <2>1. Phase(t, i) = "block"
      BY <1>1, <1>2, <1>4, There
    <2>2. Left(i)' = RetryInterval - 1
      BY <1>1, <1>4, VirtualImagesAssumption DEF IInv, TypeOK, Left
    <2>3. /\ Counts(2 * skipped[i], Left(i), "block", Leaves(t, i))
          /\ Counts(2 * skipped[i], Left(i), Phase(u, i), Leaves(u, i))
          /\ BothHaveRoom(2 * skipped[i], Left(i), "block", Leaves(t, i), Phase(u, i), Leaves(u, i))
      BY <2>1, CountsOf DEF RoomOf
    <2>4. BothHaveRoom(2 * skipped[i], RetryInterval - 1, "free", 0, Phase(u, i), Leaves(u, i))
      BY <2>3, RoomBlock
    <2> QED
      BY <1>1, <1>3, <2>2, <2>4 DEF RoomOf, Same
  <1>5. CASE i # j
    <2>1. Phase(t, i) = "free" /\ Leaves(t, i) = 0
      BY <1>5, Away
    <2>2. Left(i)' = Left(i) /\ skipped'[i] = skipped[i]
      BY <1>1, <1>5 DEF IInv, TypeOK, Left
    <2> QED
      BY <1>3, <2>1, <2>2, SameRoom DEF Same, SameImage
  <1> QED
    BY <1>4, <1>5

Moves(t) ==
  \/ Step(t)
  \/ \E i \in Images :
       \/ \E f, real \in Formats : CreateImage(t, i, f, real)
       \/ DestroyImage(t, i)
       \/ CopyBufferToImage(t, i)
       \/ \E src \in Images : TransferImage(t, src, i)

\* A step of one thread leaves the other where it is.
LEMMA OthersStay ==
  ASSUME NEW t, Moves(t), NEW u \in Threads, u # t, IInv
  PROVE  at'[u] = at[u] /\ job'[u] = job[u]
  <1> USE DEF IInv, TypeOK, Begin, Goto, Return
  <1>1. ASSUME TrackImage(t) \/ DriverDestroyImage(t) \/ SkipCopy(t) \/ UnblockImage(t)
                 \/ BlockImage(t) \/ ForwardCopy(t) \/ RouteTransfer(t)
        PROVE  at'[u] = at[u] /\ job'[u] = job[u]
    BY <1>1 DEF TrackImage, DriverDestroyImage, SkipCopy, UnblockImage, BlockImage, ForwardCopy,
                RouteTransfer
  <1>2. ASSUME Decode(t) \/ TranslateTransfer(t)
        PROVE  at'[u] = at[u] /\ job'[u] = job[u]
    BY <1>2 DEF Decode, TranslateTransfer
  <1>3. ASSUME NEW i \in Images, NEW src \in Images, NEW f, NEW real,
               CreateImage(t, i, f, real) \/ DestroyImage(t, i) \/ CopyBufferToImage(t, i)
                 \/ TransferImage(t, src, i)
        PROVE  at'[u] = at[u] /\ job'[u] = job[u]
    BY <1>3 DEF CreateImage, DestroyImage, CopyBufferToImage, TransferImage
  <1> QED
    BY <1>1, <1>2, <1>3 DEF Moves, Step

LEMMA MovesRoom ==
  ASSUME IInv, NEW t \in Threads, NEW u, u # t, NEW i \in Images, RoomOf(t, u, i), Moves(t)
  PROVE  RoomOf(t, u, i)'
  <1>1. Same(u, i)
    BY OthersStay, OtherSame
  <1>2. ASSUME NEW j \in Images, NEW f \in Formats, NEW real \in Formats, CreateImage(t, j, f, real)
        PROVE  RoomOf(t, u, i)'
    BY <1>1, <1>2, CreateRoom
  <1>3. ASSUME NEW j \in Images, DestroyImage(t, j) PROVE RoomOf(t, u, i)'
    BY <1>1, <1>3, DestroyRoom
  <1>4. ASSUME NEW j \in Images, CopyBufferToImage(t, j) PROVE RoomOf(t, u, i)'
    BY <1>1, <1>4, CopyRoom
  <1>5. ASSUME DriverDestroyImage(t) \/ ForwardCopy(t) \/ RouteTransfer(t) \/ TranslateTransfer(t)
                 \/ \E j, src \in Images : TransferImage(t, src, j)
        PROVE  RoomOf(t, u, i)'
    <2>1. /\ at[t] \in {"driver_destroy", "check", "route", "special", "idle"}
          /\ at'[t] \in {"idle", "route", "special"}
          /\ UNCHANGED <<skipped, decode_state>>
      BY <1>5 DEF DriverDestroyImage, ForwardCopy, RouteTransfer, TranslateTransfer, TransferImage,
                  Begin, Goto, Return, IInv, TypeOK, maps
    <2>2. at[t] \notin Phases /\ at'[t] \notin Phases
      BY <2>1 DEF Phases
    <2> QED
      BY <1>1, <2>1, <2>2, AwayRoom
  <1>6. ASSUME TrackImage(t) PROVE RoomOf(t, u, i)'
    BY <1>1, <1>6, TrackRoom
  <1>7. ASSUME SkipCopy(t) PROVE RoomOf(t, u, i)'
    BY <1>1, <1>7, SkipRoom
  <1>8. ASSUME UnblockImage(t) PROVE RoomOf(t, u, i)'
    BY <1>1, <1>8, UnblockRoom
  <1>9. ASSUME Decode(t) PROVE RoomOf(t, u, i)'
    BY <1>1, <1>9, DecodeRoom
  <1>10. ASSUME BlockImage(t) PROVE RoomOf(t, u, i)'
    BY <1>1, <1>10, BlockRoom
  <1> QED
    BY <1>2, <1>3, <1>4, <1>5, <1>6, <1>7, <1>8, <1>9, <1>10 DEF Moves, Step

TwoThreads(a, b) == a # b /\ Threads \subseteq {a, b}

LEMMA RoomNext ==
  ASSUME NEW a, NEW b, TwoThreads(a, b), IInv, [Next]_vars, \A i \in Images : RoomOf(a, b, i)
  PROVE  (\A i \in Images : RoomOf(a, b, i))'
  <1> SUFFICES ASSUME NEW i \in Images PROVE RoomOf(a, b, i)'
    OBVIOUS
  <1>1. RoomOf(a, b, i) /\ RoomOf(b, a, i)
    BY DEF RoomOf, BothHaveRoom
  <1>2. RoomOf(b, a, i)' => RoomOf(a, b, i)'
    BY DEF RoomOf, BothHaveRoom
  <1>3. ASSUME NEW t \in Threads, Moves(t) PROVE RoomOf(a, b, i)'
    <2>1. CASE t = a
      BY <1>1, <1>3, <2>1, MovesRoom DEF TwoThreads
    <2>2. CASE t = b
      BY <1>1, <1>2, <1>3, <2>2, MovesRoom DEF TwoThreads
    <2> QED
      BY <2>1, <2>2 DEF TwoThreads
  <1>4. CASE UNCHANGED vars
    <2>1. Same(a, i) /\ Same(b, i) /\ SameImage(i)
      BY <1>4 DEF vars, Same, SameImage, Phase, Leaves, Left
    <2> QED
      BY <1>1, <2>1, SameRoom
  <1>5. Next => \E t \in Threads : Moves(t)
    BY DEF Next, Moves
  <1> QED
    BY <1>3, <1>4, <1>5

LEMMA RoomInit ==
  ASSUME NEW a, NEW b, Init
  PROVE  \A i \in Images : RoomOf(a, b, i)
  <1> SUFFICES ASSUME NEW i \in Images PROVE RoomOf(a, b, i)
    OBVIOUS
  <1>1. skipped[i] = 0 /\ Left(i) = 0 /\ 2 * 0 = 0
    BY DEF Init, Left, NoState
  <1>2. \A t : Phase(t, i) = "free" /\ Leaves(t, i) = 0
    BY Away DEF Init, Phases
  <1>3. Counts(0, 0, "free", 0)
    BY MostSays DEF Counts, Phases
  <1>4. HasRoom(0, 0, "free", 0, "free", 0)
    BY <1>3, RoomAtFirst
  <1> QED
    BY <1>1, <1>2, <1>4 DEF RoomOf, BothHaveRoom

LEMMA RoomSuffices ==
  ASSUME IInv, NEW a, NEW b, \A i \in Images : RoomOf(a, b, i)
  PROVE  SkipsBounded
  <1> SUFFICES ASSUME NEW i \in Images
               PROVE  2 * skipped[i] <= (RetryInterval - 1) * (RetryInterval + 4)
    BY DEF SkipsBounded
  <1>1. 2 * skipped[i] <= Most
    BY DEF RoomOf, BothHaveRoom, HasRoom
  <1>2. Most = (RetryInterval - 1) * (RetryInterval + 4)
    BY VirtualImagesAssumption DEF Most, Twice
  <1> QED
    BY <1>1, <1>2

\* With at most two threads that copy at once, no image's copies are skipped for longer than
\* the bound, whatever counts the threads overwrite (try_decode_copy_regions).
THEOREM TwoThreadsSkipsBounded ==
  ASSUME NEW CONSTANT a, NEW CONSTANT b, TwoThreads(a, b)
  PROVE  Spec => []SkipsBounded
  <1> DEFINE Room == \A i \in Images : RoomOf(a, b, i)
  <1>1. Init => Room
    BY RoomInit
  <1>2. IInv /\ Room /\ [Next]_vars => Room'
    BY RoomNext
  <1>3. IInv /\ Room => SkipsBounded
    BY RoomSuffices
  <1> HIDE DEF Room
  <1>4. QED
    BY <1>1, <1>2, <1>3, Inductive, PTL DEF Spec
=============================================================================
