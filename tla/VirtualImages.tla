---------------------------- MODULE VirtualImages ----------------------------
(***************************************************************************)
(* Images the application asked for in a BCn format and the layer created  *)
(* in another ("virtual" images), the maps that remember them, and the     *)
(* transfers that have to be translated for them:                          *)
(*   - layer_CreateImage and layer_DestroyImage over g_virtual_images,     *)
(*     g_tracked_images and g_decode_image_state;                          *)
(*   - vkCmdCopyBufferToImage: try_decode_copy_regions, which after a      *)
(*     failure skips an image's copies and retries once in a while;        *)
(*   - vkCmdCopyImage and vkCmdBlitImage: classify_copy_image_route and    *)
(*     what becomes of each route.                                         *)
(* A handler is a sequence of lock sections and driver calls, each an      *)
(* action, so that handlers of several threads interleave.  Whether an     *)
(* image is virtualized, and whether a decode or a translated copy         *)
(* succeeds, is left open.  dispatch_key is taken to tell images apart.    *)
(***************************************************************************)
EXTENDS Integers

CONSTANTS
  Threads,            \* application threads
  Images,             \* VkImage handles; the driver reuses destroyed ones
  RetryInterval,      \* kDecodeBlockedRetryInterval
  BlockIncompatible,  \* setting block_incompatible_virtual_copies
  MaxSkipped,         \* where the history variable skipped stops counting
  NoImage

ASSUME VirtualImagesAssumption ==
  /\ RetryInterval \in Nat \ {0}
  /\ BlockIncompatible \in BOOLEAN
  /\ MaxSkipped \in Nat
  /\ NoImage \notin Images

VARIABLES
  \* the driver and the application
  format,        \* image -> its format in the driver, "none" if there is no such image
  asked,         \* image -> the format the application asked for
  known,         \* images the application may use
  sent,          \* thread -> the formats of its last transfer the driver got as it was
  skipped,       \* image -> copies skipped since the last attempt to decode one
  \* the layer
  virtual,       \* g_virtual_images
  tracked,       \* g_tracked_images: image -> format
  decode_state,  \* g_decode_image_state: image -> blocked_passthrough, blocked_copy_count
  at, job        \* thread -> next step of the handler it is in, and its locals

app_vars == <<format, asked, known>>
maps == <<virtual, tracked, decode_state>>
vars == <<format, asked, known, sent, skipped, virtual, tracked, decode_state, at, job>>

\* A BCn format; the format that replaces it; some other one.
Formats == {"bcn", "rgba", "other"}
Replacement == "rgba"

Steps == {"idle", "track", "driver_destroy", "skip", "unblock", "decode", "block",
          "check", "special", "route"}

NoState == [blocked |-> FALSE, count |-> 0]
NoTransfer == [from |-> "none", to |-> "none", virtual |-> FALSE]
NoJob == [dst |-> NoImage, src |-> NoImage, count |-> 0, native |-> FALSE]

TypeOK ==
  /\ format \in [Images -> Formats \union {"none"}]
  /\ asked \in [Images -> Formats \union {"none"}]
  /\ known \subseteq Images
  /\ sent \in [Threads -> [from : Formats \union {"none"}, to : Formats \union {"none"},
                           virtual : BOOLEAN]]
  /\ skipped \in [Images -> 0..MaxSkipped]
  /\ virtual \subseteq Images
  /\ tracked \in [Images -> Formats \union {"none"}]
  /\ decode_state \in [Images -> [blocked : BOOLEAN, count : 0..(RetryInterval - 1)]]
  /\ at \in [Threads -> Steps]
  /\ job \in [Threads -> [dst : Images \union {NoImage}, src : Images \union {NoImage},
                          count : Nat, native : BOOLEAN]]

Init ==
  /\ format = [i \in Images |-> "none"]
  /\ asked = [i \in Images |-> "none"]
  /\ known = {}
  /\ sent = [t \in Threads |-> NoTransfer]
  /\ skipped = [i \in Images |-> 0]
  /\ virtual = {}
  /\ tracked = [i \in Images |-> "none"]
  /\ decode_state = [i \in Images |-> NoState]
  /\ at = [t \in Threads |-> "idle"]
  /\ job = [t \in Threads |-> NoJob]

Goto(t, step) == at' = [at EXCEPT ![t] = step] /\ UNCHANGED job
Begin(t, step, j) == at' = [at EXCEPT ![t] = step] /\ job' = [job EXCEPT ![t] = j]
Return(t) == Begin(t, "idle", NoJob)

InUse(i) == \E t \in Threads : i \in {job[t].dst, job[t].src}

\* The driver's image is not what the application asked for.
Replaced(i) == asked[i] = "bcn" /\ format[i] # "bcn"

-----------------------------------------------------------------------------
(* Creation and destruction.                                               *)

\* layer_CreateImage up to the driver's answer: a BCn image is replaced, or created
\* as it is when its format is supported, cannot be virtualized, or LSFG owns it.
CreateImage(t, i, f, real) ==
  /\ at[t] = "idle"
  /\ format[i] = "none"
  /\ real = f \/ (f = "bcn" /\ real = Replacement)
  /\ format' = [format EXCEPT ![i] = real]
  /\ asked' = [asked EXCEPT ![i] = f]
  /\ Begin(t, "track", [NoJob EXCEPT !.dst = i])
  /\ skipped' = [skipped EXCEPT ![i] = 0]
  /\ UNCHANGED <<known, sent, maps>>

\* The end of try_create_virtualized_image, or track_created_image, which leaves
\* g_virtual_images alone.
TrackImage(t) ==
  /\ at[t] = "track"
  /\ LET i == job[t].dst
     IN /\ virtual' = IF Replaced(i) THEN virtual \union {i} ELSE virtual
        /\ tracked' = [tracked EXCEPT ![i] = format[i]]
        /\ decode_state' = [decode_state EXCEPT ![i] = NoState]
        /\ known' = known \union {i}
  /\ Return(t)
  /\ UNCHANGED <<format, asked, sent, skipped>>

\* Mutant of DestroyImage: g_virtual_images keeps the image.
DestroyImage_KeepVirtual(t, i) ==
  /\ at[t] = "idle"
  /\ i \in known /\ ~InUse(i)
  /\ known' = known \ {i}
  /\ tracked' = [tracked EXCEPT ![i] = "none"]
  /\ decode_state' = [decode_state EXCEPT ![i] = NoState]
  /\ Begin(t, "driver_destroy", [NoJob EXCEPT !.dst = i])
  /\ UNCHANGED <<format, asked, sent, skipped, virtual>>

\* layer_DestroyImage: cleanup_destroyed_image_tracking ...
DestroyImage(t, i) ==
  /\ at[t] = "idle"
  /\ i \in known /\ ~InUse(i)
  /\ known' = known \ {i}
  /\ virtual' = virtual \ {i}
  /\ tracked' = [tracked EXCEPT ![i] = "none"]
  /\ decode_state' = [decode_state EXCEPT ![i] = NoState]
  /\ Begin(t, "driver_destroy", [NoJob EXCEPT !.dst = i])
  /\ UNCHANGED <<format, asked, sent, skipped>>

\* ... and then the driver gets its handle back.
DriverDestroyImage(t) ==
  /\ at[t] = "driver_destroy"
  /\ format' = [format EXCEPT ![job[t].dst] = "none"]
  /\ asked' = [asked EXCEPT ![job[t].dst] = "none"]
  /\ Return(t)
  /\ UNCHANGED <<known, sent, skipped, maps>>

-----------------------------------------------------------------------------
(* Copies from a buffer.                                                   *)

NoForward(t) == sent' = [sent EXCEPT ![t] = NoTransfer]

\* Mutant of CopyBufferToImage: due one copy later.
CopyBufferToImage_OneLate(t, i) ==
  /\ at[t] = "idle"
  /\ i \in known
  /\ LET s == decode_state[i]
         step == IF i \notin virtual THEN "check"
                 ELSE IF ~s.blocked THEN "decode"
                 ELSE IF s.count + 1 <= RetryInterval THEN "skip" ELSE "unblock"
     IN Begin(t, step, [NoJob EXCEPT !.dst = i, !.count = s.count + 1])
  /\ NoForward(t)
  /\ UNCHANGED <<app_vars, skipped, maps>>

\* try_decode_copy_regions: what the maps say of the image, under the shared lock.
\* The next count is computed from this copy of the state.
CopyBufferToImage(t, i) ==
  /\ at[t] = "idle"
  /\ i \in known
  /\ LET s == decode_state[i]
         step == IF i \notin virtual THEN "check"
                 ELSE IF ~s.blocked THEN "decode"
                 ELSE IF s.count + 1 < RetryInterval THEN "skip" ELSE "unblock"
     IN Begin(t, step, [NoJob EXCEPT !.dst = i, !.count = s.count + 1])
  /\ NoForward(t)
  /\ UNCHANGED <<app_vars, skipped, maps>>

\* Mutant of SkipCopy: the state is stored without the new count.
SkipCopy_KeepCount(t) ==
  /\ at[t] = "skip"
  /\ LET i == job[t].dst
     IN /\ decode_state' = [decode_state EXCEPT ![i].blocked = TRUE]
        /\ skipped' = [skipped EXCEPT ![i] = IF @ < MaxSkipped THEN @ + 1 ELSE @]
  /\ Goto(t, "check")
  /\ UNCHANGED <<app_vars, sent, virtual, tracked>>

\* The image is blocked and not yet due: store the count and skip the copy.
SkipCopy(t) ==
  /\ at[t] = "skip"
  /\ LET i == job[t].dst
     IN /\ decode_state' = [decode_state EXCEPT ![i] = [blocked |-> TRUE, count |-> job[t].count]]
        /\ skipped' = [skipped EXCEPT ![i] = IF @ < MaxSkipped THEN @ + 1 ELSE @]
  /\ Goto(t, "check")
  /\ UNCHANGED <<app_vars, sent, virtual, tracked>>

\* It is due: unblock it and try again.
UnblockImage(t) ==
  /\ at[t] = "unblock"
  /\ decode_state' = [decode_state EXCEPT ![job[t].dst] = NoState]
  /\ Goto(t, "decode")
  /\ UNCHANGED <<app_vars, sent, skipped, virtual, tracked>>

\* try_cpu_decode_copy_regions records decoded texels, or fails.
Decode(t) ==
  /\ at[t] = "decode"
  /\ skipped' = [skipped EXCEPT ![job[t].dst] = 0]
  /\ Return(t) \/ Goto(t, "block")
  /\ UNCHANGED <<app_vars, sent, maps>>

\* mark_image_blocked
BlockImage(t) ==
  /\ at[t] = "block"
  /\ decode_state' = [decode_state EXCEPT ![job[t].dst] = [blocked |-> TRUE, count |-> 0]]
  /\ Goto(t, "check")
  /\ UNCHANGED <<app_vars, sent, skipped, virtual, tracked>>

\* Mutant of ForwardCopy: a copy that was not decoded goes to the driver.
ForwardCopy_Always(t) ==
  /\ at[t] = "check"
  /\ LET i == job[t].dst
     IN sent' = [sent EXCEPT ![t] =
                   [from |-> asked[i], to |-> format[i], virtual |-> Replaced(i)]]
  /\ Return(t)
  /\ UNCHANGED <<app_vars, skipped, maps>>

\* What was not decoded goes to the driver as it is, unless is_virtual_image.
ForwardCopy(t) ==
  /\ at[t] = "check"
  /\ LET i == job[t].dst
     IN IF i \in virtual THEN NoForward(t)
        ELSE sent' = [sent EXCEPT ![t] =
                        [from |-> asked[i], to |-> format[i], virtual |-> Replaced(i)]]
  /\ Return(t)
  /\ UNCHANGED <<app_vars, skipped, maps>>

-----------------------------------------------------------------------------
(* Copies and blits between images.                                        *)

\* classify_copy_image_route: no virtual image is involved, or the formats the
\* driver has agree.
CanCopyReal(src, dst) ==
  \/ {src, dst} \intersect virtual = {}
  \/ tracked[src] = tracked[dst]

\* layer_CmdCopyImage and layer_CmdBlitImage: the route, under the shared lock.
TransferImage(t, src, dst) ==
  /\ at[t] = "idle"
  /\ src \in known /\ dst \in known
  /\ LET real == CanCopyReal(src, dst)
     IN Begin(t, IF real THEN "route" ELSE "special",
              [NoJob EXCEPT !.dst = dst, !.src = src, !.native = real])
  /\ NoForward(t)
  /\ UNCHANGED <<app_vars, skipped, maps>>

\* try_special_copy_image_regions records a translated copy, or fails; no blit has one.
TranslateTransfer(t) ==
  /\ at[t] = "special"
  /\ Return(t) \/ Goto(t, "route")
  /\ UNCHANGED <<app_vars, sent, skipped, maps>>

\* The rest goes to the driver as it is, unless should_block_native_virtual_image_transfer.
RouteTransfer(t) ==
  /\ at[t] = "route"
  /\ LET src == job[t].src
         dst == job[t].dst
     IN IF BlockIncompatible /\ ~job[t].native THEN NoForward(t)
        ELSE sent' = [sent EXCEPT ![t] =
                        [from |-> format[src], to |-> format[dst],
                         virtual |-> Replaced(src) \/ Replaced(dst)]]
  /\ Return(t)
  /\ UNCHANGED <<app_vars, skipped, maps>>

Step(t) ==
  \/ TrackImage(t) \/ DriverDestroyImage(t)
  \/ SkipCopy(t) \/ UnblockImage(t) \/ Decode(t) \/ BlockImage(t) \/ ForwardCopy(t)
  \/ TranslateTransfer(t) \/ RouteTransfer(t)

Next ==
  \E t \in Threads :
    \/ Step(t)
    \/ \E i \in Images :
         \/ \E f, real \in Formats : CreateImage(t, i, f, real)
         \/ DestroyImage(t, i)
         \/ CopyBufferToImage(t, i)
         \/ \E src \in Images : TransferImage(t, src, i)

Spec == Init /\ [][Next]_vars

\* A thread in a handler runs on: no handler waits for another thread.
FairSpec == Spec /\ \A t \in Threads : WF_vars(Step(t))

-----------------------------------------------------------------------------
(* Properties.                                                             *)

\* Between handlers the maps say of every image what the driver has under its
\* handle, whatever the handle stood for before, and nothing of handles that are free.
MapsMatchDriver ==
  \A i \in Images :
    /\ i \in known => tracked[i] = format[i] /\ (i \in virtual <=> Replaced(i))
    /\ format[i] = "none" => tracked[i] = "none" /\ i \notin virtual

\* No transfer of a virtual image reaches the driver with the bytes of another
\* format than the one the driver has: neither the application's compressed blocks,
\* nor the texels of an image in another format.
NoForeignBytes ==
  BlockIncompatible => \A t \in Threads : sent[t].virtual => sent[t].from = sent[t].to

\* Two threads that skip copies of one image overwrite each other's counts with older
\* ones, yet the copies skipped in a row are bounded: by 63 * 68 / 2 = 2142 for the
\* interval of 64, where one thread alone skips 63.
SkipsBounded ==
  \A i \in Images : 2 * skipped[i] <= (RetryInterval - 1) * (RetryInterval + 4)

\* A virtual image that keeps being copied into is attempted again and again, however
\* often the decode fails.
RetryEventually ==
  \A i \in Images :
    (<>[](i \in virtual) /\ []<><<\E t \in Threads : CopyBufferToImage(t, i)>>_vars)
      => []<>(\E t \in Threads : at[t] = "decode" /\ job[t].dst = i)
=============================================================================
