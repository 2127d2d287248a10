---------------------------- MODULE Formats_proofs ----------------------------
(***************************************************************************)
(* Proofs about Formats, for any instances, devices and requests: the      *)
(* cache of native support is true of the devices there are, and what is   *)
(* decided apart for the query of an image and for its creation agrees.    *)
(* The argument: as long as a handle stands for a device, what the layer   *)
(* decides about it is a function of the device and the request (Should),  *)
(* whatever was asked before.  What was promised of a device can be kept,  *)
(* if its driver supports the formats that Vulkan requires.                *)
(***************************************************************************)
EXTENDS Formats, TLAPS

-----------------------------------------------------------------------------
(* What the layer decides, as functions of the device.                     *)

Should(d, r) ==
  /\ d.xclipse /\ r.type # "1D" /\ r.format \in Compressed
  /\ r.format \in ForceCandidates \/ ~NativeSupport(d, r)

VirtualQuery(d, r) == ~r.external /\ ViewTypeSupported(r) /\ Should(d, r)

PreparedOf(d, r) ==
  [r EXCEPT !.format = Replacement(d, r, ReplacementFlags(r)),
            !.usage = r.usage \union InternalUsage, !.flags = ReplacementFlags(r),
            !.external = FALSE]

AnswerOf(d, r) ==
  IF ~ViewTypeSupported(r) THEN Refused
  ELSE IF VirtualQuery(d, r) THEN Normalized(r, d, DriverAnswer(d, PreparedOf(d, r)))
  ELSE DriverAnswer(d, r)

VirtualCreate(d, r, shape) == CanVirtualize(r, shape) /\ Should(d, r)
RealOf(d, r, shape) == IF VirtualCreate(d, r, shape) THEN Virtualized(d, r) ELSE r

\* The images Vulkan allows.
Allowed(r, shape) ==
  /\ "cube" \in r.flags => r.type = "2D" /\ shape.layers >= 6
  /\ "array_2d" \in r.flags => r.type = "3D"
  /\ r.type = "3D" => shape.layers = 1

-----------------------------------------------------------------------------
(* The invariant.                                                          *)

Typed ==
  /\ stands \in [Physicals -> [instance : Instances, device : Devices] \union {NoHandle}]
  /\ owner \in [Physicals -> Instances \union {None}]
  /\ runtime \in [Physicals -> [xclipse : BOOLEAN, cached : BOOLEAN, feature : BOOLEAN]]
  /\ settings = Defaults

\* What the layer registered is what there is.
Registrations ==
  \A p \in Physicals : Registered(p) =>
    /\ stands[p] \in [instance : Instances, device : Devices]
    /\ stands[p].instance = owner[p]
    /\ runtime[p].xclipse = DeviceOf(p).xclipse

EntryTrue(e) ==
  /\ e.physical \in Physicals /\ e.key \in Request
  /\ Registered(e.physical) /\ e.supported = NativeSupport(DeviceOf(e.physical), e.key)
CacheTrue == \A e \in native : EntryTrue(e)

ImageAsDecided ==
  image # NoImage =>
    LET d == DeviceOf(image.physical)
        r == image.request
    IN /\ image.physical \in Physicals /\ Registered(image.physical)
       /\ r \in Request /\ image.shape \in Shape /\ Allowed(r, image.shape)
       /\ image.virtual = VirtualCreate(d, r, image.shape)
       /\ image.real = RealOf(d, r, image.shape)
       /\ image.ok = Within(image.shape, DriverAnswer(d, image.real))

QueryAsDecided ==
  asked # NoQuestion =>
    LET d == DeviceOf(asked.physical)
    IN /\ asked.physical \in Physicals /\ Registered(asked.physical)
       /\ asked.request \in Request
       /\ asked.virtual = VirtualQuery(d, asked.request)
       /\ asked.limits = AnswerOf(d, asked.request)

IInv == Typed /\ Registrations /\ CacheTrue /\ ImageAsDecided /\ QueryAsDecided

-----------------------------------------------------------------------------
(* The decisions.                                                          *)

LEMMA KeyFacts ==
  ASSUME NEW r \in Request
  PROVE  Key(r) \in Request /\ Key(Key(r)) = Key(r)
  BY DEF Key, Request

LEMMA DefaultRequests == \A f \in Compressed : DefaultRequest(f) \in Request
  BY DEF DefaultRequest, DefaultUsage, Request, Uses, Flags

LEMMA SupportBoolean ==
  ASSUME NEW d, NEW r
  PROVE  NativeSupport(d, r) \in BOOLEAN
  BY DEF NativeSupport, Supports

\* The cache answers what the driver would.
LEMMA CacheAnswers ==
  ASSUME CacheTrue, NEW p \in Physicals, NEW r \in Request
  PROVE  NativelySupported(p, r) = NativeSupport(DeviceOf(p), r)
<1>1. NativeSupport(DeviceOf(p), Key(r)) = NativeSupport(DeviceOf(p), r)
  BY KeyFacts DEF NativeSupport
<1>2. \A e \in CachedFor(p, r) : e.supported = NativeSupport(DeviceOf(p), r)
  BY <1>1 DEF CacheTrue, EntryTrue, CachedFor
<1> QED
  BY <1>2, SupportBoolean DEF NativelySupported

LEMMA Decides ==
  ASSUME Typed, Registrations, CacheTrue, NEW p \in Physicals, Registered(p), NEW r \in Request
  PROVE  ShouldVirtualize(p, r) = Should(DeviceOf(p), r)
<1>1. settings.enabled /\ settings.bcn_intercept /\ settings.xclipse_only
      /\ settings.force_bcn_emulation /\ settings.disabled = {}
  BY DEF Typed, Defaults
<1>2. runtime[p].xclipse = DeviceOf(p).xclipse /\ runtime[p].xclipse \in BOOLEAN
  BY DEF Registrations, Typed
<1>3. NativelySupported(p, r) = NativeSupport(DeviceOf(p), r)
  BY CacheAnswers
<1> QED
  BY <1>1, <1>2, <1>3 DEF ShouldVirtualize, Should, MayVirtualize, Forced

\* What a decision adds to the cache is true.
LEMMA EntriesTrue ==
  ASSUME CacheTrue, NEW p \in Physicals, Registered(p), NEW R \in SUBSET Request
  PROVE  \A e \in NativeAfter(p, R) : EntryTrue(e)
<1> SUFFICES ASSUME NEW r \in R
             PROVE  EntryTrue([physical |-> p, key |-> Key(r), supported |-> NativelySupported(p, r)])
  BY DEF NativeAfter, CacheTrue
<1>1. r \in Request /\ Key(r) \in Request
  BY KeyFacts
<1>2. NativeSupport(DeviceOf(p), Key(r)) = NativeSupport(DeviceOf(p), r)
  BY KeyFacts DEF NativeSupport
<1> QED
  BY <1>1, <1>2, CacheAnswers DEF EntryTrue

-----------------------------------------------------------------------------
(* What is known of a handle stays true while it stands for its device.    *)

Kept(p) == Registered(p)' /\ stands'[p] = stands[p]

LEMMA CacheKept ==
  ASSUME CacheTrue, native' \subseteq native, \A e \in native' : Kept(e.physical)
  PROVE  CacheTrue'
  BY DEF CacheTrue, EntryTrue, Kept, DeviceOf

LEMMA ImageKept ==
  ASSUME ImageAsDecided, image' = image, image # NoImage => Kept(image.physical)
  PROVE  ImageAsDecided'
  BY DEF ImageAsDecided, Kept, DeviceOf

LEMMA QueryKept ==
  ASSUME QueryAsDecided, asked' = asked, asked # NoQuestion => Kept(asked.physical)
  PROVE  QueryAsDecided'
  BY DEF QueryAsDecided, Kept, DeviceOf

\* The steps that keep every registered handle.
LEMMA AllKept ==
  ASSUME IInv, UNCHANGED native, UNCHANGED image, UNCHANGED asked,
         \A p \in Physicals : Registered(p) => Kept(p)
  PROVE  CacheTrue' /\ ImageAsDecided' /\ QueryAsDecided'
<1>1. \A e \in native : Kept(e.physical)
  BY DEF IInv, CacheTrue, EntryTrue
<1>2. image # NoImage => Kept(image.physical)
  BY DEF IInv, ImageAsDecided
<1>3. asked # NoQuestion => Kept(asked.physical)
  BY DEF IInv, QueryAsDecided
<1> QED
  BY <1>1, <1>2, <1>3, CacheKept, ImageKept, QueryKept DEF IInv

LEMMA NoHandleFree ==
  /\ \A h \in [instance : Instances, device : Devices] : h # NoHandle /\ h.instance # None
  /\ NoHandle.instance = None
  BY FormatsAssumption DEF NoHandle

LEMMA CreateInstanceKeeps ==
  ASSUME IInv, NEW i \in Instances, NEW q \in Physicals, NEW d \in Devices, NEW s,
         CreateInstance(i, q, d, s)
  PROVE  IInv'
<1>1. \A p \in Physicals : Registered(p) => p # q /\ Kept(p)
  BY NoHandleFree DEF IInv, Typed, Registrations, CreateInstance, Kept, Registered
<1>2. CacheTrue' /\ ImageAsDecided' /\ QueryAsDecided'
  BY <1>1, AllKept DEF CreateInstance
<1>3. Typed'
  BY DEF IInv, Typed, CreateInstance
<1>4. \A p \in Physicals : runtime'[p].xclipse = runtime[p].xclipse
  BY DEF IInv, Typed, CreateInstance
<1>5. Registrations'
  BY <1>1, <1>4 DEF IInv, Registrations, Kept, Registered, DeviceOf, CreateInstance
<1> QED
  BY <1>2, <1>3, <1>5 DEF IInv

LEMMA EnumerateKeeps ==
  ASSUME IInv, NEW i \in Instances, EnumeratePhysicalDevices(i)
  PROVE  IInv'
<1>1. \A p \in Physicals : Registered(p) => Kept(p)
  BY FormatsAssumption DEF IInv, Typed, EnumeratePhysicalDevices, Kept, Registered
<1>2. CacheTrue' /\ ImageAsDecided' /\ QueryAsDecided'
  BY <1>1, AllKept DEF EnumeratePhysicalDevices
<1>3. \A p \in Physicals : stands[p].instance = i =>
        /\ stands[p] \in [instance : Instances, device : Devices]
        /\ DeviceOf(p).xclipse \in BOOLEAN
  BY NoHandleFree, FormatsAssumption DEF IInv, Typed, DeviceOf, Capabilities
<1>4. \A b \in BOOLEAN :
        /\ [NoRuntime EXCEPT !.xclipse = b] \in [xclipse : BOOLEAN, cached : BOOLEAN, feature : BOOLEAN]
        /\ [NoRuntime EXCEPT !.xclipse = b].xclipse = b
  BY DEF NoRuntime
<1>5. Typed'
  BY <1>3, <1>4 DEF IInv, Typed, EnumeratePhysicalDevices
<1>6. Registrations'
  BY <1>3, <1>4 DEF IInv, Typed, Registrations, Registered, DeviceOf, EnumeratePhysicalDevices
<1> QED
  BY <1>2, <1>5, <1>6 DEF IInv

LEMMA DestroyInstanceKeeps ==
  ASSUME IInv, NEW i \in Instances, DestroyInstance(i)
  PROVE  IInv'
<1> DEFINE P == {p \in Physicals : owner[p] = i}
<1>1. \A p \in Physicals : Registered(p) /\ owner[p] # i => Kept(p)
  BY DEF IInv, Typed, Registrations, DestroyInstance, Kept, Registered
<1>2. CacheTrue'
  <2>1. native' \subseteq native /\ \A e \in native' : e.physical \notin P
    BY DEF DestroyInstance, PurgedFor
  <2>2. \A e \in native : e.physical \in Physicals /\ Registered(e.physical)
    BY DEF IInv, CacheTrue, EntryTrue
  <2> QED
    BY <1>1, <2>1, <2>2, CacheKept DEF IInv
<1>3. ImageAsDecided'
  <2>1. image # NoImage => Kept(image.physical)
    BY <1>1 DEF IInv, ImageAsDecided, Registrations, DestroyInstance
  <2> QED
    BY <2>1, ImageKept DEF IInv, DestroyInstance
<1>4. QueryAsDecided'
  <2>1. CASE asked' = NoQuestion
    BY <2>1 DEF QueryAsDecided
  <2>2. CASE asked' = asked /\ asked.physical \notin P
    <3>1. asked # NoQuestion => Kept(asked.physical)
      BY <1>1, <2>2 DEF IInv, QueryAsDecided
    <3> QED
      BY <2>2, <3>1, QueryKept DEF IInv
  <2> QED
    BY <2>1, <2>2 DEF DestroyInstance
<1>5. Typed'
  <2>1. NoRuntime \in [xclipse : BOOLEAN, cached : BOOLEAN, feature : BOOLEAN]
    BY DEF NoRuntime
  <2> QED
    BY <2>1 DEF IInv, Typed, DestroyInstance
<1>6. Registrations'
  BY <1>1 DEF IInv, Typed, Registrations, Registered, DeviceOf, Kept, DestroyInstance
<1> QED
  BY <1>2, <1>3, <1>4, <1>5, <1>6 DEF IInv

-----------------------------------------------------------------------------
(* Queries.                                                                *)

\* A step of queries about p only adds what is true.
LEMMA CacheGrows ==
  ASSUME IInv, NEW p \in Physicals, Registered(p), NEW R \in SUBSET Request,
         native' = native \/ native' = NativeAfter(p, R), UNCHANGED <<stands, owner>>
  PROVE  CacheTrue'
<1>1. \A e \in native' : EntryTrue(e)
  BY EntriesTrue DEF IInv, CacheTrue
<1> QED
  BY <1>1 DEF CacheTrue, EntryTrue, Registered, DeviceOf

LEMMA AskedAboutRequests == \A p : AskedAbout(p) \in SUBSET Request
<1>1. \A n \in DOMAIN Representatives : Representatives[n] \in Compressed
  BY DEF Representatives, Compressed, Pairs, Srgb
<1> QED
  BY <1>1, DefaultRequests DEF AskedAbout

LEMMA FeaturesKeep ==
  ASSUME IInv, NEW p \in Physicals, GetPhysicalDeviceFeatures(p)
  PROVE  IInv'
<1>1. CacheTrue'
  BY CacheGrows, AskedAboutRequests DEF GetPhysicalDeviceFeatures
<1>2. PICK b \in BOOLEAN : runtime' = [runtime EXCEPT ![p].cached = TRUE, ![p].feature = b]
  BY DEF GetPhysicalDeviceFeatures, IInv, Typed
<1>3. Typed' /\ \A q \in Physicals : runtime'[q].xclipse = runtime[q].xclipse
  <2> DEFINE Runtimes == [xclipse : BOOLEAN, cached : BOOLEAN, feature : BOOLEAN]
  <2>1. runtime \in [Physicals -> Runtimes]
    BY DEF IInv, Typed
  <2>2. \A q \in Physicals : runtime'[q] \in Runtimes /\ runtime'[q].xclipse = runtime[q].xclipse
    BY <1>2, <2>1
  <2>3. runtime' \in [Physicals -> Runtimes]
    BY <1>2, <2>1, <2>2
  <2> QED
    BY <2>2, <2>3 DEF IInv, Typed, GetPhysicalDeviceFeatures
<1>4. Registrations'
  BY <1>3 DEF IInv, Registrations, Registered, DeviceOf, GetPhysicalDeviceFeatures
<1>5. ImageAsDecided' /\ QueryAsDecided'
  BY DEF IInv, ImageAsDecided, QueryAsDecided, Registered, DeviceOf, GetPhysicalDeviceFeatures
<1> QED
  BY <1>1, <1>3, <1>4, <1>5 DEF IInv

LEMMA FormatPropertiesKeep ==
  ASSUME IInv, NEW p \in Physicals, NEW f \in Compressed, GetPhysicalDeviceFormatProperties(p, f)
  PROVE  IInv'
<1>1. CacheTrue'
  BY CacheGrows, DefaultRequests DEF GetPhysicalDeviceFormatProperties
<1> QED
  BY <1>1 DEF IInv, Typed, Registrations, ImageAsDecided, QueryAsDecided, Registered, DeviceOf,
              GetPhysicalDeviceFormatProperties

LEMMA ImageQueryKeeps ==
  ASSUME IInv, NEW p \in Physicals, NEW r \in Requests, GetPhysicalDeviceImageFormatProperties(p, r)
  PROVE  IInv'
<1>1. r \in Request /\ Registered(p) /\ UNCHANGED <<stands, owner>>
  BY FormatsAssumption DEF GetPhysicalDeviceImageFormatProperties
<1>2. CacheTrue'
  BY <1>1, CacheGrows DEF GetPhysicalDeviceImageFormatProperties
<1>3. ShouldVirtualize(p, r) = Should(DeviceOf(p), r)
  BY <1>1, Decides DEF IInv
<1>4. QueryVirtualizes(p, r) = VirtualQuery(DeviceOf(p), r) /\ Answer(p, r) = AnswerOf(DeviceOf(p), r)
  BY <1>3 DEF QueryVirtualizes, VirtualQuery, Answer, AnswerOf, Prepared, PreparedOf
<1>5. QueryAsDecided'
  BY <1>1, <1>4
     DEF QueryAsDecided, Registered, DeviceOf, GetPhysicalDeviceImageFormatProperties
<1> QED
  BY <1>1, <1>2, <1>5 DEF IInv, Typed, Registrations, ImageAsDecided, Registered, DeviceOf,
              GetPhysicalDeviceImageFormatProperties

-----------------------------------------------------------------------------
(* Images.                                                                 *)

LEMMA CreateImageKeeps ==
  ASSUME IInv, NEW p \in Physicals, NEW r \in Requests, NEW shape \in Shapes, CreateImage(p, r, shape)
  PROVE  IInv'
<1>1. r \in Request /\ shape \in Shape /\ Registered(p) /\ UNCHANGED <<stands, owner>>
  BY FormatsAssumption DEF CreateImage
<1>2. CacheTrue'
  BY <1>1, CacheGrows DEF CreateImage
<1>3. ShouldVirtualize(p, r) = Should(DeviceOf(p), r)
  BY <1>1, Decides DEF IInv
<1>4. ImageAsDecided'
  <2> DEFINE d == DeviceOf(p)
             v == VirtualCreate(d, r, shape)
             real == RealOf(d, r, shape)
  <2>1. image' = [physical |-> p, request |-> r, shape |-> shape, virtual |-> v, real |-> real,
                  ok |-> Within(shape, DriverAnswer(d, real))]
    BY <1>3 DEF CreateImage, VirtualCreate, RealOf
  <2>2. Allowed(r, shape)
    BY DEF CreateImage, Allowed
  <2> QED
    BY <1>1, <2>1, <2>2 DEF ImageAsDecided, Registered, DeviceOf
<1> QED
  BY <1>1, <1>2, <1>4 DEF IInv, Typed, Registrations, QueryAsDecided, Registered, DeviceOf, CreateImage

LEMMA DestroyImageKeeps ==
  ASSUME IInv, DestroyImage
  PROVE  IInv'
  BY DEF IInv, Typed, Registrations, CacheTrue, EntryTrue, ImageAsDecided, QueryAsDecided, Registered,
         DeviceOf, DestroyImage

LEMMA OthersKeep ==
  ASSUME IInv, UNCHANGED <<stands, settings, owner, runtime, native, image, asked>>
  PROVE  IInv'
  BY DEF IInv, Typed, Registrations, CacheTrue, EntryTrue, ImageAsDecided, QueryAsDecided, Registered,
         DeviceOf

LEMMA IInvInit == Init => IInv
<1> SUFFICES ASSUME Init PROVE IInv
  OBVIOUS
<1>1. Typed
  BY DEF Init, Typed, NoRuntime
<1> QED
  BY <1>1 DEF Init, IInv, Registrations, Registered, CacheTrue, ImageAsDecided, QueryAsDecided

LEMMA IInvNext == IInv /\ [Next]_vars => IInv'
<1> SUFFICES ASSUME IInv, [Next]_vars PROVE IInv'
  OBVIOUS
<1>1. ASSUME NEW f \in Compressed, CreateImageView(f)
      PROVE  IInv'
  BY <1>1, OthersKeep DEF CreateImageView
<1>2. CASE UNCHANGED vars
  BY <1>2, OthersKeep DEF vars
<1> QED
  BY <1>1, <1>2, CreateInstanceKeeps, EnumerateKeeps, DestroyInstanceKeeps, FeaturesKeep,
     FormatPropertiesKeep, ImageQueryKeeps, CreateImageKeeps, DestroyImageKeeps DEF Next

-----------------------------------------------------------------------------
(* Query and creation agree.                                               *)

LEMMA DeviceTyped ==
  ASSUME Typed, Registrations, NEW p \in Physicals, Registered(p)
  PROVE  DeviceOf(p) \in Capabilities
  BY FormatsAssumption DEF Registrations, DeviceOf

\* The two sets of flags differ in one flag, which the driver does not refuse.
LEMMA FlagsAlike ==
  ASSUME NEW d \in Capabilities, "mutable" \notin d.refuses, NEW r \in Request
  PROVE  /\ CreateFlags(r) \intersect d.refuses = ReplacementFlags(r) \intersect d.refuses
         /\ "block_view" \notin CreateFlags(r) /\ "block_view" \notin ReplacementFlags(r)
         /\ CreateFlags(r) \subseteq Flags /\ ReplacementFlags(r) \subseteq Flags
  BY DEF CreateFlags, ReplacementFlags, Capabilities, Request, Flags

LEMMA SupportsAlike ==
  ASSUME NEW d \in Capabilities, "mutable" \notin d.refuses, NEW r \in Request, NEW f \in AllFormats
  PROVE  Supports(d, [r EXCEPT !.format = f, !.usage = r.usage \union InternalUsage,
                               !.flags = CreateFlags(r), !.external = FALSE])
           = Supports(d, [r EXCEPT !.format = f, !.usage = r.usage \union InternalUsage,
                                   !.flags = ReplacementFlags(r), !.external = FALSE])
  BY FlagsAlike DEF Supports, DriverAnswer, Request

LEMMA ReplacementAlike ==
  ASSUME NEW d \in Capabilities, "mutable" \notin d.refuses, NEW r \in Request
  PROVE  Replacement(d, r, CreateFlags(r)) = Replacement(d, r, ReplacementFlags(r))
<1>1. Narrow(r.format) # None => Narrow(r.format) \in AllFormats
  BY DEF Narrow, AllFormats, Replacements
<1> QED
  BY <1>1, SupportsAlike DEF Replacement

LEMMA AnswersAlike ==
  ASSUME NEW d \in Capabilities, "mutable" \notin d.refuses, NEW r \in Request, ~r.external
  PROVE  DriverAnswer(d, Virtualized(d, r)) = DriverAnswer(d, PreparedOf(d, r))
<1> DEFINE f == Replacement(d, r, ReplacementFlags(r))
<1>1. Virtualized(d, r) = [r EXCEPT !.format = f, !.usage = r.usage \union InternalUsage,
                                    !.flags = CreateFlags(r)]
  BY ReplacementAlike DEF Virtualized
<1> HIDE DEF f
<1>2. /\ Virtualized(d, r).format = f /\ Virtualized(d, r).usage = r.usage \union InternalUsage
      /\ Virtualized(d, r).flags = CreateFlags(r) /\ ~Virtualized(d, r).external
      /\ Virtualized(d, r).tiling = r.tiling /\ Virtualized(d, r).type = r.type
  BY <1>1 DEF Request
<1>3. /\ PreparedOf(d, r).format = f /\ PreparedOf(d, r).usage = r.usage \union InternalUsage
      /\ PreparedOf(d, r).flags = ReplacementFlags(r) /\ ~PreparedOf(d, r).external
      /\ PreparedOf(d, r).tiling = r.tiling /\ PreparedOf(d, r).type = r.type
  BY DEF PreparedOf, f, Request
<1> QED
  BY <1>2, <1>3, FlagsAlike DEF DriverAnswer

LEMMA MinBelow ==
  ASSUME NEW a \in Nat, NEW b \in Nat
  PROVE  Min({a, b}) <= a /\ Min({a, b}) \in Nat
<1>1. \E x \in {a, b} : \A y \in {a, b} : x <= y
  <2>1. CASE a <= b
    BY <2>1
  <2>2. CASE b <= a
    BY <2>2
  <2> QED
    BY <2>1, <2>2
<1> QED
  BY <1>1 DEF Min

\* An answer, and what is left of it, for an image within what is left.
LEMMA NormalizedWithin ==
  ASSUME NEW d \in Capabilities, NEW r \in Request, NEW shape \in Shape, Allowed(r, shape),
         NEW q, q.type = r.type,
         Within(shape, Normalized(r, d, DriverAnswer(d, q)))
  PROVE  ~Unsupported(r) /\ shape.samples = 1 /\ Within(shape, DriverAnswer(d, q))
<1> DEFINE answer == DriverAnswer(d, q)
<1>1. /\ ~Unsupported(r) /\ 1 \in answer.samples
      /\ Normalized(r, d, answer) =
           [samples |-> {1},
            layers |-> IF r.type = "3D" THEN 1
                       ELSE IF "cube" \in r.flags THEN answer.layers - (answer.layers % 6)
                       ELSE answer.layers,
            mips |-> Min({answer.mips, d.levels})]
  BY DEF Normalized, Within, Refused
<1>2. answer = [samples |-> d.samples, layers |-> IF r.type = "3D" THEN 1 ELSE d.layers, mips |-> d.mips]
  BY <1>1 DEF DriverAnswer, Refused
<1>3. d.layers \in Nat /\ d.mips \in Nat /\ d.levels \in Nat /\ shape.layers \in Nat /\ shape.mips \in Nat
  BY DEF Capabilities, Shape
<1> HIDE DEF answer
<1>4. answer.layers \in Nat /\ answer.mips \in Nat
  BY <1>2, <1>3
<1>5. shape.samples = 1 /\ shape.mips <= Min({answer.mips, d.levels})
  BY <1>1 DEF Within, answer
<1>6. shape.mips <= answer.mips
  BY <1>3, <1>4, <1>5, MinBelow
<1>7. answer.layers - (answer.layers % 6) <= answer.layers
  BY <1>4
<1>8. shape.layers <= answer.layers
  BY <1>1, <1>2, <1>3, <1>4, <1>7 DEF Within, answer
<1> QED
  BY <1>1, <1>5, <1>6, <1>8 DEF Within, answer

LEMMA Agreement ==
  ASSUME NEW d \in Capabilities, "mutable" \notin d.refuses,
         NEW r \in Request, NEW shape \in Shape, Allowed(r, shape),
         Within(shape, AnswerOf(d, r))
  PROVE  /\ VirtualCreate(d, r, shape) = VirtualQuery(d, r)
         /\ Within(shape, DriverAnswer(d, RealOf(d, r, shape)))
<1>1. ViewTypeSupported(r)
  BY DEF AnswerOf, Within, Refused
<1>2. VirtualCreate(d, r, shape) \in BOOLEAN /\ VirtualQuery(d, r) \in BOOLEAN
  BY DEF VirtualCreate, VirtualQuery
<1>3. CASE VirtualQuery(d, r)
  <2>1. PreparedOf(d, r).type = r.type
    BY DEF PreparedOf, Request
  <2>2. ~Unsupported(r) /\ shape.samples = 1 /\ Within(shape, DriverAnswer(d, PreparedOf(d, r)))
    BY <1>1, <1>3, <2>1, NormalizedWithin DEF AnswerOf
  <2>3. ~r.external /\ r.type # "1D" /\ Should(d, r)
    BY <1>3 DEF VirtualQuery, Should
  <2>4. VirtualCreate(d, r, shape)
    BY <2>2, <2>3 DEF VirtualCreate, CanVirtualize, Allowed
  <2> QED
    BY <1>2, <1>3, <2>2, <2>3, <2>4, AnswersAlike DEF RealOf
<1>4. CASE ~VirtualQuery(d, r)
  <2>1. ~VirtualCreate(d, r, shape)
    BY <1>1, <1>4 DEF VirtualQuery, VirtualCreate, CanVirtualize
  <2> QED
    BY <1>1, <1>2, <1>4, <2>1 DEF AnswerOf, RealOf
<1> QED
  BY <1>2, <1>3, <1>4

-----------------------------------------------------------------------------

LEMMA Inductive == Spec => []IInv
  BY IInvInit, IInvNext, PTL DEF Spec

\* However instances come and go and handles are reused, the cached native support of a
\* handle is what the driver would say of the device it stands for (is_native_bcn_supported,
\* layer_DestroyInstance).
THEOREM CacheAlwaysTrue == Spec => []CacheTellsTheTruth
<1>1. IInv => CacheTellsTheTruth
  BY DEF IInv, CacheTrue, EntryTrue, CacheTellsTheTruth
<1> QED
  BY <1>1, Inductive, PTL

\* For every driver that does not refuse an image because its views may have other formats:
\* an image within what vkGetPhysicalDeviceImageFormatProperties answered can be created,
\* and is virtual just if the answer was about its replacement
\* (prepare_virtual_bcn_image_format_query, can_virtualize_bcn_image_create_info).
THEOREM QueryAlwaysMatchesCreate ==
  ASSUME MutableSupported
  PROVE  Spec => []QueryMatchesCreate
<1>1. ASSUME IInv
      PROVE  QueryMatchesCreate
  <2> SUFFICES ASSUME image # NoImage, asked.physical = image.physical,
                      asked.request = image.request, Within(image.shape, asked.limits)
               PROVE  image.ok /\ image.virtual = asked.virtual
    BY DEF QueryMatchesCreate
  <2>1. asked # NoQuestion /\ image.physical \in Physicals
    BY <1>1, FormatsAssumption DEF IInv, ImageAsDecided, NoQuestion
  <2>2. /\ DeviceOf(image.physical) \in Capabilities
        /\ "mutable" \notin DeviceOf(image.physical).refuses
    <3>1. Registered(image.physical) /\ stands[image.physical].device \in Devices
      BY <1>1, <2>1 DEF IInv, ImageAsDecided, Registrations
    <3> QED
      BY <1>1, <2>1, <3>1, DeviceTyped, MutableSupported DEF IInv, MutableSupported, DeviceOf
  <2>3. /\ image.virtual = VirtualCreate(DeviceOf(image.physical), image.request, image.shape)
        /\ image.ok = Within(image.shape, DriverAnswer(DeviceOf(image.physical),
                               RealOf(DeviceOf(image.physical), image.request, image.shape)))
        /\ Allowed(image.request, image.shape) /\ image.request \in Request /\ image.shape \in Shape
    BY <1>1 DEF IInv, ImageAsDecided
  <2>4. /\ asked.virtual = VirtualQuery(DeviceOf(image.physical), image.request)
        /\ asked.limits = AnswerOf(DeviceOf(image.physical), image.request)
    BY <1>1, <2>1 DEF IInv, QueryAsDecided
  <2> QED
    BY <2>2, <2>3, <2>4, Agreement
<1> QED
  BY <1>1, Inductive, PTL

-----------------------------------------------------------------------------
(* Views and decoding.                                                     *)

\* A format and the other of its pair.
Related(f, g) == f \in Compressed /\ g \in Compressed /\ SrgbVariant(f) = SrgbVariant(g)

\* The replacement is one of two.
RealFor(f, real) == real \in {Narrow(f), Fallback(f)} \ {None}

ViewAsMade(v) ==
  /\ Related(v.format, image.request.format)
  /\ v.real = IF v.format \in Srgb THEN "RGBA8_SRGB" ELSE image.real.format

VirtualRecord == [requested : Compressed, decode : Compressed, real : Replacements, srgb_view : BOOLEAN]

\* What g_virtual_images says of the image there is.
VirtualAsMade ==
  /\ image.ok => image # NoImage
  /\ ~image.ok => virtual = NoInfo /\ views = {}
  /\ image.ok /\ ~image.virtual => virtual = NoInfo
  /\ image.ok /\ image.virtual =>
       /\ virtual \in VirtualRecord
       /\ virtual.requested = image.request.format /\ virtual.real = image.real.format
       /\ Related(virtual.requested, virtual.decode)
       /\ virtual.srgb_view <=> virtual.requested \in Srgb \/ \E v \in views : v.format \in Srgb
       /\ virtual.srgb_view <=> virtual.decode \in Srgb
       /\ \A v \in views : ViewAsMade(v)
  /\ image # NoImage /\ image.virtual =>
       /\ RealFor(image.request.format, image.real.format)
       /\ "storage" \in image.real.usage
       /\ image.request.format \in Pairs => "mutable" \in image.real.flags

LEMMA RealForReplacement ==
  ASSUME NEW d, NEW r \in Request, NEW flags
  PROVE  RealFor(r.format, Replacement(d, r, flags))
<1>1. Fallback(r.format) # None
  BY FormatsAssumption DEF Request, Fallback, Compressed, Pairs, Srgb, AllFormats, Replacements
<1> QED
  BY <1>1 DEF RealFor, Replacement

LEMMA RealsOfPairs ==
  ASSUME NEW f \in Compressed, NEW real, RealFor(f, real)
  PROVE  /\ f \in Pairs => real = "RGBA8_UNORM"
         /\ real # "RGBA8_SRGB" /\ real \in Replacements
  BY DEF RealFor, Narrow, Fallback, Compressed, Pairs, Srgb, Replacements

\* A new virtual image.
LEMMA CreateImageMakes ==
  ASSUME VirtualAsMade, NEW p \in Physicals, NEW r \in Requests, NEW shape \in Shapes,
         CreateImage(p, r, shape)
  PROVE  VirtualAsMade'
<1> DEFINE d == DeviceOf(p)
           v == CanVirtualize(r, shape) /\ ShouldVirtualize(p, r)
           real == IF v THEN Virtualized(d, r) ELSE r
           ok == Within(shape, DriverAnswer(d, real))
<1>1. /\ image' = [physical |-> p, request |-> r, shape |-> shape, virtual |-> v, real |-> real,
                   ok |-> ok]
      /\ virtual' = IF v /\ ok THEN [requested |-> r.format, decode |-> r.format,
                                     real |-> real.format, srgb_view |-> r.format \in Srgb]
                    ELSE NoInfo
      /\ views' = views /\ views = {} /\ r \in Request
  BY FormatsAssumption DEF CreateImage, VirtualAsMade
<1>2. r.format \in Compressed /\ image' # NoImage
  BY <1>1, FormatsAssumption DEF Request, NoImage
<1>3. v => /\ RealFor(r.format, real.format) /\ "storage" \in real.usage
           /\ r.format \in Pairs => "mutable" \in real.flags
  <2> SUFFICES ASSUME v PROVE /\ RealFor(r.format, real.format) /\ "storage" \in real.usage
                              /\ r.format \in Pairs => "mutable" \in real.flags
    OBVIOUS
  <2>1. /\ real.format = Replacement(d, r, CreateFlags(r))
        /\ real.usage = r.usage \union InternalUsage /\ real.flags = CreateFlags(r)
    BY <1>1 DEF Virtualized, Request
  <2> QED
    BY <1>1, <2>1, RealForReplacement DEF CreateFlags, InternalUsage
<1> HIDE DEF v, real, ok
<1>4. v \in BOOLEAN /\ ok \in BOOLEAN
  BY DEF v, ok, Within
<1>5. /\ image'.request = r /\ image'.virtual = v /\ image'.real = real /\ image'.ok = ok
  BY <1>1
<1>6. CASE v /\ ok
  <2>1. /\ virtual' = [requested |-> r.format, decode |-> r.format, real |-> real.format,
                        srgb_view |-> r.format \in Srgb]
        /\ image'.ok /\ image'.virtual /\ views' = {}
    BY <1>1, <1>4, <1>5, <1>6
  <2>2. virtual' \in VirtualRecord
    BY <1>2, <1>3, <1>6, <2>1, RealsOfPairs DEF VirtualRecord
  <2>3. /\ virtual'.requested = r.format /\ virtual'.real = real.format
        /\ Related(virtual'.requested, virtual'.decode)
        /\ virtual'.srgb_view <=> virtual'.requested \in Srgb \/ \E w \in views' : w.format \in Srgb
        /\ virtual'.srgb_view <=> virtual'.decode \in Srgb
    BY <1>2, <2>1 DEF Related
  <2>4. \A w \in views' : ViewAsMade(w)'
    BY <2>1
  <2> QED
    BY <1>2, <1>3, <1>5, <1>6, <2>1, <2>2, <2>3, <2>4 DEF VirtualAsMade
<1>7. CASE ~(v /\ ok)
  BY <1>1, <1>2, <1>3, <1>4, <1>5, <1>7 DEF VirtualAsMade
<1> QED
  BY <1>6, <1>7

\* A new view of it.
LEMMA CreateImageViewMakes ==
  ASSUME VirtualAsMade, NEW f \in Compressed, CreateImageView(f)
  PROVE  VirtualAsMade'
<1>1. image' = image /\ image.ok /\ image # NoImage
  BY DEF CreateImageView, VirtualAsMade
<1>2. CASE ~image.virtual
  BY <1>1, <1>2 DEF CreateImageView, VirtualAsMade
<1>3. CASE image.virtual
  <2> DEFINE g == image.request.format
  <2>1. /\ virtual.requested = g /\ virtual.real = image.real.format /\ Related(g, virtual.decode)
        /\ virtual.srgb_view <=> g \in Srgb \/ \E v \in views : v.format \in Srgb
        /\ virtual.srgb_view <=> virtual.decode \in Srgb
        /\ virtual \in VirtualRecord /\ \A v \in views : ViewAsMade(v)
        /\ RealFor(g, image.real.format)
    BY <1>1, <1>3 DEF VirtualAsMade
  <2>2. virtual # NoInfo /\ g \in Compressed
    BY <2>1, FormatsAssumption DEF NoInfo, Related, AllFormats
  <2>3. /\ views' = views \union {[format |-> f, real |-> ViewFormat(f)]}
        /\ virtual' = [virtual EXCEPT !.srgb_view = @ \/ f \in Srgb, !.decode = DecodeAfterView(f)]
    BY <2>2 DEF CreateImageView
  <2>4. Related(f, g)
    BY <2>2 DEF CreateImageView, Related, SrgbVariant, UnormVariant, Compressed, Pairs, Srgb
  <2>5. ViewFormat(f) = IF f \in Srgb THEN "RGBA8_SRGB" ELSE image.real.format
    <3>1. f \in Pairs <=> g \in Pairs
      BY <2>2, <2>4 DEF Related, SrgbVariant, Compressed, Pairs, Srgb
    <3>2. f \in Pairs => image.real.format = "RGBA8_UNORM"
      BY <2>1, <2>2, <3>1, RealsOfPairs
    <3> QED
      BY <2>1, <3>2 DEF ViewFormat, SrgbView, UnormView, Pairs
  <2>6. /\ Related(g, DecodeAfterView(f))
        /\ DecodeAfterView(f) \in Srgb <=> virtual.srgb_view \/ f \in Srgb
    BY <2>1, <2>2, <2>4
       DEF DecodeAfterView, Related, SrgbVariant, UnormVariant, Compressed, Pairs, Srgb
  <2>7. /\ virtual' \in VirtualRecord
        /\ virtual'.requested = g /\ virtual'.real = image.real.format
        /\ virtual'.decode = DecodeAfterView(f)
        /\ virtual'.srgb_view <=> virtual.srgb_view \/ f \in Srgb
    BY <2>1, <2>3, <2>6 DEF VirtualRecord, Related
  <2>8. \A v \in views' : ViewAsMade(v)'
    BY <1>1, <2>1, <2>3, <2>4, <2>5 DEF ViewAsMade
  <2>9. virtual'.srgb_view <=> (g \in Srgb \/ \E v \in views' : v.format \in Srgb)
    <3>1. (\E v \in views' : v.format \in Srgb) <=> (f \in Srgb \/ \E v \in views : v.format \in Srgb)
      <4>1. [format |-> f, real |-> ViewFormat(f)].format = f
        OBVIOUS
      <4> QED
        BY <2>3, <4>1
    <3>2. virtual.srgb_view <=> (g \in Srgb \/ \E v \in views : v.format \in Srgb)
      BY <2>1
    <3> QED
      BY <2>7, <3>1, <3>2
  <2> QED
    BY <1>1, <1>3, <2>1, <2>6, <2>7, <2>8, <2>9 DEF VirtualAsMade
<1> QED
  BY <1>2, <1>3 DEF VirtualAsMade

\* There is a shader from each compressed format to each of its replacements.
LEMMA ShaderForEach ==
  ASSUME NEW f, NEW g, NEW real, Related(f, g), RealFor(f, real)
  PROVE  /\ DecodeShader(g, real) # None
         /\ ShaderWrites(DecodeShader(g, real)) = real
<1>1. CASE g \in {"BC1_UNORM", "BC1_SRGB"}
  <2>1. f \in {"BC1_UNORM", "BC1_SRGB"}
    BY <1>1 DEF Related, SrgbVariant, Compressed, Pairs, Srgb
  <2>2. real \in {"RGBA8_UNORM"}
    BY <2>1 DEF RealFor, Narrow, Fallback, Pairs, Srgb
  <2>3. DecodeShader(g, real) \in ShaderKinds /\ ShaderWrites(DecodeShader(g, real)) = real
    BY <1>1, <2>2 DEF DecodeShader, ShaderWrites, ShaderKinds
  <2> QED
    BY <2>3, FormatsAssumption
<1>2. CASE g \in {"BC7_UNORM", "BC7_SRGB"}
  <2>1. f \in {"BC7_UNORM", "BC7_SRGB"}
    BY <1>2 DEF Related, SrgbVariant, Compressed, Pairs, Srgb
  <2>2. real \in {"RGBA8_UNORM"}
    BY <2>1 DEF RealFor, Narrow, Fallback, Pairs, Srgb
  <2>3. DecodeShader(g, real) \in ShaderKinds /\ ShaderWrites(DecodeShader(g, real)) = real
    BY <1>2, <2>2 DEF DecodeShader, ShaderWrites, ShaderKinds
  <2> QED
    BY <2>3, FormatsAssumption
<1>3. CASE g = "BC4_UNORM"
  <2>1. f \in {"BC4_UNORM"}
    BY <1>3 DEF Related, SrgbVariant, Compressed, Pairs, Srgb
  <2>2. real \in {"R8_UNORM", "RGBA8_UNORM"}
    BY <2>1 DEF RealFor, Narrow, Fallback, Pairs, Srgb
  <2>3. DecodeShader(g, real) \in ShaderKinds /\ ShaderWrites(DecodeShader(g, real)) = real
    BY <1>3, <2>2 DEF DecodeShader, ShaderWrites, ShaderKinds
  <2> QED
    BY <2>3, FormatsAssumption
<1>4. CASE g = "BC4_SNORM"
  <2>1. f \in {"BC4_SNORM"}
    BY <1>4 DEF Related, SrgbVariant, Compressed, Pairs, Srgb
  <2>2. real \in {"R8_SNORM", "RGBA8_SNORM"}
    BY <2>1 DEF RealFor, Narrow, Fallback, Pairs, Srgb
  <2>3. DecodeShader(g, real) \in ShaderKinds /\ ShaderWrites(DecodeShader(g, real)) = real
    BY <1>4, <2>2 DEF DecodeShader, ShaderWrites, ShaderKinds
  <2> QED
    BY <2>3, FormatsAssumption
<1>5. CASE g = "BC6H_UFLOAT"
  <2>1. f \in {"BC6H_UFLOAT"}
    BY <1>5 DEF Related, SrgbVariant, Compressed, Pairs, Srgb
  <2>2. real \in {"RGBA16F"}
    BY <2>1 DEF RealFor, Narrow, Fallback, Pairs, Srgb
  <2>3. DecodeShader(g, real) \in ShaderKinds /\ ShaderWrites(DecodeShader(g, real)) = real
    BY <1>5, <2>2 DEF DecodeShader, ShaderWrites, ShaderKinds
  <2> QED
    BY <2>3, FormatsAssumption
<1> QED
  BY <1>1, <1>2, <1>3, <1>4, <1>5 DEF Related, Compressed, Pairs, Srgb

LEMMA ViewsInit == Init => VirtualAsMade
  BY FormatsAssumption DEF Init, VirtualAsMade, NoImage

LEMMA ViewsNext == VirtualAsMade /\ [Next]_vars => VirtualAsMade'
<1> SUFFICES ASSUME VirtualAsMade, [Next]_vars PROVE VirtualAsMade'
  OBVIOUS
<1>1. ASSUME UNCHANGED <<virtual, image, views>> PROVE VirtualAsMade'
  BY <1>1 DEF VirtualAsMade, ViewAsMade
<1>2. ASSUME NEW i \in Instances, EnumeratePhysicalDevices(i) \/ DestroyInstance(i)
      PROVE  VirtualAsMade'
  BY <1>1, <1>2 DEF EnumeratePhysicalDevices, DestroyInstance
<1>3. ASSUME NEW i, NEW p, NEW d, NEW s, CreateInstance(i, p, d, s)
      PROVE  VirtualAsMade'
  BY <1>1, <1>3 DEF CreateInstance
<1>4. ASSUME NEW p \in Physicals, GetPhysicalDeviceFeatures(p)
      PROVE  VirtualAsMade'
  BY <1>1, <1>4 DEF GetPhysicalDeviceFeatures
<1>5. ASSUME NEW p \in Physicals, NEW f, GetPhysicalDeviceFormatProperties(p, f)
      PROVE  VirtualAsMade'
  BY <1>1, <1>5 DEF GetPhysicalDeviceFormatProperties
<1>6. ASSUME NEW p \in Physicals, NEW r, GetPhysicalDeviceImageFormatProperties(p, r)
      PROVE  VirtualAsMade'
  BY <1>1, <1>6 DEF GetPhysicalDeviceImageFormatProperties
<1>7. ASSUME DestroyImage
      PROVE  VirtualAsMade'
  BY <1>7, FormatsAssumption DEF DestroyImage, VirtualAsMade, NoImage
<1>8. CASE UNCHANGED vars
  BY <1>1, <1>8 DEF vars
<1> QED
  BY <1>2, <1>3, <1>4, <1>5, <1>6, <1>7, <1>8, CreateImageMakes, CreateImageViewMakes DEF Next

LEMMA ViewsInductive == Spec => []VirtualAsMade
  BY ViewsInit, ViewsNext, PTL DEF Spec

\* Views of a virtual image are sRGB just if they should be, and have another format than it
\* only if it was created to allow that, whatever the driver supports
\* (create_virtualized_image_view, try_create_virtualized_image).
THEOREM ViewsAlwaysValid == Spec => []ViewsValid
<1>1. ASSUME VirtualAsMade
      PROVE  ViewsValid
  <2> SUFFICES ASSUME image # NoImage, image.virtual, NEW v \in views
               PROVE  /\ (v.format \in Srgb) <=> (v.real = "RGBA8_SRGB")
                      /\ v.real = image.real.format \/ "mutable" \in image.real.flags
    BY DEF ViewsValid
  <2>1. /\ image.ok /\ ViewAsMade(v) /\ RealFor(image.request.format, image.real.format)
        /\ image.request.format \in Pairs => "mutable" \in image.real.flags
    BY <1>1 DEF VirtualAsMade
  <2>2. v.format \in Srgb => image.request.format \in Pairs
    BY <2>1 DEF ViewAsMade, Related, SrgbVariant, Compressed, Pairs, Srgb
  <2>3. image.real.format # "RGBA8_SRGB"
    BY <2>1, RealsOfPairs DEF ViewAsMade, Related
  <2> QED
    BY <2>1, <2>2, <2>3 DEF ViewAsMade
<1> QED
  BY <1>1, ViewsInductive, PTL

\* Whatever replacement the driver's answers lead to and whatever views are made, there is a
\* decode shader for a virtual image, and it writes the texels of its format
\* (shader_kind_for_decode, decode_format).
THEOREM AlwaysDecodable == Spec => []VirtualImagesDecodable
<1>1. ASSUME VirtualAsMade
      PROVE  VirtualImagesDecodable
  <2> SUFFICES ASSUME virtual # NoInfo
               PROVE  /\ "storage" \in image.real.usage
                      /\ DecodeShader(virtual.decode, virtual.real) # None
                      /\ ShaderWrites(DecodeShader(virtual.decode, virtual.real)) = virtual.real
                      /\ virtual.decode \in Srgb
                           <=> virtual.requested \in Srgb \/ \E v \in views : v.format \in Srgb
    BY DEF VirtualImagesDecodable
  <2>1. /\ image # NoImage /\ image.ok /\ image.virtual
        /\ Related(virtual.requested, virtual.decode) /\ RealFor(virtual.requested, virtual.real)
        /\ "storage" \in image.real.usage
        /\ virtual.srgb_view <=> virtual.requested \in Srgb \/ \E v \in views : v.format \in Srgb
        /\ virtual.srgb_view <=> virtual.decode \in Srgb
    BY <1>1 DEF VirtualAsMade
  <2>2. /\ DecodeShader(virtual.decode, virtual.real) # None
        /\ ShaderWrites(DecodeShader(virtual.decode, virtual.real)) = virtual.real
    BY <2>1, ShaderForEach
  <2> QED
    BY <2>1, <2>2
<1> QED
  BY <1>1, ViewsInductive, PTL

-----------------------------------------------------------------------------
(* Promises.                                                               *)

\* Who was told of textureCompressionBC has a handle of a device that has it, or of one
\* whose missing formats are virtualized; and so has who will be told of it from the cache.
PromisesMade ==
  /\ told \in [Physicals -> BOOLEAN \union {None}]
  /\ \A p \in Physicals :
       told[p] = TRUE => Registered(p) /\ (DeviceOf(p).bc \/ DeviceOf(p).xclipse)
  /\ \A p \in Physicals :
       runtime[p].cached /\ runtime[p].feature => Registered(p) /\ DeviceOf(p).xclipse

\* Nobody was told anything at first.
LEMMA InitPromises == Init => PromisesMade
<1> SUFFICES ASSUME Init PROVE PromisesMade
  OBVIOUS
<1>1. told = [p \in Physicals |-> None] /\ runtime = [p \in Physicals |-> NoRuntime]
  BY DEF Init
<1>2. None # TRUE /\ NoRuntime.cached = FALSE
  BY FormatsAssumption DEF NoRuntime
<1> QED
  BY <1>1, <1>2 DEF PromisesMade

\* Promises about handles that keep their devices.
LEMMA PromisesStand ==
  ASSUME PromisesMade, \A p \in Physicals : Registered(p) => Kept(p),
         told' = told,
         \A p \in Physicals : runtime'[p] = runtime[p] \/ runtime'[p].cached = FALSE
  PROVE  PromisesMade'
<1>1. \A p \in Physicals : Registered(p) => Registered(p)' /\ (DeviceOf(p))' = DeviceOf(p)
  BY DEF Kept, DeviceOf
<1> QED
  BY <1>1 DEF PromisesMade, Registered, DeviceOf

\* The promises of a handle end with its instance.
LEMMA DestroyInstancePromises ==
  ASSUME IInv, PromisesMade, NEW i \in Instances, DestroyInstance(i)
  PROVE  PromisesMade'
<1> DEFINE P == {p \in Physicals : owner[p] = i}
<1>1. \A p \in Physicals : Registered(p) /\ owner[p] # i => Kept(p)
  BY DEF IInv, Typed, Registrations, DestroyInstance, Kept, Registered
<1>2. /\ told' = [p \in Physicals |-> IF p \in P THEN None ELSE told[p]]
      /\ runtime' = [p \in Physicals |-> IF p \in P THEN NoRuntime ELSE runtime[p]]
  BY DEF DestroyInstance
<1>3. None # TRUE /\ NoRuntime.cached = FALSE
  BY FormatsAssumption DEF NoRuntime
<1>4. \A p \in Physicals \ P : Registered(p) => Registered(p)' /\ (DeviceOf(p))' = DeviceOf(p)
  BY <1>1 DEF Kept, DeviceOf
<1>5. told' \in [Physicals -> BOOLEAN \union {None}]
  BY <1>2 DEF PromisesMade
<1>6. ASSUME NEW p \in Physicals, told'[p] = TRUE
      PROVE  Registered(p)' /\ ((DeviceOf(p))'.bc \/ (DeviceOf(p))'.xclipse)
  BY <1>2, <1>3, <1>4, <1>6 DEF PromisesMade
<1>7. ASSUME NEW p \in Physicals, runtime'[p].cached, runtime'[p].feature
      PROVE  Registered(p)' /\ (DeviceOf(p))'.xclipse
  BY <1>2, <1>3, <1>4, <1>7 DEF PromisesMade
<1> QED
  BY <1>5, <1>6, <1>7 DEF PromisesMade, Registered, DeviceOf

\* A device is said to have textureCompressionBC if it has, or if the layer virtualizes one
\* of the formats it asks about.
LEMMA FeaturesPromises ==
  ASSUME IInv, PromisesMade, NEW p \in Physicals, GetPhysicalDeviceFeatures(p)
  PROVE  PromisesMade'
<1> DEFINE advertise == IF runtime[p].cached THEN runtime[p].feature
                        ELSE \E r \in AskedAbout(p) : ShouldVirtualize(p, r)
<1>1. /\ Registered(p)
      /\ told' = [told EXCEPT ![p] = DeviceOf(p).bc \/ advertise]
      /\ runtime' = [runtime EXCEPT ![p].cached = TRUE, ![p].feature = advertise]
      /\ UNCHANGED <<stands, owner>>
  BY DEF GetPhysicalDeviceFeatures
<1>2. advertise => DeviceOf(p).xclipse
  <2>1. CASE runtime[p].cached
    BY <2>1 DEF PromisesMade
  <2>2. CASE ~runtime[p].cached
    <3>1. \A r \in AskedAbout(p) : ShouldVirtualize(p, r) => DeviceOf(p).xclipse
      BY <1>1, AskedAboutRequests, Decides DEF IInv, Should
    <3> QED
      BY <2>2, <3>1
  <2> QED
    BY <2>1, <2>2
<1>3. advertise \in BOOLEAN /\ DeviceOf(p).bc \in BOOLEAN
  <2>1. runtime[p].feature \in BOOLEAN
    BY DEF IInv, Typed
  <2>2. DeviceOf(p).bc \in BOOLEAN
    BY <1>1, DeviceTyped DEF IInv, Capabilities
  <2> QED
    BY <2>1, <2>2
<1> HIDE DEF advertise
<1>4. \A q \in Physicals : (DeviceOf(q))' = DeviceOf(q) /\ Registered(q)' = Registered(q)
  BY <1>1 DEF DeviceOf, Registered
<1>5. told' \in [Physicals -> BOOLEAN \union {None}]
  BY <1>1, <1>3 DEF PromisesMade
<1>6. ASSUME NEW q \in Physicals, told'[q] = TRUE
      PROVE  Registered(q) /\ (DeviceOf(q).bc \/ DeviceOf(q).xclipse)
  BY <1>1, <1>2, <1>3, <1>6 DEF PromisesMade
<1>7. ASSUME NEW q \in Physicals, runtime'[q].cached, runtime'[q].feature
      PROVE  Registered(q) /\ DeviceOf(q).xclipse
  <2>1. CASE q = p
    <3>1. runtime'[p].feature = advertise
      BY <1>1 DEF IInv, Typed
    <3> QED
      BY <1>1, <1>2, <1>7, <2>1, <3>1
  <2>2. CASE q # p
    <3>1. runtime'[q] = runtime[q]
      BY <1>1, <2>2 DEF IInv, Typed
    <3> QED
      BY <1>7, <3>1 DEF PromisesMade
  <2> QED
    BY <2>1, <2>2
<1> QED
  BY <1>4, <1>5, <1>6, <1>7 DEF PromisesMade, Registered, DeviceOf

\* Every step keeps to what was promised.
LEMMA NextPromises == IInv /\ PromisesMade /\ [Next]_vars => PromisesMade'
<1> SUFFICES ASSUME IInv, PromisesMade, [Next]_vars PROVE PromisesMade'
  OBVIOUS
<1>1. ASSUME UNCHANGED <<stands, owner, runtime, told>> PROVE PromisesMade'
  BY <1>1 DEF PromisesMade, Registered, DeviceOf
<1>2. ASSUME NEW i \in Instances, NEW q \in Physicals, NEW d \in Devices, NEW s,
             CreateInstance(i, q, d, s)
      PROVE  PromisesMade'
  <2>1. \A p \in Physicals : Registered(p) => Kept(p)
    BY <1>2, NoHandleFree DEF IInv, Typed, Registrations, CreateInstance, Kept, Registered
  <2>2. \A p \in Physicals : runtime'[p].cached = FALSE
    BY <1>2 DEF CreateInstance, IInv, Typed
  <2>3. told' = told
    BY <1>2 DEF CreateInstance
  <2> QED
    BY <2>1, <2>2, <2>3, PromisesStand
<1>3. ASSUME NEW i \in Instances, EnumeratePhysicalDevices(i)
      PROVE  PromisesMade'
  <2>1. \A p \in Physicals : Registered(p) => Kept(p)
    BY <1>3, FormatsAssumption DEF IInv, Typed, EnumeratePhysicalDevices, Kept, Registered
  <2>2. \A p \in Physicals : runtime'[p] = runtime[p] \/ runtime'[p].cached = FALSE
    BY <1>3 DEF EnumeratePhysicalDevices, NoRuntime
  <2>3. told' = told
    BY <1>3 DEF EnumeratePhysicalDevices
  <2> QED
    BY <2>1, <2>2, <2>3, PromisesStand
<1>4. ASSUME NEW p \in Physicals, NEW f, GetPhysicalDeviceFormatProperties(p, f)
      PROVE  PromisesMade'
  BY <1>1, <1>4 DEF GetPhysicalDeviceFormatProperties
<1>5. ASSUME NEW p \in Physicals, NEW r, GetPhysicalDeviceImageFormatProperties(p, r)
      PROVE  PromisesMade'
  BY <1>1, <1>5 DEF GetPhysicalDeviceImageFormatProperties
<1>6. ASSUME NEW p \in Physicals, NEW r, NEW shape, CreateImage(p, r, shape)
      PROVE  PromisesMade'
  BY <1>1, <1>6 DEF CreateImage
<1>7. ASSUME DestroyImage \/ \E f \in Compressed : CreateImageView(f)
      PROVE  PromisesMade'
  BY <1>1, <1>7 DEF DestroyImage, CreateImageView
<1>8. CASE UNCHANGED vars
  BY <1>1, <1>8 DEF vars
<1> QED
  BY <1>2, <1>3, <1>4, <1>5, <1>6, <1>7, <1>8, DestroyInstancePromises, FeaturesPromises DEF Next

\* The invariants together.
LEMMA PromisesInductive == Spec => [](IInv /\ PromisesMade /\ VirtualAsMade)
  BY InitPromises, NextPromises, Inductive, ViewsInductive, PTL DEF Spec

\* Handles, registrations, settings, the cache, the maps of the image and what the
\* application was told keep their types.
THEOREM TypeAlways == Spec => []TypeOK
<1>1. ASSUME IInv, PromisesMade, VirtualAsMade PROVE TypeOK
  <2>1. settings \in Setting
    BY <1>1 DEF IInv, Typed, Defaults, Setting
  <2>2. \A e \in native : e.physical \in Physicals /\ e.supported \in BOOLEAN
    BY <1>1, SupportBoolean DEF IInv, CacheTrue, EntryTrue
  <2>3. virtual # NoInfo => virtual.requested \in Compressed /\ virtual.decode \in Compressed
    BY <1>1 DEF VirtualAsMade, VirtualRecord
  <2> QED
    BY <1>1, <2>1, <2>2, <2>3 DEF TypeOK, IInv, Typed, PromisesMade
<1> QED
  BY <1>1, PromisesInductive, PTL

-----------------------------------------------------------------------------
(* Textures of formats that were promised.                                 *)

\* A texture without extras.
LEMMA DefaultFacts ==
  ASSUME NEW f \in Compressed
  PROVE  LET r == DefaultRequest(f)
         IN /\ r \in Request /\ r.format = f /\ r.type = "2D" /\ r.tiling = "optimal"
            /\ r.usage = {"sampled", "src", "dst"} /\ r.flags = {} /\ ~r.external
            /\ ViewTypeSupported(r) /\ ~Unsupported(r)
            /\ \A d : DriverAnswer(d, Key(r)) = DriverAnswer(d, r)
<1> DEFINE r == DefaultRequest(f)
<1>1. /\ r \in Request /\ r.format = f /\ r.type = "2D" /\ r.tiling = "optimal"
      /\ r.usage = {"sampled", "src", "dst"} /\ r.flags = {} /\ r.external = FALSE
      /\ r.view = None
  BY DefaultRequests DEF DefaultRequest, DefaultUsage
<1> HIDE DEF r
<1>2. \A d : DriverAnswer(d, Key(r)) = DriverAnswer(d, r)
  <2>1. /\ Key(r).format = r.format /\ Key(r).type = r.type /\ Key(r).tiling = r.tiling
        /\ Key(r).usage = r.usage /\ Key(r).flags = r.flags /\ Key(r).external = r.external
    BY <1>1 DEF Key, Request
  <2> QED
    BY <2>1 DEF DriverAnswer
<1>3. ViewTypeSupported(r)
  BY <1>1, FormatsAssumption DEF ViewTypeSupported
<1>4. ~Unsupported(r)
  BY <1>1 DEF Unsupported
<1> QED
  BY <1>1, <1>2, <1>3, <1>4 DEF r

\* A driver that has the features of a texture does not refuse it.
LEMMA NotRefused ==
  ASSUME NEW d \in Capabilities, NEW q,
         q.usage \ {"transient"} \subseteq Features(d, q.tiling, q.format),
         Features(d, q.tiling, q.format) # {}, q.flags = {}, ~q.external
  PROVE  DriverAnswer(d, q) = [samples |-> d.samples,
                               layers |-> IF q.type = "3D" THEN 1 ELSE d.layers, mips |-> d.mips]
  BY DEF DriverAnswer

\* Which is an answer.
LEMMA AnswerSays ==
  ASSUME NEW d \in Capabilities, NEW n \in Nat \ {0}
  PROVE  /\ [samples |-> d.samples, layers |-> n, mips |-> d.mips] # Refused
         /\ d.layers \in Nat \ {0} /\ d.mips \in Nat \ {0} /\ d.levels \in Nat \ {0}
<1>1. d.layers \in Nat \ {0} /\ d.mips \in Nat \ {0} /\ d.levels \in Nat \ {0}
  BY DEF Capabilities
<1>2. [samples |-> d.samples, layers |-> n, mips |-> d.mips].layers = n /\ Refused.layers = 0
  BY DEF Refused
<1> QED
  BY <1>1, <1>2

\* The replacement of a texture can be made.
LEMMA ReplacementMade ==
  ASSUME RequiredFormats, NEW v \in Devices, NEW f \in Compressed
  PROVE  LET d == Driver[v]
             q == PreparedOf(d, DefaultRequest(f))
         IN DriverAnswer(d, q) = [samples |-> d.samples, layers |-> d.layers, mips |-> d.mips]
<1> DEFINE d == Driver[v]
           r == DefaultRequest(f)
           q == PreparedOf(d, r)
           real == Replacement(d, r, {})
           n == [r EXCEPT !.format = Narrow(r.format), !.usage = r.usage \union InternalUsage,
                          !.flags = {}, !.external = FALSE]
<1>1. d \in Capabilities
  BY FormatsAssumption
<1>2. /\ r \in Request /\ r.format = f /\ r.type = "2D" /\ r.tiling = "optimal"
      /\ r.usage = {"sampled", "src", "dst"} /\ r.flags = {}
  BY DefaultFacts
<1> HIDE DEF r, d
<1>3. ReplacementFlags(r) = {}
  BY <1>2 DEF ReplacementFlags
<1>4. /\ q.format = real /\ q.usage = r.usage \union InternalUsage /\ q.flags = {}
      /\ ~q.external /\ q.tiling = "optimal" /\ q.type = "2D"
  BY <1>2, <1>3 DEF PreparedOf, Request
<1>5. q.usage = InternalUsage /\ q.usage \ {"transient"} = InternalUsage
  BY <1>2, <1>4 DEF InternalUsage
<1>6. InternalUsage \subseteq Features(d, "optimal", real)
  <2>1. CASE Narrow(f) # None /\ Supports(d, n)
    <3>1. real = Narrow(f)
      BY <1>2, <2>1 DEF Replacement
    <3>2. /\ n.format = Narrow(f) /\ n.tiling = "optimal"
          /\ n.usage = InternalUsage
      BY <1>2 DEF Request, InternalUsage
    <3>3. RequiredFeatures(InternalUsage) = InternalUsage
      BY DEF RequiredFeatures, InternalUsage
    <3> HIDE DEF n, real
    <3> QED
      BY <2>1, <3>1, <3>2, <3>3 DEF Supports
  <2>2. CASE ~(Narrow(f) # None /\ Supports(d, n))
    <3>1. real = Fallback(f)
      BY <1>2, <2>2 DEF Replacement
    <3>2. Fallback(f) \in {"RGBA8_UNORM", "RGBA8_SNORM", "RGBA16F"}
      BY DEF Fallback, Compressed, Pairs, Srgb
    <3> QED
      BY <3>1, <3>2 DEF RequiredFormats, d
  <2> QED
    BY <2>1, <2>2
<1> HIDE DEF q, real
<1>7. Features(d, q.tiling, q.format) # {}
  BY <1>4, <1>6 DEF InternalUsage
<1>8. DriverAnswer(d, q) = [samples |-> d.samples,
                            layers |-> IF q.type = "3D" THEN 1 ELSE d.layers, mips |-> d.mips]
  BY <1>1, <1>4, <1>5, <1>6, <1>7, NotRefused
<1> QED
  BY <1>4, <1>8 DEF q, r, d

\* What the layer makes of that answer.
LEMMA VirtualAnswer ==
  ASSUME RequiredFormats, NEW v \in Devices, NEW f \in Compressed
  PROVE  LET d == Driver[v]
             r == DefaultRequest(f)
         IN Normalized(r, d, DriverAnswer(d, PreparedOf(d, r))) # Refused
<1> DEFINE d == Driver[v]
           r == DefaultRequest(f)
           answer == DriverAnswer(d, PreparedOf(d, r))
<1>1. d \in Capabilities /\ 1 \in d.samples
  BY FormatsAssumption DEF RequiredFormats
<1>2. answer = [samples |-> d.samples, layers |-> d.layers, mips |-> d.mips]
  BY ReplacementMade
<1>3. d.layers \in Nat \ {0} /\ d.mips \in Nat \ {0}
  BY <1>1 DEF Capabilities
<1>4. r.flags = {} /\ r.type = "2D" /\ ~Unsupported(r)
  BY DefaultFacts
<1> HIDE DEF d, r, answer
<1>5. answer.layers = d.layers /\ answer.mips # 0 /\ 1 \in answer.samples
  BY <1>1, <1>2, <1>3
<1>6. Normalized(r, d, answer).layers = d.layers
  BY <1>4, <1>5 DEF Normalized
<1>7. Refused.layers = 0
  BY DEF Refused
<1> QED
  BY <1>3, <1>6, <1>7 DEF answer, d, r

\* A texture the driver takes itself.
LEMMA NativeAnswer ==
  ASSUME NEW v \in Devices, NEW f \in Compressed,
         DefaultUsage \subseteq Features(Driver[v], "optimal", f)
  PROVE  DriverAnswer(Driver[v], DefaultRequest(f)) # Refused
<1> DEFINE d == Driver[v]
           r == DefaultRequest(f)
<1>1. d \in Capabilities
  BY FormatsAssumption
<1>2. /\ r.format = f /\ r.type = "2D" /\ r.tiling = "optimal"
      /\ r.usage = {"sampled", "src", "dst"} /\ r.flags = {} /\ ~r.external
  BY DefaultFacts
<1>3. DefaultUsage = {"sampled", "src", "dst"}
  BY DEF DefaultUsage
<1>4. r.usage \ {"transient"} \subseteq Features(d, "optimal", f) /\ Features(d, "optimal", f) # {}
  BY <1>2, <1>3
<1> HIDE DEF d, r
<1>5. DriverAnswer(d, r) = [samples |-> d.samples, layers |-> d.layers, mips |-> d.mips]
  BY <1>1, <1>2, <1>4, NotRefused
<1>6. d.layers \in Nat \ {0}
  BY <1>1 DEF Capabilities
<1> QED
  BY <1>1, <1>5, <1>6, AnswerSays DEF d, r

\* What was promised of a device can be had.
LEMMA PromisesOfDevice ==
  ASSUME RequiredFormats, NEW v \in Devices, NEW f \in Compressed,
         \/ Driver[v].bc
         \/ Driver[v].xclipse
         \/ ~Should(Driver[v], DefaultRequest(f))
              /\ DefaultUsage \subseteq Features(Driver[v], "optimal", f)
         \/ Should(Driver[v], DefaultRequest(f))
  PROVE  AnswerOf(Driver[v], DefaultRequest(f)) # Refused
<1> DEFINE d == Driver[v]
           r == DefaultRequest(f)
<1>1. /\ ViewTypeSupported(r) /\ ~r.external /\ r.format = f /\ r.type = "2D"
      /\ DriverAnswer(d, Key(r)) = DriverAnswer(d, r)
  BY DefaultFacts
<1>2. CASE Should(d, r)
  BY <1>1, <1>2, VirtualAnswer DEF AnswerOf, VirtualQuery
<1>3. CASE ~Should(d, r)
  <2>1. AnswerOf(d, r) = DriverAnswer(d, r)
    BY <1>1, <1>3 DEF AnswerOf, VirtualQuery
  <2>2. CASE d.bc \/ DefaultUsage \subseteq Features(d, "optimal", f)
    <3>1. DefaultUsage \subseteq Features(d, "optimal", f)
      BY <2>2 DEF RequiredFormats, DefaultUsage
    <3> QED
      BY <2>1, <3>1, NativeAnswer
  <2>3. CASE d.xclipse
    <3>1. NativeSupport(d, r)
      BY <1>1, <1>3, <2>3 DEF Should
    <3> QED
      BY <1>1, <2>1, <3>1 DEF NativeSupport, Supports
  <2> QED
    BY <1>3, <2>2, <2>3
<1> QED
  BY <1>2, <1>3

\* On a driver that has what Vulkan requires, a device said to have textureCompressionBC takes
\* textures of every compressed format, also of those the layer never asked about, and so
\* does one whose features of a format allow them (compute_virtual_bc_feature_enabled).
THEOREM PromisesAlwaysKept ==
  ASSUME RequiredFormats
  PROVE  Spec => []PromisesKept
<1>1. ASSUME IInv, PromisesMade PROVE PromisesKept
  <2> SUFFICES ASSUME NEW p \in Physicals, NEW f \in Compressed, Registered(p),
                      told[p] = TRUE \/ DefaultUsage \subseteq FormatFeatures(p, "optimal", f)
               PROVE  Answer(p, DefaultRequest(f)) # Refused
    BY DEF PromisesKept
  <2> DEFINE r == DefaultRequest(f)
             d == DeviceOf(p)
  <2>1. r \in Request /\ ShouldVirtualize(p, r) = Should(d, r)
    BY <1>1, DefaultFacts, Decides DEF IInv
  <2>2. Answer(p, r) = AnswerOf(d, r)
    BY <2>1 DEF QueryVirtualizes, VirtualQuery, Answer, AnswerOf, Prepared, PreparedOf
  <2>3. stands[p].device \in Devices /\ d = Driver[stands[p].device]
    BY <1>1 DEF IInv, Registrations, DeviceOf
  <2>4. \/ d.bc \/ d.xclipse \/ Should(d, r)
        \/ ~Should(d, r) /\ DefaultUsage \subseteq Features(d, "optimal", f)
    BY <1>1, <2>1 DEF PromisesMade, FormatFeatures
  <2> QED
    BY <2>2, <2>3, <2>4, PromisesOfDevice
<1> QED
  BY <1>1, PromisesInductive, PTL
=============================================================================
