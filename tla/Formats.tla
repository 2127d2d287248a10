------------------------------- MODULE Formats -------------------------------
(***************************************************************************)
(* The virtualization of compressed formats: what the layer tells the      *)
(* application a device can do (features, format properties, image format  *)
(* properties), the images and views it then creates in place of           *)
(* compressed ones, and the maps and caches by which an instance's         *)
(* physical devices are known (layer_format_virtualization.cpp,            *)
(* layer_image_virtualization.cpp, layer_entry.cpp, the settings of        *)
(* layer_settings_runtime.cpp).                                            *)
(*                                                                         *)
(* BC1 stands for BC1 to BC3, BC4 for BC4 and BC5.  The decision paths for *)
(* an image are written twice in the code, once for the query and once for *)
(* the creation; so they are here.  Handles of physical devices are reused *)
(* by later instances, for whatever device they find.                      *)
(*                                                                         *)
(* The build leaves out two parts of the code that a preprocessor test of  *)
(* an enumerator guards: the settings that an application passes to        *)
(* vkCreateInstance (so the settings, depth override among them, keep      *)
(* their defaults) and the rewriting of a created image's format list.     *)
(***************************************************************************)
EXTENDS Naturals, FiniteSetsExt, Sequences

CONSTANTS
  Instances,
  Physicals,   \* VkPhysicalDevice handles
  Devices,     \* what a handle may stand for
  Driver,      \* their drivers' capabilities
  Requests,    \* what the application asks of an image
  Shapes,      \* samples, layers and mip levels of the images it creates
  Overrides,   \* settings the application passes to vkCreateInstance
  None

-----------------------------------------------------------------------------
(* Formats.                                                                *)

\* is_bcn_format, is_bcn_srgb_format, is_bcn_unorm_srgb_pair_format
Srgb == {"BC1_SRGB", "BC7_SRGB"}
Pairs == {"BC1_UNORM", "BC7_UNORM"} \union Srgb
Compressed == Pairs \union {"BC4_UNORM", "BC4_SNORM", "BC6H_UFLOAT"}

Replacements == {"RGBA8_UNORM", "RGBA8_SRGB", "RGBA8_SNORM", "RGBA16F", "R8_UNORM", "R8_SNORM"}
AllFormats == Compressed \union Replacements

\* is_bcn_force_emulation_candidate
ForceCandidates == Compressed \ {"BC1_UNORM", "BC1_SRGB"}

\* bcn_srgb_variant, bcn_unorm_variant
SrgbVariant(f) ==
  CASE f \in {"BC1_UNORM", "BC1_SRGB"} -> "BC1_SRGB"
    [] f \in {"BC7_UNORM", "BC7_SRGB"} -> "BC7_SRGB"
    [] OTHER -> f
UnormVariant(f) ==
  CASE f \in {"BC1_UNORM", "BC1_SRGB"} -> "BC1_UNORM"
    [] f \in {"BC7_UNORM", "BC7_SRGB"} -> "BC7_UNORM"
    [] OTHER -> f

\* bcn_fallback_replacement_format
Fallback(f) ==
  CASE f \in Pairs \union {"BC4_UNORM"} -> "RGBA8_UNORM"
    [] f = "BC4_SNORM" -> "RGBA8_SNORM"
    [] f = "BC6H_UFLOAT" -> "RGBA16F"
    [] OTHER -> None

\* The smaller format bcn_replacement_format tries first.
Narrow(f) ==
  CASE f = "BC4_UNORM" -> "R8_UNORM"
    [] f = "BC4_SNORM" -> "R8_SNORM"
    [] OTHER -> None

\* srgb_view_compatible_format, unorm_view_compatible_format
SrgbView(f) == IF f \in {"RGBA8_UNORM", "RGBA8_SRGB"} THEN "RGBA8_SRGB" ELSE f
UnormView(f) == IF f \in {"RGBA8_UNORM", "RGBA8_SRGB"} THEN "RGBA8_UNORM" ELSE f

\* DecoderShaderKind
ShaderKinds == {"s3tc", "rgtc_r8", "rgtc_rgba8", "rgtc_r8_snorm", "rgtc_rgba8_snorm", "bc6", "bc7"}

\* shader_kind_for_decode
DecodeShader(f, real) ==
  CASE f \in {"BC1_UNORM", "BC1_SRGB"} -> "s3tc"
    [] f = "BC4_UNORM" /\ real = "R8_UNORM" -> "rgtc_r8"
    [] f = "BC4_UNORM" /\ real = "RGBA8_UNORM" -> "rgtc_rgba8"
    [] f = "BC4_SNORM" /\ real = "R8_SNORM" -> "rgtc_r8_snorm"
    [] f = "BC4_SNORM" /\ real = "RGBA8_SNORM" -> "rgtc_rgba8_snorm"
    [] f = "BC6H_UFLOAT" -> "bc6"
    [] f \in {"BC7_UNORM", "BC7_SRGB"} -> "bc7"
    [] OTHER -> None

\* What the kinds of decode shaders write (shader_file_for_kind).
ShaderWrites(kind) ==
  CASE kind \in {"s3tc", "bc7", "rgtc_rgba8"} -> "RGBA8_UNORM"
    [] kind = "rgtc_rgba8_snorm" -> "RGBA8_SNORM"
    [] kind = "rgtc_r8" -> "R8_UNORM"
    [] kind = "rgtc_r8_snorm" -> "R8_SNORM"
    [] kind = "bc6" -> "RGBA16F"

-----------------------------------------------------------------------------
(* The driver.                                                             *)

Uses == {"sampled", "storage", "src", "dst", "attachment", "transient"}
InternalUsage == {"sampled", "storage", "src", "dst"}
Flags == {"mutable", "block_view", "cube", "array_2d", "sparse"}
\* view: the view type of VkPhysicalDeviceImageViewImageFormatInfoEXT, if chained.
Request == [format : Compressed, type : {"1D", "2D", "3D"}, tiling : {"optimal", "linear"},
            usage : SUBSET Uses, flags : SUBSET Flags, external : BOOLEAN,
            view : {"2D", "3D", "cube", None}]
Shape == [samples : {1, 4}, layers : Nat \ {0}, mips : Nat \ {0}]

\* xclipse: what is_xclipse says; bc: textureCompressionBC; features: by tiling and
\* format; refuses: flags it does not support; then its limits, levels being the mip levels
\* of its largest extent.
Capabilities == [xclipse : BOOLEAN, bc : BOOLEAN,
                 features : [{"optimal", "linear"} -> [AllFormats -> SUBSET Uses]],
                 refuses : SUBSET Flags, external : BOOLEAN,
                 samples : SUBSET {1, 4}, layers : Nat \ {0}, mips : Nat \ {0}, levels : Nat \ {0}]

Features(d, tiling, f) == d.features[tiling][f]

Refused == [samples |-> {}, layers |-> 0, mips |-> 0]

\* vkGetPhysicalDeviceImageFormatProperties of the driver.
DriverAnswer(d, r) ==
  IF /\ r.usage \ {"transient"} \subseteq Features(d, r.tiling, r.format)
     /\ Features(d, r.tiling, r.format) # {}
     /\ r.flags \intersect d.refuses = {}
     /\ "block_view" \in r.flags => r.format \in Compressed
     /\ r.external => d.external
  THEN [samples |-> d.samples, layers |-> IF r.type = "3D" THEN 1 ELSE d.layers, mips |-> d.mips]
  ELSE Refused

\* An image within the limits of an answer.
Within(shape, answer) ==
  shape.samples \in answer.samples /\ shape.layers <= answer.layers /\ shape.mips <= answer.mips

\* What Vulkan requires of every driver: single samples; the replacements one can fall back
\* on, for what the layer does with them; and every compressed format for textures, if
\* the driver has textureCompressionBC.
RequiredFormats ==
  \A d \in Devices :
    /\ 1 \in Driver[d].samples
    /\ \A f \in {"RGBA8_UNORM", "RGBA8_SNORM", "RGBA16F"} :
         InternalUsage \subseteq Features(Driver[d], "optimal", f)
    /\ Driver[d].bc =>
         \A f \in Compressed : {"sampled", "src", "dst"} \subseteq Features(Driver[d], "optimal", f)

\* What Vulkan leaves open and the layer relies on: a driver refuses no image because its
\* views may have other formats.  The creation of a virtual image asks for that flag
\* (CreateFlags) and the query that vouches for it does not (ReplacementFlags).
MutableSupported == \A d \in Devices : "mutable" \notin Driver[d].refuses

-----------------------------------------------------------------------------
VARIABLES
  \* the driver
  stands,     \* physical handle -> its instance and the device it stands for
  \* the layer
  settings,   \* layer_settings_state
  owner,      \* g_physical_to_instance
  runtime,    \* g_physical_runtime
  native,     \* g_bcn_native_support_cache
  virtual,    \* g_virtual_images, of the image there is
  \* the application
  image,      \* the last image it tried to create
  views,      \* the views of it: the format asked for and the driver's
  asked,      \* its last successful query of an image
  told,       \* physical handle -> does it have textureCompressionBC, None if not asked
  wants       \* the settings it last asked for

vars == <<stands, settings, owner, runtime, native, virtual, image, views, asked, told, wants>>

Setting == [enabled : BOOLEAN, xclipse_only : BOOLEAN, bcn_intercept : BOOLEAN,
            force_bcn_emulation : BOOLEAN, disabled : SUBSET Compressed]
\* LayerSettingsSnapshot
Defaults == [enabled |-> TRUE, xclipse_only |-> TRUE, bcn_intercept |-> TRUE,
             force_bcn_emulation |-> TRUE, disabled |-> {}]

ASSUME FormatsAssumption ==
  /\ Driver \in [Devices -> Capabilities]
  /\ Requests \subseteq Request
  /\ Shapes \subseteq Shape
  /\ Overrides \subseteq Setting
  /\ None \notin Instances \union Physicals \union AllFormats \union ShaderKinds
                   \union {"2D", "3D", "cube"}
  /\ None \notin BOOLEAN

NoHandle == [instance |-> None, device |-> None]
NoRuntime == [xclipse |-> FALSE, cached |-> FALSE, feature |-> FALSE]
NoImage == [physical |-> None, ok |-> FALSE]
NoQuestion == [physical |-> None]
NoInfo == [requested |-> None]

Live == {stands[p].instance : p \in Physicals} \ {None}
Registered(p) == owner[p] # None
DeviceOf(p) == Driver[stands[p].device]

\* BcnSupportKey, of a request without its pNext chain.
Key(r) == [r EXCEPT !.external = FALSE, !.view = None]

TypeOK ==
  /\ stands \in [Physicals -> [instance : Instances, device : Devices] \union {NoHandle}]
  /\ settings \in Setting
  /\ owner \in [Physicals -> Instances \union {None}]
  /\ runtime \in [Physicals -> [xclipse : BOOLEAN, cached : BOOLEAN, feature : BOOLEAN]]
  /\ \A e \in native : e.physical \in Physicals /\ e.supported \in BOOLEAN
  /\ virtual # NoInfo => virtual.requested \in Compressed /\ virtual.decode \in Compressed
  /\ told \in [Physicals -> BOOLEAN \union {None}]

Init ==
  /\ stands = [p \in Physicals |-> NoHandle]
  /\ settings = Defaults
  /\ owner = [p \in Physicals |-> None]
  /\ runtime = [p \in Physicals |-> NoRuntime]
  /\ native = {}
  /\ virtual = NoInfo
  /\ image = NoImage
  /\ views = {}
  /\ asked = NoQuestion
  /\ told = [p \in Physicals |-> None]
  /\ wants = None

-----------------------------------------------------------------------------
(* What is virtualized, and by what.                                       *)

\* required_format_features_for_usage
RequiredFeatures(usage) ==
  LET U == IF usage = {} THEN {"sampled", "src", "dst"} ELSE usage \ {"transient"}
  IN IF U = {} THEN {"sampled", "dst"} ELSE U

\* query_image_format_support_uncached
Supports(d, r) ==
  /\ RequiredFeatures(r.usage) \subseteq Features(d, r.tiling, r.format)
  /\ DriverAnswer(d, r) # Refused

\* query_native_bcn_support_uncached; the query has no pNext chain.
NativeSupport(d, r) == Supports(d, Key(r))

CachedFor(p, r) == {e \in native : e.physical = p /\ e.key = Key(r)}

\* The tests of should_virtualize_bcn_format before the native support is looked up.
MayVirtualize(p, r) ==
  /\ settings.enabled /\ settings.bcn_intercept
  /\ r.format \in Compressed \ settings.disabled
  /\ r.type # "1D"
  /\ settings.xclipse_only => runtime[p].xclipse
Forced(p, r) ==
  settings.force_bcn_emulation /\ runtime[p].xclipse /\ r.format \in ForceCandidates

\* is_native_bcn_supported
NativelySupported(p, r) ==
  IF CachedFor(p, r) # {} THEN \E e \in CachedFor(p, r) : e.supported
  ELSE NativeSupport(DeviceOf(p), r)

\* Mutant of ShouldVirtualize: only what is forced.
ShouldVirtualize_ForcedOnly(p, r) == MayVirtualize(p, r) /\ Forced(p, r)

\* should_virtualize_bcn_format
ShouldVirtualize(p, r) == MayVirtualize(p, r) /\ (Forced(p, r) \/ ~NativelySupported(p, r))

\* The cache after should_virtualize_bcn_format was asked about the requests R.
NativeAfter(p, R) ==
  native \union {[physical |-> p, key |-> Key(r), supported |-> NativelySupported(p, r)] :
                   r \in {q \in R : MayVirtualize(p, q) /\ ~Forced(p, q)}}

\* bcn_replacement_image_create_flags
ReplacementFlags(r) ==
  (r.flags \ {"block_view"}) \union (IF r.type = "3D" THEN {"array_2d"} ELSE {})

\* bcn_replacement_format
Replacement(d, r, flags) ==
  IF /\ Narrow(r.format) # None
     /\ Supports(d, [r EXCEPT !.format = Narrow(r.format), !.usage = r.usage \union InternalUsage,
                              !.flags = flags, !.external = FALSE])
  THEN Narrow(r.format)
  ELSE Fallback(r.format)

\* kBcnVirtualUnsupportedImageFlags and the transient usage.
Unsupported(r) == "sparse" \in r.flags \/ "transient" \in r.usage

-----------------------------------------------------------------------------
(* Instances and physical devices.                                         *)

\* layer_CreateInstance: the settings are refreshed (refresh_layer_settings); the ones
\* the application passes are not looked at.  The driver finds a device.
CreateInstance(i, p, d, s) ==
  /\ i \notin Live /\ stands[p] = NoHandle
  /\ settings' = Defaults
  /\ wants' = s
  /\ runtime' = [q \in Physicals |-> [runtime[q] EXCEPT !.cached = FALSE]]
  /\ stands' = [stands EXCEPT ![p] = [instance |-> i, device |-> d]]
  /\ UNCHANGED <<owner, native, virtual, image, views, asked, told>>

\* layer_EnumeratePhysicalDevices, with room for all of the instance's devices (with less
\* the driver says VK_INCOMPLETE and the layer registers none).
EnumeratePhysicalDevices(i) ==
  /\ i \in Live
  /\ LET P == {p \in Physicals : stands[p].instance = i}
     IN /\ owner' = [p \in Physicals |-> IF p \in P THEN i ELSE owner[p]]
        /\ runtime' = [p \in Physicals |->
                         IF p \in P THEN [NoRuntime EXCEPT !.xclipse = DeviceOf(p).xclipse]
                         ELSE runtime[p]]
  /\ UNCHANGED <<stands, settings, native, virtual, image, views, asked, told, wants>>

\* Mutant of PurgedFor: the cache is forgotten.
PurgedFor_KeepCache(P) == native

\* The cache without the answers for the handles P.
PurgedFor(P) == {e \in native : e.physical \notin P}

\* layer_DestroyInstance, once its images are destroyed.
DestroyInstance(i) ==
  /\ i \in Live
  /\ image # NoImage => stands[image.physical].instance # i
  /\ LET P == {p \in Physicals : owner[p] = i}
     IN /\ owner' = [p \in Physicals |-> IF p \in P THEN None ELSE owner[p]]
        /\ runtime' = [p \in Physicals |-> IF p \in P THEN NoRuntime ELSE runtime[p]]
        /\ native' = PurgedFor(P)
        /\ asked' = IF asked.physical \in P THEN NoQuestion ELSE asked
        /\ told' = [p \in Physicals |-> IF p \in P THEN None ELSE told[p]]
  /\ stands' = [p \in Physicals |-> IF stands[p].instance = i THEN NoHandle ELSE stands[p]]
  /\ UNCHANGED <<settings, virtual, image, views, wants>>

-----------------------------------------------------------------------------
(* Queries.                                                                *)

DefaultUsage == {"sampled", "src", "dst"}
DefaultRequest(f) ==
  [format |-> f, type |-> "2D", tiling |-> "optimal", usage |-> DefaultUsage, flags |-> {},
   external |-> FALSE, view |-> None]

\* kRepresentativeBcnFormats
Representatives == <<"BC1_UNORM", "BC4_UNORM", "BC6H_UFLOAT", "BC7_UNORM">>

\* The representatives compute_virtual_bc_feature_enabled asks about: it stops at the
\* first to be virtualized.
AskedAbout(p) ==
  {DefaultRequest(Representatives[n]) :
     n \in {n \in DOMAIN Representatives :
              \A m \in 1..(n - 1) : ~ShouldVirtualize(p, DefaultRequest(Representatives[m]))}}

\* layer_GetPhysicalDeviceFeatures(2): the driver's answer or that of
\* should_advertise_virtual_bc_feature, which is kept until the settings are refreshed.
GetPhysicalDeviceFeatures(p) ==
  /\ Registered(p)
  /\ LET advertise == IF runtime[p].cached THEN runtime[p].feature
                      ELSE \E r \in AskedAbout(p) : ShouldVirtualize(p, r)
     IN /\ told' = [told EXCEPT ![p] = DeviceOf(p).bc \/ advertise]
        /\ runtime' = [runtime EXCEPT ![p].cached = TRUE, ![p].feature = advertise]
  /\ native' = IF runtime[p].cached THEN native ELSE NativeAfter(p, AskedAbout(p))
  /\ UNCHANGED <<stands, settings, owner, virtual, image, views, asked, wants>>

\* What the layer says a format can be used for (virtualize_format_properties_if_needed).
FormatFeatures(p, tiling, f) ==
  LET d == DeviceOf(p)
      r == DefaultRequest(f)
  IN Features(d, tiling, IF ShouldVirtualize(p, r) THEN Replacement(d, r, {}) ELSE f)

\* layer_GetPhysicalDeviceFormatProperties(2)
GetPhysicalDeviceFormatProperties(p, f) ==
  /\ Registered(p)
  /\ native' = NativeAfter(p, {DefaultRequest(f)})
  /\ UNCHANGED <<stands, settings, owner, runtime, virtual, image, views, asked, told, wants>>

\* virtual_bcn_image_view_type_supported
ViewTypeSupported(r) ==
  CASE r.view = "2D" -> r.type \in {"2D", "3D"}
    [] r.view = "3D" -> r.type = "3D"
    [] r.view = "cube" -> r.type = "2D" /\ "cube" \in r.flags
    [] OTHER -> TRUE

\* Mutant of QueryVirtualizes: external memory is not looked for.
QueryVirtualizes_External(p, r) == ViewTypeSupported(r) /\ ShouldVirtualize(p, r)

\* prepare_virtual_bcn_image_format_query: is the query about a replacement ...
QueryVirtualizes(p, r) == ~r.external /\ ViewTypeSupported(r) /\ ShouldVirtualize(p, r)

\* ... and which.
Prepared(p, r) ==
  [r EXCEPT !.format = Replacement(DeviceOf(p), r, ReplacementFlags(r)),
            !.usage = r.usage \union InternalUsage, !.flags = ReplacementFlags(r),
            !.external = FALSE]

\* normalize_virtual_bcn_image_format_properties
Normalized(r, d, answer) ==
  IF \/ Unsupported(r)
     \/ "cube" \in r.flags /\ (r.type # "2D" \/ answer.layers < 6)
     \/ 1 \notin answer.samples \/ answer.mips = 0
  THEN Refused
  ELSE [samples |-> {1},
        layers |-> IF r.type = "3D" THEN 1
                   ELSE IF "cube" \in r.flags THEN answer.layers - (answer.layers % 6)
                   ELSE answer.layers,
        mips |-> Min({answer.mips, d.levels})]

\* What the layer answers.
Answer(p, r) ==
  LET d == DeviceOf(p)
  IN IF ~ViewTypeSupported(r) THEN Refused
     ELSE IF QueryVirtualizes(p, r) THEN Normalized(r, d, DriverAnswer(d, Prepared(p, r)))
     ELSE DriverAnswer(d, r)

\* layer_GetPhysicalDeviceImageFormatProperties(2), of a compressed format.
GetPhysicalDeviceImageFormatProperties(p, r) ==
  /\ Registered(p)
  /\ asked' = IF Answer(p, r) = Refused THEN NoQuestion
              ELSE [physical |-> p, request |-> r, virtual |-> QueryVirtualizes(p, r),
                    limits |-> Answer(p, r)]
  /\ native' = IF r.external \/ ~ViewTypeSupported(r) THEN native ELSE NativeAfter(p, {r})
  /\ UNCHANGED <<stands, settings, owner, runtime, virtual, image, views, told, wants>>

-----------------------------------------------------------------------------
(* Images and views.                                                       *)

\* can_virtualize_bcn_image_create_info
CanVirtualize(r, shape) ==
  /\ r.type # "1D"
  /\ shape.samples = 1
  /\ ~Unsupported(r)
  /\ "cube" \in r.flags => r.type = "2D" /\ shape.layers >= 6
  /\ "array_2d" \in r.flags => r.type = "3D"
  /\ r.type = "3D" => shape.layers = 1
  /\ ~r.external

\* Mutant of CreateFlags: no views of the other of a pair.
CreateFlags_NoMutable(r) == ReplacementFlags(r)

\* The flags of try_create_virtualized_image.
CreateFlags(r) == ReplacementFlags(r) \union (IF r.format \in Pairs THEN {"mutable"} ELSE {})

\* The image try_create_virtualized_image asks the driver for.
Virtualized(d, r) ==
  [r EXCEPT !.format = Replacement(d, r, CreateFlags(r)),
            !.usage = r.usage \union InternalUsage, !.flags = CreateFlags(r)]

\* layer_CreateImage of a compressed image Vulkan allows: virtualized, if
\* try_create_virtualized_image finds it can and should be; if not, the driver's.
CreateImage(p, r, shape) ==
  /\ Registered(p)
  /\ ~image.ok
  /\ "cube" \in r.flags => r.type = "2D" /\ shape.layers >= 6
  /\ "array_2d" \in r.flags => r.type = "3D"
  /\ r.type = "3D" => shape.layers = 1
  /\ LET d == DeviceOf(p)
         v == CanVirtualize(r, shape) /\ ShouldVirtualize(p, r)
         real == IF v THEN Virtualized(d, r) ELSE r
         ok == Within(shape, DriverAnswer(d, real))
     IN /\ image' = [physical |-> p, request |-> r, shape |-> shape, virtual |-> v,
                     real |-> real, ok |-> ok]
        /\ virtual' = IF v /\ ok THEN [requested |-> r.format, decode |-> r.format,
                                       real |-> real.format, srgb_view |-> r.format \in Srgb]
                      ELSE NoInfo
  /\ native' = IF CanVirtualize(r, shape) THEN NativeAfter(p, {r}) ELSE native
  /\ UNCHANGED <<stands, settings, owner, runtime, views, asked, told, wants>>

\* layer_DestroyImage; or the application gives up an image it could not create.
DestroyImage ==
  /\ image # NoImage
  /\ image' = NoImage
  /\ virtual' = NoInfo
  /\ views' = {}
  /\ UNCHANGED <<stands, settings, owner, runtime, native, asked, told, wants>>

\* The format of the driver's view, in create_virtualized_image_view.
ViewFormat(f) ==
  IF f \in Srgb THEN SrgbView(virtual.real)
  ELSE IF f \in Pairs THEN UnormView(virtual.real)
  ELSE virtual.real

\* Mutant of DecodeAfterView: the last view decides.
DecodeAfterView_Last(f) == IF f \in Pairs THEN f ELSE virtual.decode

\* Mutant of DecodeAfterView: the format of the driver's view.
DecodeAfterView_Patched(f) == IF f \in Pairs THEN ViewFormat(f) ELSE virtual.decode

\* decode_format, once there is a view.
DecodeAfterView(f) ==
  IF f \in Srgb THEN SrgbVariant(virtual.requested)
  ELSE IF f \in Pairs /\ ~virtual.srgb_view THEN UnormVariant(virtual.requested)
  ELSE virtual.decode

\* layer_CreateImageView, of the image's format or, if the application made the image
\* mutable, of the other of its pair.
CreateImageView(f) ==
  /\ image.ok
  /\ \/ f = image.request.format
     \/ "mutable" \in image.request.flags
        /\ f \in {SrgbVariant(image.request.format), UnormVariant(image.request.format)}
  /\ IF virtual # NoInfo
       THEN /\ views' = views \union {[format |-> f, real |-> ViewFormat(f)]}
            /\ virtual' = [virtual EXCEPT !.srgb_view = @ \/ f \in Srgb,
                                          !.decode = DecodeAfterView(f)]
       ELSE /\ views' = views \union {[format |-> f, real |-> f]}
            /\ UNCHANGED virtual
  /\ UNCHANGED <<stands, settings, owner, runtime, native, image, asked, told, wants>>

Next ==
  \/ \E i \in Instances :
       \/ EnumeratePhysicalDevices(i)
       \/ DestroyInstance(i)
       \/ \E p \in Physicals, d \in Devices, s \in Overrides \union {None} :
            CreateInstance(i, p, d, s)
  \/ \E p \in Physicals :
       \/ GetPhysicalDeviceFeatures(p)
       \/ \E f \in Compressed : GetPhysicalDeviceFormatProperties(p, f)
       \/ \E r \in Requests :
            \/ GetPhysicalDeviceImageFormatProperties(p, r)
            \/ \E shape \in Shapes : CreateImage(p, r, shape)
  \/ DestroyImage
  \/ \E f \in Compressed : CreateImageView(f)

Spec == Init /\ [][Next]_vars

-----------------------------------------------------------------------------
(* Properties.                                                             *)

\* An image within the limits a query answered can be created, and is a virtual one just
\* if the answer was about the replacement, although the two are decided apart, on other
\* flags, and the support is looked up in a cache in between ("keeps the query path
\* consistent with can_virtualize_bcn_image_create_info()", layer_entry.cpp).
QueryMatchesCreate ==
  image # NoImage /\ asked.physical = image.physical =>
    (asked.request = image.request /\ Within(image.shape, asked.limits)
       => image.ok /\ image.virtual = asked.virtual)

\* What the cache says of a handle is what the device it stands for now supports, also
\* when an instance is gone and the driver gives its handles to another's devices
\* (layer_DestroyInstance, g_bcn_native_support_cache).
CacheTellsTheTruth ==
  \A e \in native :
    Registered(e.physical) /\ e.supported = NativeSupport(DeviceOf(e.physical), e.key)

\* If a device was said to have textureCompressionBC, textures of every compressed format
\* can be made, not only of those that were asked about; and so can textures of a format
\* whose features allow them (compute_virtual_bc_feature_enabled,
\* virtualize_format_properties_if_needed).
PromisesKept ==
  \A p \in Physicals, f \in Compressed :
    Registered(p) /\ (told[p] = TRUE \/ DefaultUsage \subseteq FormatFeatures(p, "optimal", f))
      => Answer(p, DefaultRequest(f)) # Refused

\* A view of a virtual image is sRGB just if it was asked for so, and has the format of the
\* image unless the image was created to allow others (create_virtualized_image_view,
\* try_create_virtualized_image).
ViewsValid ==
  image # NoImage /\ image.virtual =>
    \A v \in views :
      /\ (v.format \in Srgb) <=> (v.real = "RGBA8_SRGB")
      /\ v.real = image.real.format \/ "mutable" \in image.real.flags

\* Whatever replacement was chosen, a virtual image can be decoded: it has storage usage and
\* there is a shader for its two formats, which writes texels of its real one; and it is
\* decoded as sRGB just if it or a view of it ever was (decode_format).
VirtualImagesDecodable ==
  virtual # NoInfo =>
    /\ "storage" \in image.real.usage
    /\ DecodeShader(virtual.decode, virtual.real) # None
    /\ ShaderWrites(DecodeShader(virtual.decode, virtual.real)) = virtual.real
    /\ virtual.decode \in Srgb
         <=> virtual.requested \in Srgb \/ \E v \in views : v.format \in Srgb

\* The settings in effect are those the application passed last; "Runtime overrides can
\* still use VkLayerSettingsCreateInfoEXT" (maybe_load_layer_settings_ini).
OverridesApply == wants # None => settings = wants

=============================================================================
