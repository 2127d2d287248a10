------------------------------ MODULE MCFormats ------------------------------
(* Formats with three devices (an Xclipse without compressed formats, one with some  *)
(* and without storage of small formats, and another vendor's) and one request of    *)
(* each kind the paths of the code tell apart.                                        *)
EXTENDS Formats, TLC

Color == {"sampled", "storage", "src", "dst", "attachment"}
Texture == {"sampled", "src", "dst"}
Small == {"R8_UNORM", "R8_SNORM"}
\* The features of a driver with compressed formats C and replacements R.
Tilings(C, R) ==
  [t \in {"optimal", "linear"} |-> [f \in AllFormats |->
     IF t = "linear" THEN {} ELSE IF f \in C THEN Texture ELSE IF f \in R THEN Color ELSE {}]]

Xclipse ==
  [xclipse |-> TRUE, bc |-> FALSE, features |-> Tilings({}, Replacements), refuses |-> {"sparse"},
   external |-> FALSE, samples |-> {1, 4}, layers |-> 8, mips |-> 3, levels |-> 2]
XclipseBC ==
  [xclipse |-> TRUE, bc |-> TRUE, features |-> Tilings(Compressed, Replacements \ Small),
   refuses |-> {}, external |-> TRUE, samples |-> {1}, layers |-> 8, mips |-> 2, levels |-> 3]
Other ==
  [xclipse |-> FALSE, bc |-> FALSE,
   features |-> Tilings({"BC1_UNORM", "BC1_SRGB"}, Replacements),
   refuses |-> {"cube"}, external |-> FALSE, samples |-> {1}, layers |-> 4, mips |-> 2, levels |-> 2]
MCDriver == [xclipse |-> Xclipse, xclipse_bc |-> XclipseBC, other |-> Other]

ASSUME RequiredByVulkan == RequiredFormats
ASSUME ReliedOnByTheLayer == MutableSupported

D(f) == DefaultRequest(f)
MCRequests ==
  {[D("BC1_UNORM") EXCEPT !.external = TRUE],
   [D("BC1_UNORM") EXCEPT !.flags = {"mutable", "cube"}, !.view = "cube"],
   [D("BC7_SRGB") EXCEPT !.usage = {"sampled", "dst"}],
   [D("BC4_UNORM") EXCEPT !.type = "3D", !.view = "2D"],
   [D("BC6H_UFLOAT") EXCEPT !.flags = {"sparse"}]}
MCShapes == {[samples |-> 1, layers |-> 1, mips |-> 2], [samples |-> 1, layers |-> 6, mips |-> 3],
             [samples |-> 4, layers |-> 1, mips |-> 1]}
MCOverrides == {[Defaults EXCEPT !.enabled = FALSE]}
Symmetry == Permutations(Instances) \union Permutations(Physicals)
=============================================================================
