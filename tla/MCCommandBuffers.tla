-------------------------- MODULE MCCommandBuffers --------------------------
(* Two threads, two pools, command buffers that the driver hands out again. *)
(* OwnKeys: each handle points to an object with a first word of its own.   *)
(* LoaderKeys: the first word is the device's dispatch table, as it is for  *)
(* every dispatchable handle a Vulkan loader has initialized.               *)
EXTENDS CommandBuffers, TLC

CONSTANTS t1, t2, p1, p2, c1, c2, c3, r1, r2

OwnKeys == [c \in CommandBuffers |-> c]
LoaderKeys == [c \in CommandBuffers |-> "dispatch table"]
MCThreads == {t1, t2}
MCPools == {p1, p2}
MCTwoBuffers == {c1, c2}
MCThreeBuffers == {c1, c2, c3}
MCResources == {r1, r2}
Symmetry ==
  Permutations(MCThreads) \union Permutations(MCPools)
    \union Permutations(CommandBuffers) \union Permutations(MCResources)
=============================================================================
