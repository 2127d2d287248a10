----------------------------- MODULE StagingAbs -----------------------------
(***************************************************************************)
(* What the staging allocator promises to the code that records uploads:   *)
(* every holder (a command buffer's tracked list, or the list of a decode  *)
(* still being recorded) owns blocks of device memory that no other holder *)
(* can reach, and the buffer below a block lives as long as the block.     *)
(* How memory is pooled, split and merged is not visible here.             *)
(***************************************************************************)
EXTENDS Naturals

CONSTANTS Holders,  \* owners of staging memory
          Buffers   \* VkBuffer handles the driver may hand out

VARIABLES buffers,  \* handles of the buffers that exist
          blocks    \* holder -> set of blocks it owns

vars == <<buffers, blocks>>

Block == [buffer : Buffers, offset : Nat, size : Nat \ {0}]

Overlap(p, q) ==
  /\ p.buffer = q.buffer
  /\ p.offset < q.offset + q.size
  /\ q.offset < p.offset + p.size

Init ==
  /\ buffers = {}
  /\ blocks = [h \in Holders |-> {}]

\* A holder receives one block no holder has any part of; buffers may appear.
\* (The block is read off the next state, so that there is no bound on its size.)
Grant(h) ==
  \E b \in blocks'[h] :
    /\ b \in Block
    /\ \A g \in Holders : \A c \in blocks[g] : ~Overlap(b, c)
    /\ blocks' = [blocks EXCEPT ![h] = @ \union {b}]
    /\ buffers' \subseteq Buffers
    /\ buffers \subseteq buffers'
    /\ b.buffer \in buffers'

\* A holder gives everything back; only buffers nobody uses may disappear.
Return(h) ==
  /\ blocks' = [blocks EXCEPT ![h] = {}]
  /\ buffers' \subseteq buffers
  /\ \A g \in Holders \ {h} : \A c \in blocks[g] : c.buffer \in buffers'

\* The device goes away, and every buffer with it.
Discard ==
  /\ blocks' = [h \in Holders |-> {}]
  /\ buffers' = {}

Next ==
  \/ \E h \in Holders : Return(h) \/ Grant(h)
  \/ Discard

Spec == Init /\ [][Next]_vars
=============================================================================
