------------------------------ MODULE ThreadId ------------------------------
(***************************************************************************)
(* foedus/thread/thread_id.hpp: a global ThreadId (uint16_t) packs the     *)
(* NUMA node (ThreadGroupId, uint8_t, high byte) and the core ordinal in   *)
(* the node (ThreadLocalOrdinal, uint8_t, low byte).  The three inline     *)
(* functions are translated with the shifts and masks of the code; the     *)
(* reference is the arithmetic reading of the comment of ThreadId          *)
(* ("thread-256=node-1 core-0").  The state is only the input being        *)
(* checked: a node and an ordinal, and each step moves to the next ordinal.*)
(***************************************************************************)
EXTENDS Naturals, Bitwise

CONSTANT Nodes   \* nodes whose every ordinal is checked

kMaxThreadGroupId      == 255
kMaxThreadLocalOrdinal == 255
kMaxThreadId           == 65535

ASSUME Nodes \subseteq 0..kMaxThreadGroupId

\* A left shift of a uint8_t promoted to int (no overflow for k <= 23).
ShiftL(x, k) == x * 2^k

\* Mutant of compose_thread_id: the node is shifted by 7 instead of 8.
compose_thread_id_shift7(node, local_core) == (ShiftL(node, 7) | local_core) % 2^16

\* (node << 8) | local_core, converted to the uint16_t return type.
compose_thread_id(node, local_core) == (ShiftL(node, 8) | local_core) % 2^16

decompose_numa_node(global_id) == shiftR(global_id, 8) & 255

decompose_numa_local_ordinal(global_id) == global_id & 255

VARIABLES node, core

Init == node \in Nodes /\ core = 0

Next == node' = node /\ core' = (core + 1) % (kMaxThreadLocalOrdinal + 1)

Spec == Init /\ [][Next]_<<node, core>>

(***************************************************************************)
(* compose_thread_id is the bijection node * 256 + ordinal of the comment  *)
(* on ThreadId, so ids of different (node, core) pairs never collide, and  *)
(* the two decompose functions give back the pair it was composed from.   *)
(***************************************************************************)
ComposeRoundTrip ==
  LET id == compose_thread_id(node, core)
  IN  /\ id = node * 256 + core
      /\ id <= kMaxThreadId
      /\ decompose_numa_node(id) = node
      /\ decompose_numa_local_ordinal(id) = core
=============================================================================
