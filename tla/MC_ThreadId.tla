---------------------------- MODULE MC_ThreadId -----------------------------
(* The whole uint8_t domain of both halves of a ThreadId. *)
EXTENDS ThreadId

MC_Nodes == 0..kMaxThreadGroupId
=============================================================================
