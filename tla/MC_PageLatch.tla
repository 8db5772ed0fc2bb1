---------------------------- MODULE MC_PageLatch ----------------------------
(***************************************************************************)
(* Instances of PageLatch for TLC.  A page starts either fresh (counters   *)
(* 0) or with both counters one step from wrapping, so that the carries of *)
(* unlock_version happen inside the bounded behaviours.                    *)
(***************************************************************************)
EXTENDS PageLatch

MC_CounterStart == {<<0, 0>>, <<InsertCounterMod - 1, SplitCounterMod - 1>>}

\* Fresh counters only.
MC_FreshCounters == {<<0, 0>>}

\* A split counter one step from wrapping, insertion counter even.
MC_SplitWrapStart == {<<0, SplitCounterMod - 1>>}

\* An insertion counter one inserting section from wrapping.
MC_InsertWrapStart == {<<InsertCounterMod - 1, 0>>}
=============================================================================
