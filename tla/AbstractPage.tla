---------------------------- MODULE AbstractPage ----------------------------
(***************************************************************************)
(* What a page guarded by its PageVersion promises its users: an           *)
(* exclusive lock held by at most one writer, page contents that change    *)
(* only at a step of the lock holder, and reads that return the contents   *)
(* as they are at one instant.                                             *)
(***************************************************************************)
CONSTANTS Writers, Readers, NoThread, Values, NoValue

VARIABLES owner, data, observed

avars == <<owner, data, observed>>

Init ==
  /\ owner \in Writers \cup {NoThread}
  /\ data \in Values
  /\ observed = [r \in Readers |-> NoValue]

Acquire(w) ==
  /\ owner = NoThread
  /\ owner' = w
  /\ UNCHANGED <<data, observed>>

Modify(w) ==
  /\ owner = w
  /\ data' \in Values
  /\ UNCHANGED <<owner, observed>>

Release(w) ==
  /\ owner = w
  /\ owner' = NoThread
  /\ UNCHANGED <<data, observed>>

Read(r) ==
  /\ observed' = [observed EXCEPT ![r] = data]
  /\ UNCHANGED <<owner, data>>

Next ==
  \/ \E w \in Writers : Acquire(w) \/ Modify(w) \/ Release(w)
  \/ \E r \in Readers : Read(r)

Spec == Init /\ [][Next]_avars
=============================================================================
