----------------------------- MODULE PageLatch -----------------------------
(***************************************************************************)
(* One page shared by writer threads and optimistic reader threads,        *)
(* synchronised only by the page's PageVersion word (page.hpp).            *)
(*                                                                         *)
(* Writers run lock_version, any of the mutators of PageVersion, write     *)
(* the page body and run unlock_version.  Readers follow the optimistic    *)
(* read protocol of the spec (section 4.2): v1 = stable_version(), read    *)
(* the body, v2 = reload, retry if a counter moved or v2 shows inserting   *)
(* or splitting.  The page body is two cells written one after the other, *)
(* so a read that overlaps a write can see a torn body.  A write stores    *)
(* the token <<writer, critical-section number>> in both cells.            *)
(*                                                                         *)
(* The version word is one aligned 64-bit word: on x86-64 every plain      *)
(* load or store of it is indivisible, so each member function is one step *)
(* (the read and CAS of lock_version are one step: the CAS fails whenever  *)
(* the word moved since the read, which is a repetition of the loop).      *)
(***************************************************************************)
EXTENDS PageVersion, Naturals, FiniteSets

CONSTANTS
  Writers,            \* writer threads
  Readers,            \* optimistic reader threads
  NoThread,           \* sentinel: the page was not created locked
  InitialBody,        \* token of the body written before the page was shared
  NoResult,           \* sentinel: a reader has accepted no read yet
  MaxCS,              \* critical sections per writer
  MaxMutations,       \* mutator calls and body writes per critical section
  MaxReads,           \* successful reads per reader
  CounterStart,       \* <<insertion, split>> counters the page may have when
                      \* checking starts
  CreateFlags,        \* values of the has_foster_child / is_border /
                      \* is_high_fence_supremum arguments of initialize
  LayerValues,        \* layers a page may be created with
  KeyCountArgs        \* arguments passed to set_key_count

ASSUME /\ NoThread \notin Writers
       /\ MaxCS \in Nat /\ MaxMutations \in Nat /\ MaxReads \in Nat
       /\ \A c \in CounterStart : /\ c[1] \in 0..(InsertCounterMod - 1)
                                 /\ c[2] \in 0..(SplitCounterMod - 1)
       /\ CreateFlags \subseteq BOOLEAN

VARIABLES
  ver,      \* the PageVersion word of the page header
  body,     \* the page body: two cells
  wpc,      \* writer: "idle", "cs" (holds the lock), "half" (cell 1 written)
  wdone,    \* writer: finished critical sections
  muts,     \* writer: mutator calls in the current critical section
  rpc,      \* reader: "stable", "body1", "body2", "validate"
  v1,       \* reader: the version returned by stable_version
  snap,     \* reader: the body cells read
  rdone,    \* reader: accepted reads
  result,   \* reader: body of the last accepted read (history)
  origin,   \* counters of the page when checking started (history)
  structural \* completed critical sections with inserting / splitting set (history)

vars == <<ver, body, wpc, wdone, muts, rpc, v1, snap, rdone, result, origin,
          structural>>

Tokens == {InitialBody} \cup (Writers \X (0..MaxCS))

Holders == {w \in Writers : wpc[w] # "idle"}

(***************************************************************************)
(* A page as VolatilePageInitializer / PageVersion::initialize leave it,   *)
(* after some earlier history of critical sections has moved its counters *)
(* to a pair of CounterStart.  A page                                      *)
(* created locked (initialize(locked = TRUE, ...)) is held by its creator. *)
(***************************************************************************)
Init ==
  /\ \E creator \in Writers \cup {NoThread}, foster, border, sup \in CreateFlags,
        layer \in LayerValues, c \in CounterStart :
       /\ ver = [Initialize(creator # NoThread, foster, border, sup, layer)
                   EXCEPT !.insert_counter = c[1], !.split_counter = c[2]]
       /\ wpc = [w \in Writers |-> IF w = creator THEN "cs" ELSE "idle"]
       /\ origin = [insert |-> c[1], split |-> c[2]]
  /\ body = <<InitialBody, InitialBody>>
  /\ wdone = [w \in Writers |-> 0]
  /\ muts = [w \in Writers |-> 0]
  /\ rpc = [r \in Readers |-> "stable"]
  /\ v1 = [r \in Readers |-> ver]
  /\ snap = [r \in Readers |-> body]
  /\ rdone = [r \in Readers |-> 0]
  /\ result = [r \in Readers |-> NoResult]
  /\ structural = [insert |-> 0, split |-> 0]

-----------------------------------------------------------------------------
(* Writers *)

\* Mutant of Lock: the acquiring store does not check the locked bit.
LockWithoutCheck(w) ==
  /\ wpc[w] = "idle"
  /\ wdone[w] < MaxCS
  /\ ver' = LockedVersion(ver)
  /\ wpc' = [wpc EXCEPT ![w] = "cs"]
  /\ muts' = [muts EXCEPT ![w] = 0]
  /\ UNCHANGED <<body, wdone, rpc, v1, snap, rdone, result, origin, structural>>

\* lock_version: spin while locked, then CAS ver -> ver | locked.
Lock(w) ==
  /\ wpc[w] = "idle"
  /\ wdone[w] < MaxCS
  /\ ~ver.locked
  /\ ver' = LockedVersion(ver)
  /\ wpc' = [wpc EXCEPT ![w] = "cs"]
  /\ muts' = [muts EXCEPT ![w] = 0]
  /\ UNCHANGED <<body, wdone, rpc, v1, snap, rdone, result, origin, structural>>

\* One call of a PageVersion mutator by the lock holder.
Mutate(w, newVer) ==
  /\ wpc[w] = "cs"
  /\ muts[w] < MaxMutations
  /\ ver' = newVer
  /\ muts' = [muts EXCEPT ![w] = @ + 1]
  /\ UNCHANGED <<body, wpc, wdone, rpc, v1, snap, rdone, result, origin,
                 structural>>

DoSetInserting(w)         == Mutate(w, SetInserting(ver))
DoSetSplitting(w)         == Mutate(w, SetSplitting(ver))
DoIncrementKeyCount(w)    == Mutate(w, IncrementKeyCount(ver))
DoSetKeyCount(w, n)       == Mutate(w, SetKeyCount(ver, n))
DoSetHasFosterChild(w, b) == Mutate(w, SetHasFosterChild(ver, b))

\* The holder writes the page body, cell 1 then cell 2, and only inside an
\* inserting or splitting section: the writer discipline the optimistic
\* read relies on (spec 4.2).  The mutators of the word itself need only
\* the lock (set_key_count, set_has_foster_child, increment_key_count).
MayWriteBody == ver.inserting \/ ver.splitting

WriteBody1(w) ==
  /\ wpc[w] = "cs"
  /\ muts[w] < MaxMutations
  /\ MayWriteBody
  /\ body' = [body EXCEPT ![1] = <<w, wdone[w]>>]
  /\ wpc' = [wpc EXCEPT ![w] = "half"]
  /\ muts' = [muts EXCEPT ![w] = @ + 1]
  /\ UNCHANGED <<ver, wdone, rpc, v1, snap, rdone, result, origin,
                 structural>>

WriteBody2(w) ==
  /\ wpc[w] = "half"
  /\ body' = [body EXCEPT ![2] = <<w, wdone[w]>>]
  /\ wpc' = [wpc EXCEPT ![w] = "cs"]
  /\ UNCHANGED <<ver, wdone, muts, rpc, v1, snap, rdone, result, origin,
                 structural>>

\* unlock_version, by the holder (precondition of the function).
Unlock(w) ==
  /\ wpc[w] = "cs"
  /\ ver' = UnlockedVersion(ver)
  /\ wpc' = [wpc EXCEPT ![w] = "idle"]
  /\ wdone' = [wdone EXCEPT ![w] = @ + 1]
  /\ structural' = [insert |-> structural.insert + IF ver.inserting THEN 1 ELSE 0,
                    split  |-> structural.split + IF ver.splitting THEN 1 ELSE 0]
  /\ UNCHANGED <<body, muts, rpc, v1, snap, rdone, result, origin>>

-----------------------------------------------------------------------------
(* Readers: the optimistic read protocol *)

\* stable_version: returns the word once neither inserting nor splitting is set.
StableVersion(r) ==
  /\ rpc[r] = "stable"
  /\ rdone[r] < MaxReads
  /\ IsStable(ver)
  /\ v1' = [v1 EXCEPT ![r] = ver]
  /\ rpc' = [rpc EXCEPT ![r] = "body1"]
  /\ UNCHANGED <<ver, body, wpc, wdone, muts, snap, rdone, result, origin,
                 structural>>

\* One more turn of the spin loop of stable_version.
StableVersionSpin(r) ==
  /\ rpc[r] = "stable"
  /\ rdone[r] < MaxReads
  /\ ~IsStable(ver)
  /\ UNCHANGED vars

ReadBody(r, i, at, next) ==
  /\ rpc[r] = at
  /\ snap' = [snap EXCEPT ![r][i] = body[i]]
  /\ rpc' = [rpc EXCEPT ![r] = next]
  /\ UNCHANGED <<ver, body, wpc, wdone, muts, v1, rdone, result, origin,
                 structural>>

\* Step 4 of the protocol: the read must be retried.
Changed(old, new) ==
  \/ old.insert_counter # new.insert_counter
  \/ old.split_counter # new.split_counter
  \/ ~IsStable(new)

Accept(r) ==
  /\ rpc[r] = "validate"
  /\ ~Changed(v1[r], ver)
  /\ rdone' = [rdone EXCEPT ![r] = @ + 1]
  /\ result' = [result EXCEPT ![r] = snap[r]]
  /\ rpc' = [rpc EXCEPT ![r] = "stable"]
  /\ UNCHANGED <<ver, body, wpc, wdone, muts, v1, snap, origin, structural>>

Retry(r) ==
  /\ rpc[r] = "validate"
  /\ Changed(v1[r], ver)
  /\ rpc' = [rpc EXCEPT ![r] = "stable"]
  /\ UNCHANGED <<ver, body, wpc, wdone, muts, v1, snap, rdone, result, origin,
                 structural>>

-----------------------------------------------------------------------------

WriterStep(w) ==
  \/ Lock(w)
  \/ DoSetInserting(w)
  \/ DoSetSplitting(w)
  \/ DoIncrementKeyCount(w)
  \/ \E n \in KeyCountArgs : DoSetKeyCount(w, n)
  \/ \E b \in BOOLEAN : DoSetHasFosterChild(w, b)
  \/ WriteBody1(w)
  \/ WriteBody2(w)
  \/ Unlock(w)

ReaderStep(r) ==
  \/ StableVersion(r)
  \/ StableVersionSpin(r)
  \/ ReadBody(r, 1, "body1", "body2")
  \/ ReadBody(r, 2, "body2", "validate")
  \/ Accept(r)
  \/ Retry(r)

\* All bounded work is done.
Finished ==
  /\ \A w \in Writers : wpc[w] = "idle" /\ wdone[w] = MaxCS
  /\ \A r \in Readers : rdone[r] = MaxReads
  /\ UNCHANGED vars

Next ==
  \/ \E w \in Writers : WriterStep(w)
  \/ \E r \in Readers : ReaderStep(r)
  \/ Finished

\* Every thread is an OS thread that keeps running while it can step.
Fairness ==
  /\ \A w \in Writers : WF_vars(WriterStep(w))
  /\ \A r \in Readers : WF_vars(ReaderStep(r))

Spec == Init /\ [][Next]_vars /\ Fairness

-----------------------------------------------------------------------------
(* Properties *)

TypeOK ==
  /\ ver \in Versions
  /\ body \in Tokens \X Tokens
  /\ wpc \in [Writers -> {"idle", "cs", "half"}]
  /\ wdone \in [Writers -> 0..MaxCS]
  /\ muts \in [Writers -> 0..MaxMutations]
  /\ rpc \in [Readers -> {"stable", "body1", "body2", "validate"}]
  /\ v1 \in [Readers -> Versions]
  /\ snap \in [Readers -> Tokens \X Tokens]
  /\ rdone \in [Readers -> 0..MaxReads]
  /\ result \in [Readers -> (Tokens \X Tokens) \cup {NoResult}]

(***************************************************************************)
(* lock_version is a mutual exclusion lock: at most one writer is between  *)
(* its lock_version and unlock_version, and the locked bit of the word is  *)
(* set exactly while one is.                                               *)
(***************************************************************************)
MutualExclusion ==
  /\ Cardinality(Holders) <= 1
  /\ ver.locked <=> Holders # {}

(***************************************************************************)
(* The page refines AbstractPage: the lock is an exclusive owner, the      *)
(* page body changes only when the owner completes a write of the body,    *)
(* and every read the optimistic protocol accepts returns the body as it   *)
(* is at the instant of the accepting validation (no torn or stale read),  *)
(* even when unlock_version wraps a counter.                               *)
(***************************************************************************)
CommittedBody == <<body[2], body[2]>>

ABS == INSTANCE AbstractPage
         WITH owner <- IF Holders = {} THEN NoThread ELSE CHOOSE w \in Holders : TRUE,
              data <- CommittedBody,
              observed <- result,
              Values <- Tokens \X Tokens,
              NoValue <- NoResult

PageRefinesAbstract == ABS!Spec

(***************************************************************************)
(* Progress of the spinning loops: with a bounded number of critical       *)
(* sections, every writer finishes all of its critical sections and every  *)
(* reader gets all of its reads accepted (stable_version stops spinning    *)
(* and validation stops failing once writers are done).                    *)
(***************************************************************************)
AllWorkCompletes ==
  <>(/\ \A w \in Writers : wdone[w] = MaxCS
     /\ \A r \in Readers : rdone[r] = MaxReads)

(***************************************************************************)
(* Spec section 3, invariant (ii): is_high_fence_supremum is written once, *)
(* by PageVersion::initialize, and never changes afterwards.               *)
(***************************************************************************)
SupremumImmutable ==
  [][ver'.is_high_fence_supremum = ver.is_high_fence_supremum]_ver

(***************************************************************************)
(* Spec section 4.2, unlock_version: an unlock after inserting bumps the   *)
(* insertion counter by 1 modulo its field, after splitting bumps the      *)
(* split counter by 1 modulo its field.  So each counter is its starting   *)
(* value plus the number of such critical sections, modulo its width.      *)
(***************************************************************************)
CountersCountCriticalSections ==
  /\ ver.insert_counter = (origin.insert + structural.insert) % InsertCounterMod
  /\ ver.split_counter = (origin.split + structural.split) % SplitCounterMod

(***************************************************************************)
(* Spec T5: when a reader's two readings show the same counters and no     *)
(* inserting or splitting, no writer's critical section completed between *)
(* them.  So when the reader accepts with the page unlocked, the word is   *)
(* the one stable_version returned, but for a locked bit that v1 may have  *)
(* shown (stable_version does not wait for the lock).  The comment of      *)
(* lock_version (part_001:179) leaves setting inserting/splitting to the   *)
(* caller, and a section that only calls set_key_count,                   *)
(* increment_key_count or set_has_foster_child bumps no counter.           *)
(***************************************************************************)
AcceptedWordUnchanged ==
  [][\A r \in Readers :
        (rdone'[r] = rdone[r] + 1 /\ ~ver.locked) => ver = [v1[r] EXCEPT !.locked = FALSE]]_vars
=============================================================================
