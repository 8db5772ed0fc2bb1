--------------------------- MODULE PageLifecycle ---------------------------
(***************************************************************************)
(* Volatile pages taken from the pool and (re)initialised.  A page is      *)
(* made live by VolatilePageInitializer::initialize (memset of the page,   *)
(* PageHeader::init_volatile, initialize_more), written by writers and     *)
(* read by optimistic readers, and returned to the pool.  The pool, the    *)
(* retirement of pages and the reader's protocol are not under src/ and    *)
(* are modelled from the spec (4.2, 4.3, 4.5, 5).                          *)
(*                                                                         *)
(* A writer's critical section (lock_version, set_inserting, body write,   *)
(* unlock_version) is one step here: PageLatch checks its interleavings    *)
(* and shows that accepted reads see it as atomic (PageRefinesAbstract).   *)
(* The page body is a token <<life, k>>: the k-th write of the page's      *)
(* life-th initialisation; the zeroed body of a fresh life is <<life, 0>>. *)
(***************************************************************************)
EXTENDS PageVersion, Naturals

CONSTANTS
  Pages,         \* the pool's page frames (VolatilePagePointer ids)
  Initializers,  \* [storage_id_, page_type_, root_] of the storages' initializers
  Readers,
  MaxLives,      \* bound on initialisations per frame
  MaxWrites,     \* bound on critical sections per life
  MaxReads,      \* bound on read attempts per reader
  NoPage

VARIABLES
  hdr,     \* frame -> PageHeader fields, page_version_ a PageVersion record
  body,    \* frame -> body token
  live,    \* frame -> reachable from a storage (not in the pool)
  life,    \* frame -> number of initialisations so far
  rpc,     \* reader -> "idle" | "read" | "validate"
  rpage,   \* reader -> frame being read, or NoPage
  v1,      \* reader -> version taken before the read
  begin,   \* reader -> body when v1 was taken (history, for the property)
  snap,    \* reader -> body the reader read
  tries,   \* reader -> reads begun
  bad      \* some accepted read returned a body other than the one at v1

vars == <<hdr, body, live, life, rpc, rpage, v1, begin, snap, tries, bad>>

ZeroVersion == Initialize(FALSE, FALSE, FALSE, FALSE, 0)

\* The pool's memory before any frame is used (zero-filled).
ZeroHeader ==
  [page_id_ |-> NoPage, storage_id_ |-> 0, checksum_ |-> 0, page_type_ |-> 0,
   snapshot_ |-> FALSE, root_ |-> FALSE, stat_latest_modifier_ |-> 0,
   stat_latest_modify_epoch_ |-> 0, page_version_ |-> ZeroVersion]

\* PageHeader::init_volatile.
init_volatile(h, page_id, storage_id, page_type, root) ==
  [h EXCEPT !.page_id_ = page_id, !.storage_id_ = storage_id, !.checksum_ = 0,
            !.page_type_ = page_type, !.snapshot_ = FALSE, !.root_ = root,
            !.stat_latest_modifier_ = 0, !.stat_latest_modify_epoch_ = 0,
            !.page_version_ = ZeroVersion]

\* PageHeader::init_snapshot: the same on a snapshot page, snapshot_ = TRUE.
init_snapshot(h, page_id, storage_id, page_type, root) ==
  [init_volatile(h, page_id, storage_id, page_type, root) EXCEPT !.snapshot_ = TRUE]

\* DummyVolatilePageInitializer: storage 0, kUnknownPageType, root.
DummyInitializer == [storage_id_ |-> 0, page_type_ |-> 0, root_ |-> TRUE]

\* A critical section's effect on the word: lock, set_inserting, unlock.
CriticalSection(v) == UnlockedVersion(SetInserting(LockedVersion(v)))

Init ==
  /\ hdr = [p \in Pages |-> ZeroHeader]
  /\ body = [p \in Pages |-> <<0, 0>>]
  /\ live = [p \in Pages |-> FALSE]
  /\ life = [p \in Pages |-> 0]
  /\ rpc = [r \in Readers |-> "idle"]
  /\ rpage = [r \in Readers |-> NoPage]
  /\ v1 = [r \in Readers |-> ZeroVersion]
  /\ begin = [r \in Readers |-> <<0, 0>>]
  /\ snap = [r \in Readers |-> <<0, 0>>]
  /\ tries = [r \in Readers |-> 0]
  /\ bad = FALSE

(***************************************************************************)
(* VolatilePageInitializer::initialize on a frame taken from the pool:     *)
(* memset (the body of the new life is zero), init_volatile with the       *)
(* initializer's constants, initialize_more (no header change).            *)
(***************************************************************************)
Initialize_page(p, init) ==
  /\ ~live[p]
  /\ life[p] < MaxLives
  /\ hdr' = [hdr EXCEPT ![p] = init_volatile(ZeroHeader, p, init.storage_id_,
                                               init.page_type_, init.root_)]
  /\ body' = [body EXCEPT ![p] = <<life[p] + 1, 0>>]
  /\ live' = [live EXCEPT ![p] = TRUE]
  /\ life' = [life EXCEPT ![p] = @ + 1]
  /\ UNCHANGED <<rpc, rpage, v1, begin, snap, tries, bad>>

\* One writer critical section on a live page.
Write(p) ==
  /\ live[p]
  /\ body[p][2] < MaxWrites
  /\ hdr' = [hdr EXCEPT ![p].page_version_ = CriticalSection(@)]
  /\ body' = [body EXCEPT ![p] = <<@[1], @[2] + 1>>]
  /\ UNCHANGED <<live, life, rpc, rpage, v1, begin, snap, tries, bad>>

\* The page becomes unreachable and its frame goes back to the pool once no
\* reader is between stable_version and validation: init_volatile's caller
\* owns the frame exclusively (spec 4.3).
Retire(p) ==
  /\ live[p]
  /\ \A r \in Readers : rpage[r] # p
  /\ live' = [live EXCEPT ![p] = FALSE]
  /\ UNCHANGED <<hdr, body, life, rpc, rpage, v1, begin, snap, tries, bad>>

\* Reader: follows a pointer to a live page and takes stable_version.
BeginRead(r, p) ==
  /\ rpc[r] = "idle"
  /\ tries[r] < MaxReads
  /\ live[p]
  /\ rpc' = [rpc EXCEPT ![r] = "read"]
  /\ rpage' = [rpage EXCEPT ![r] = p]
  /\ v1' = [v1 EXCEPT ![r] = hdr[p].page_version_]
  /\ begin' = [begin EXCEPT ![r] = body[p]]
  /\ tries' = [tries EXCEPT ![r] = @ + 1]
  /\ UNCHANGED <<hdr, body, live, life, snap, bad>>

\* Reader: reads the body of the frame it holds a pointer to.
ReadPage(r) ==
  /\ rpc[r] = "read"
  /\ snap' = [snap EXCEPT ![r] = body[rpage[r]]]
  /\ rpc' = [rpc EXCEPT ![r] = "validate"]
  /\ UNCHANGED <<hdr, body, live, life, rpage, v1, begin, tries, bad>>

\* Reader: reloads the word; accepts when neither counter moved and no
\* marker bit is set, otherwise drops the read.
Validate(r) ==
  LET v2 == hdr[rpage[r]].page_version_
      ok == /\ v2.insert_counter = v1[r].insert_counter
            /\ v2.split_counter = v1[r].split_counter
            /\ IsStable(v2)
  IN  /\ rpc[r] = "validate"
      /\ bad' = (bad \/ (ok /\ snap[r] # begin[r]))
      /\ rpc' = [rpc EXCEPT ![r] = "idle"]
      /\ rpage' = [rpage EXCEPT ![r] = NoPage]
      /\ UNCHANGED <<hdr, body, live, life, v1, begin, snap, tries>>

Next ==
  \/ \E p \in Pages, init \in Initializers : Initialize_page(p, init)
  \/ \E p \in Pages : Write(p) \/ Retire(p)
  \/ \E r \in Readers : \/ \E p \in Pages : BeginRead(r, p)
                        \/ ReadPage(r)
                        \/ Validate(r)

Spec == Init /\ [][Next]_vars

-----------------------------------------------------------------------------

(***************************************************************************)
(* A read the reader accepts returns the page as it was when the reader    *)
(* took v1 (spec T5, and spec 9: readers tolerate the wrap of the          *)
(* insertion counter because the check asks for inequality).              *)
(***************************************************************************)
AcceptedReadsAreConsistent == ~bad
=============================================================================
