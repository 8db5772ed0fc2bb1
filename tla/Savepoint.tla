----------------------------- MODULE Savepoint -----------------------------
(***************************************************************************)
(* Savepoint (savepoint.cpp): the engine's progress record.  An object is  *)
(* a record of the six fields; the four per-logger vectors are sequences.  *)
(* save writes one XML element per scalar and one per vector entry, each   *)
(* named after its field; the document is the set of those elements        *)
(* (tag, position, value), position 0 for a scalar.  The comment element   *)
(* save inserts first is ignored by load and left out.                     *)
(***************************************************************************)
EXTENDS Naturals, Sequences, FiniteSets

\* Savepoint(): the constructor does nothing.  Both ways a savepoint is
\* filled (load, populate_empty) overwrite the two epochs, so the
\* uninitialised values are not observable and are shown as 0.
Fresh ==
  [current_epoch_ |-> 0, durable_epoch_ |-> 0,
   oldest_log_files_ |-> <<>>, oldest_log_files_offset_begin_ |-> <<>>,
   current_log_files_ |-> <<>>, current_log_files_offset_durable_ |-> <<>>]

\* std::vector::resize(n, 0): keeps the first n entries, appends zeros.
Resize(s, n) == [i \in 1..n |-> IF i <= Len(s) THEN s[i] ELSE 0]

\* The two epochs set and each vector resized to the number of loggers.
Populated(sp, current, durable, logger_count) ==
  [sp EXCEPT !.current_epoch_ = current, !.durable_epoch_ = durable,
             !.oldest_log_files_ = Resize(@, logger_count),
             !.oldest_log_files_offset_begin_ = Resize(@, logger_count),
             !.current_log_files_ = Resize(@, logger_count),
             !.current_log_files_offset_durable_ = Resize(@, logger_count)]

\* Mutant of populate_empty: durable_epoch_ set to the first epoch, 2.
populate_empty_durable_2(sp, logger_count) == Populated(sp, 2, 2, logger_count)

\* Savepoint::populate_empty: epoch 0 is invalid and epoch 1 had no
\* transaction, so current = 2 and durable = 1.
populate_empty(sp, logger_count) == Populated(sp, 2, 1, logger_count)

\* The elements EXTERNALIZE_SAVE_ELEMENT writes for one vector.
VectorElements(tag, s) == {[tag |-> tag, pos |-> i, value |-> s[i]] : i \in 1..Len(s)}

\* Savepoint::save: the six fields, each under its own name.
save(sp) ==
  {[tag |-> "current_epoch_", pos |-> 0, value |-> sp.current_epoch_],
   [tag |-> "durable_epoch_", pos |-> 0, value |-> sp.durable_epoch_]}
  \cup VectorElements("oldest_log_files_", sp.oldest_log_files_)
  \cup VectorElements("oldest_log_files_offset_begin_", sp.oldest_log_files_offset_begin_)
  \cup VectorElements("current_log_files_", sp.current_log_files_)
  \cup VectorElements("current_log_files_offset_durable_", sp.current_log_files_offset_durable_)

\* EXTERNALIZE_LOAD_ELEMENT for a scalar and for a vector.
LoadScalar(doc, tag) == (CHOOSE e \in doc : e.tag = tag /\ e.pos = 0).value
LoadVector(doc, tag) ==
  LET n == Cardinality({e \in doc : e.tag = tag})
  IN  [i \in 1..n |-> (CHOOSE e \in doc : e.tag = tag /\ e.pos = i).value]

\* The six fields read in order; durableTag names the element the
\* durable epoch is read from.
LoadFields(sp, doc, durableTag) ==
  [sp EXCEPT !.current_epoch_ = LoadScalar(doc, "current_epoch_"),
             !.durable_epoch_ = LoadScalar(doc, durableTag),
             !.oldest_log_files_ = LoadVector(doc, "oldest_log_files_"),
             !.oldest_log_files_offset_begin_ = LoadVector(doc, "oldest_log_files_offset_begin_"),
             !.current_log_files_ = LoadVector(doc, "current_log_files_"),
             !.current_log_files_offset_durable_ = LoadVector(doc, "current_log_files_offset_durable_")]

\* Mutant of load: durable_epoch_ read from the current_epoch_ element.
load_durable_from_current(sp, doc) == LoadFields(sp, doc, "current_epoch_")

\* Savepoint::load: the six fields, each from the element of its name.
load(sp, doc) == LoadFields(sp, doc, "durable_epoch_")
=============================================================================
