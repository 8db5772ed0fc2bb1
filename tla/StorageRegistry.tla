-------------------------- MODULE StorageRegistry --------------------------
(***************************************************************************)
(* Creation of storages from Metadata (storage_options.hpp / metadata.hpp) *)
(* through ArrayStorageFactory (array_storage.cpp), with the create log    *)
(* each creation writes to the thread's log buffer.  The registry itself   *)
(* (create dispatching to a factory, the id -> storage map; spec 4.7) is   *)
(* not under src/ and is modelled from the spec.  A Metadata is a record   *)
(* of the common fields plus the ArrayMetadata fields; names are model     *)
(* values, the log is a sequence of create-log records.                    *)
(***************************************************************************)
EXTENDS Naturals, Sequences, FiniteSets

CONSTANTS
  StorageIds,     \* ids the engine hands out (all > 0)
  Names,          \* storage names
  StorageTypes,   \* type_ tags: "array" and the other kinds
  ArraySizes,     \* array_size_ values requested
  PayloadSizes,   \* payload_size_ values requested
  MaxStorages,    \* StorageOptions::max_storages_
  NoStorage       \* sentinel: no storage with this id

ASSUME "array" \in StorageTypes /\ 0 \notin StorageIds

\* StorageOptions: its one field, max_storages_ (kDefaultMaxStorages = 512
\* by default; the configurations give a small value).
StorageOptions == [max_storages_ |-> MaxStorages]

\* The fields of a Metadata (id_, type_, name_, root_snapshot_page_id_) and
\* the two of ArrayMetadata.  Root page ids are snapshot numbers, 0 = none.
Metadatas(rootIds) ==
  [id_ : StorageIds \cup {0}, type_ : StorageTypes \cup {"kInvalidStorage"},
   name_ : Names \cup {""}, root_snapshot_page_id_ : rootIds,
   array_size_ : ArraySizes, payload_size_ : PayloadSizes]

\* Metadata(): id 0, kInvalidStorage, empty name, no root page.
DefaultMetadata ==
  [id_ |-> 0, type_ |-> "kInvalidStorage", name_ |-> "", root_snapshot_page_id_ |-> 0,
   array_size_ |-> 0, payload_size_ |-> 0]

\* Metadata(id, type, name, root_snapshot_page_id) of an ArrayMetadata.
NewMetadataWithRoot(id, type, name, arraySize, payloadSize, root) ==
  [id_ |-> id, type_ |-> type, name_ |-> name, root_snapshot_page_id_ |-> root,
   array_size_ |-> arraySize, payload_size_ |-> payloadSize]

\* Metadata(id, type, name) of an ArrayMetadata: root_snapshot_page_id_ = 0
\* until the first snapshot.
NewMetadata(id, type, name, arraySize, payloadSize) ==
  [id_ |-> id, type_ |-> type, name_ |-> name, root_snapshot_page_id_ |-> 0,
   array_size_ |-> arraySize, payload_size_ |-> payloadSize]

\* Mutant of clone_base: root_snapshot_page_id_ is not copied.
clone_base_without_root(md, cloned) ==
  [cloned EXCEPT !.id_ = md.id_, !.type_ = md.type_, !.name_ = md.name_]

\* Metadata::clone_base(cloned): copies the four common fields into cloned.
clone_base(md, cloned) ==
  [cloned EXCEPT !.id_ = md.id_, !.type_ = md.type_, !.name_ = md.name_,
                 !.root_snapshot_page_id_ = md.root_snapshot_page_id_]

\* clone() of an ArrayMetadata (spec 4.6): a default-constructed object,
\* clone_base, then the two array fields.
Clone(md) ==
  [clone_base(md, DefaultMetadata) EXCEPT !.array_size_ = md.array_size_,
                                          !.payload_size_ = md.payload_size_]

\* ArrayStorageFactory::is_right_metadata: dynamic_cast<const ArrayMetadata*>.
IsRightMetadata(md) == md.type_ = "array"

\* ArrayStorageFactory::get_instance: the result code.
GetInstance(md) ==
  IF ~IsRightMetadata(md) THEN "kErrorCodeStrWrongMetadataType"
  ELSE IF md.payload_size_ = 0 THEN "kErrorCodeStrArrayInvalidOption"
  ELSE IF md.array_size_ = 0 THEN "kErrorCodeStrArrayInvalidOption"
  ELSE "kRetOk"

\* Mutant of CreateLogEntry: the two sizes are populated in swapped order.
CreateLogEntrySwapped(md) ==
  [id |-> md.id_, array_size |-> md.payload_size_,
   payload_size |-> md.array_size_, name |-> md.name_]

\* ArrayStorageFactory::add_create_log: ArrayCreateLogType::populate(id,
\* array_size, payload_size, name length, name data).
CreateLogEntry(md) ==
  [id |-> md.id_, array_size |-> md.array_size_,
   payload_size |-> md.payload_size_, name |-> md.name_]

VARIABLES
  storages,   \* id -> metadata of the live storage, or NoStorage
  log,        \* the create-log records written, in order
  lastResult  \* result code of the last create

vars == <<storages, log, lastResult>>

Live == {id \in StorageIds : storages[id] # NoStorage}

Init ==
  /\ storages = [id \in StorageIds |-> NoStorage]
  /\ log = <<>>
  /\ lastResult = "kRetOk"

\* The registry's own checks before dispatching (spec 4.7, 7): a conflict
\* on id or name, or no room for one more storage, is an error result.
RegistryCheck(md) ==
  IF storages[md.id_] # NoStorage THEN "StorageDuplicateId"
  ELSE IF \E id \in Live : storages[id].name_ = md.name_ THEN "DuplicateName"
  ELSE IF Cardinality(Live) >= StorageOptions.max_storages_ THEN "StorageOutOfCapacity"
  ELSE "kRetOk"

(***************************************************************************)
(* create(metadata): the registry checks, then the factory's get_instance; *)
(* on success the registry keeps a clone of the metadata as the live       *)
(* storage and add_create_log writes its create log.  Any error leaves     *)
(* the registry and the log as they were.                                  *)
(***************************************************************************)
Create(md) ==
  LET rc == IF RegistryCheck(md) # "kRetOk" THEN RegistryCheck(md)
            ELSE GetInstance(md)
  IN  /\ lastResult' = rc
      /\ IF rc = "kRetOk"
           THEN /\ storages' = [storages EXCEPT ![md.id_] = Clone(md)]
                /\ log' = Append(log, CreateLogEntry(md))
           ELSE UNCHANGED <<storages, log>>

Next ==
  \E id \in StorageIds, type \in StorageTypes, name \in Names,
     a \in ArraySizes, p \in PayloadSizes :
    Create(NewMetadata(id, type, name, a, p))

Spec == Init /\ [][Next]_vars

-----------------------------------------------------------------------------

\* Type invariant: every live storage is a Metadata filed under its own id,
\* and every create-log record carries an id, the two sizes and a name.
TypeOK ==
  /\ \A id \in StorageIds : \/ storages[id] = NoStorage
                            \/ storages[id] \in Metadatas({0}) /\ storages[id].id_ = id
  /\ log \in Seq([id : StorageIds, array_size : ArraySizes,
                  payload_size : PayloadSizes, name : Names])
=============================================================================
