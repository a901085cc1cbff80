----------------------------- MODULE PhoneDatabase -----------------------------
(***************************************************************************)
(* The phone's database on disk, from the start of the process to Room:    *)
(* DatabasePreparation, EncryptedDatabaseMigrator and DatabaseKeyStore.    *)
(*                                                                         *)
(* The export goes to one staging file, which an atomic rename puts in the *)
(* place of the original; there is no backup.  What may lie beside a file  *)
(* matters: a write-ahead log with commits that are nowhere else, and a    *)
(* rollback journal, hot with a transaction to undo or cold (empty), which *)
(* some Android versions leave behind after a clean close.                 *)
(*                                                                         *)
(* Android ends the old version's process before it starts the new one, so *)
(* nobody else writes; the old version may have been killed at any moment. *)
(* One thread prepares, once in a process, and everyone waits for it.  A   *)
(* death of the process may fall between any two steps, and stands for an  *)
(* operation that throws; loss of power below a completed fsync is left    *)
(* out, and so is the loss of the wrapping key, which is made first.       *)
(***************************************************************************)
EXTENDS Naturals

CONSTANTS MaxStored,    \* bound: transactions
          MaxDeaths     \* bound: deaths of the process while it prepares

ASSUME PhoneBoundsAssumption == MaxStored \in Nat /\ MaxStored >= 2 /\ MaxDeaths \in Nat

VARIABLES
  database,      \* the file at the database's path
  log,           \* commits that only its write-ahead log holds
  journal,       \* its rollback journal
  staging,       \* .encrypted-staging
  leftover,      \* the rollback journal of staging
  record,        \* the wrapped key: none, pending (its file not yet renamed) or whole
  place,         \* where the process is
  deaths

sides     == <<log, journal>>
export    == <<staging, leftover>>
phoneVars == <<database, sides, export, record, place, deaths>>

Journals == {"none", "cold", "hot"}
\* "new" is a file without a schema yet.
Absent   == [kind |-> "missing", rows |-> 0]
New      == [kind |-> "new", rows |-> 0]
Sealed(n) == [kind |-> "cipher", rows |-> n]

Migrating == {"plain", "checkpointed", "retired", "discarded", "clean", "opened", "exporting",
              "exported", "verified", "checked"}
Preparing == Migrating \union {"keyless", "sealing", "keyed", "creating", "filling", "opening"}

\* A fresh installation, or an old version's database: a log that was not folded, a
\* transaction that was not finished, or closed cleanly.
PhoneInit ==
  /\ \/ database = Absent /\ log = 0 /\ journal = "none"
     \/ \E n, w \in 0..1 : \E j \in Journals :
          /\ database = [kind |-> "plain", rows |-> n] /\ log = w /\ journal = j
          /\ w > 0 => j = "none"
  /\ staging = Absent /\ leftover = "none"
  /\ record = "none" /\ place = "down" /\ deaths = 0

Goes(from, to) == place = from /\ place' = to

-----------------------------------------------------------------------------
(* The key. *)

StagingLies == staging # Absent \/ leftover # "none"

\* requiresExistingKey
NeedsKey ==
  \/ StagingLies
  \/ database = Absent /\ (log > 0 \/ journal # "none")
  \/ database.kind \in {"new", "cipher"}

\* getOrCreate: an interrupted write is refused, and so is data without a key.
FindKey ==
  /\ Goes("down", IF record = "pending" \/ (record = "none" /\ NeedsKey) THEN "refused"
                  ELSE IF record = "none" THEN "keyless" ELSE "keyed")
  /\ UNCHANGED <<database, sides, export, record, deaths>>

\* Mutant of WriteRecord: the record is written after the first use of the key.
WriteNoRecord ==
  /\ Goes("keyless", "keyed")
  /\ UNCHANGED <<database, sides, export, record, deaths>>

\* writeOnce: into a pending file ...
WriteRecord ==
  /\ Goes("keyless", "sealing")
  /\ record' = "pending"
  /\ UNCHANGED <<database, sides, export, deaths>>

\* ... which then gets its name.
PlaceRecord ==
  /\ Goes("sealing", "keyed")
  /\ record' = "whole"
  /\ UNCHANGED <<database, sides, export, deaths>>

-----------------------------------------------------------------------------
(* prepare *)

\* By what is at the path: nothing, a plaintext header, or anything else, which must open with
\* the key and have a schema.
Choose ==
  /\ Goes("keyed",
       CASE database = Absent         -> IF NeedsKey THEN "refused" ELSE "creating"
         [] database.kind = "plain"   -> "plain"
         [] OTHER -> IF StagingLies \/ database.kind = "new" THEN "refused" ELSE "opening")
  /\ UNCHANGED <<database, sides, export, record, deaths>>

\* Mutant of Checkpoint: the log is removed, not folded.
CheckpointUnlinking ==
  /\ Goes("plain", "checkpointed")
  /\ log' = 0 /\ journal' \in {"none", "cold"}
  /\ UNCHANGED <<database, export, record, deaths>>

\* The original is opened, which undoes what was not finished, its log folded into it, and its
\* journal mode set to DELETE.
Checkpoint ==
  /\ Goes("plain", "checkpointed")
  /\ database' = [database EXCEPT !.rows = @ + log]
  /\ log' = 0 /\ journal' \in {"none", "cold"}
  /\ UNCHANGED <<export, record, deaths>>

\* retireColdJournal and requireNoSidecars
RetireColdJournal ==
  /\ place = "checkpointed"
  /\ journal' = IF journal = "cold" THEN "none" ELSE journal
  /\ place' = IF log > 0 \/ journal = "hot" THEN "refused" ELSE "retired"
  /\ UNCHANGED <<database, log, export, record, deaths>>

\* What an earlier attempt exported is of no use: file and journal go, one by one.
DiscardStaging ==
  /\ Goes("retired", "discarded")
  /\ staging' = Absent
  /\ UNCHANGED <<database, sides, leftover, record, deaths>>

DiscardLeftover ==
  /\ Goes("discarded", "clean")
  /\ leftover' = "none"
  /\ UNCHANGED <<database, sides, staging, record, deaths>>

OpenStaging ==
  /\ Goes("clean", "opened")
  /\ staging' = New
  /\ UNCHANGED <<database, sides, leftover, record, deaths>>

\* The export is one transaction.
BeginExport ==
  /\ Goes("opened", "exporting")
  /\ leftover' = "hot"
  /\ UNCHANGED <<database, sides, staging, record, deaths>>

CommitExport ==
  /\ Goes("exporting", "exported")
  /\ staging' = Sealed(database.rows) /\ leftover' \in {"none", "cold"}
  /\ UNCHANGED <<database, sides, record, deaths>>

\* The export, opened again, and then the source are compared with what was counted first.
VerifyStaging ==
  /\ Goes("exported", IF leftover # "hot" /\ staging = Sealed(database.rows) THEN "verified"
                      ELSE "refused")
  /\ UNCHANGED <<database, sides, export, record, deaths>>

VerifySource ==
  /\ Goes("verified", IF log = 0 /\ journal # "hot" THEN "checked" ELSE "refused")
  /\ UNCHANGED <<database, sides, export, record, deaths>>

\* Os.rename: the export takes the original's place; its journal keeps its own name.
Replace ==
  /\ Goes("checked", "opening")
  /\ database' = staging /\ staging' = Absent
  /\ UNCHANGED <<sides, leftover, record, deaths>>

-----------------------------------------------------------------------------
(* Room *)

CreateDatabase ==
  /\ Goes("creating", "filling")
  /\ database' = New
  /\ UNCHANGED <<sides, export, record, deaths>>

CreateSchema ==
  /\ Goes("filling", "opening")
  /\ database' = Sealed(0)
  /\ UNCHANGED <<sides, export, record, deaths>>

OpenRoom ==
  /\ Goes("opening", "serving")
  /\ UNCHANGED <<database, sides, export, record, deaths>>

\* A transaction of the program; Room's own log is part of the database here.
Save ==
  /\ place = "serving" /\ database.rows < MaxStored
  /\ database' = Sealed(database.rows + 1)
  /\ UNCHANGED <<sides, export, record, place, deaths>>

-----------------------------------------------------------------------------

\* The process is killed while it prepares.
Die ==
  /\ place \in Preparing /\ deaths < MaxDeaths
  /\ deaths' = deaths + 1 /\ place' = "down"
  /\ UNCHANGED <<database, sides, export, record>>

\* It ends, served or refused, and is started again.
EndProcess ==
  /\ place \in {"serving", "refused"} /\ place' = "down"
  /\ UNCHANGED <<database, sides, export, record, deaths>>

Prepare ==
  \/ FindKey \/ WriteRecord \/ PlaceRecord \/ Choose
  \/ Checkpoint \/ RetireColdJournal \/ DiscardStaging \/ DiscardLeftover
  \/ OpenStaging \/ BeginExport \/ CommitExport \/ VerifyStaging \/ VerifySource \/ Replace
  \/ CreateDatabase \/ CreateSchema \/ OpenRoom

PhoneNext == Prepare \/ Save \/ Die \/ EndProcess

PhoneSpec == PhoneInit /\ [][PhoneNext]_phoneVars

-----------------------------------------------------------------------------
(* Properties. *)

PhoneTypeOK ==
  /\ database \in [kind : {"missing", "new", "plain", "cipher"}, rows : 0..MaxStored]
  /\ staging \in [kind : {"missing", "new", "cipher"}, rows : 0..MaxStored]
  /\ log \in 0..1 /\ {journal, leftover} \subseteq Journals
  /\ record \in {"none", "pending", "whole"}
  /\ place \in {"down", "refused", "serving"} \union Preparing
  /\ deaths \in 0..MaxDeaths

\* What stands in the way when the phone refuses to start.
Interrupted == record = "pending"
NoSchema    == database.kind = "new"
StaleExport == database.kind = "cipher" /\ StagingLies

\* Every remnant of a death is recovered from, save a key half written, a new database
\* without its schema, and a journal that the export left beside the encrypted database; in
\* particular a key is always there for whatever is encrypted (prepare, getOrCreate).
PhoneRefusesOnlyIfBlocked == place = "refused" => Interrupted \/ NoSchema \/ StaleExport

\* The upgrade this implements: the database is what lies at its path, its log included.
PhoneForm    == IF database.kind \in {"missing", "new"} THEN "none" ELSE database.kind
PhoneContent == database.rows + log
PhoneUpgrade == INSTANCE DatabaseUpgrade
  WITH form <- PhoneForm, content <- PhoneContent, open <- place = "serving"

\* No death loses a committed transaction, the program serves the database encrypted only,
\* and what it then serves is what the original held (migrate).
PhoneImplementsUpgrade == PhoneUpgrade!Spec
=============================================================================
