------------------------- MODULE DatabaseMigration -------------------------
(***************************************************************************)
(* The desktop's database on disk, from the start of the program to the    *)
(* moment it serves the database: encrypted.rs and database_key.rs.        *)
(*                                                                         *)
(* Four files matter: the database (main), the encrypted candidate         *)
(* (staged, ".encrypting"), the plaintext original once it has been moved  *)
(* aside (backup, ".plaintext-migration") and the key.  Each action is one *)
(* operation that changes a file, or one check that decides what happens   *)
(* to them; a crash may fall between any two, and stands as well for an    *)
(* operation that returns an error and leaves its file as it was.  An      *)
(* older version of the program, which knows nothing of the migration or   *)
(* of its lock file, may commit to the plaintext database at any moment at *)
(* which SQLite lets it.                                                   *)
(*                                                                         *)
(* A file's data is the number of transactions committed to it.  Two       *)
(* things depend on the platform: Windows moves a file in one step and     *)
(* writes the key file in two; macOS has no move that refuses to replace,  *)
(* so it links and then unlinks, and stores the key in one step.           *)
(***************************************************************************)
EXTENDS Naturals

CONSTANTS MaxCommits,   \* bound: no commit beyond this number
          MaxCrashes    \* bound: the program is stopped this many times

\* Two commits may already be there: one in the file, one in its log.
ASSUME BoundsAssumption == MaxCommits \in Nat /\ MaxCommits >= 2 /\ MaxCrashes \in Nat

VARIABLES
    main, staged, backup,   \* the three database files
    key,                    \* the protected key: none, partial or whole
    wal,                    \* main's write-ahead log holds one more commit
    pc,                     \* where the program is
    platform,
    crashes

files == <<main, staged, backup>>
vars == <<main, staged, backup, key, wal, pc, platform, crashes>>

Kinds == {"missing", "reserved", "plain", "cipher"}
File == [kind : Kinds, data : Nat]
Missing == [kind |-> "missing", data |-> 0]
\* A file that exists and has no header yet.
Reserved == [kind |-> "reserved", data |-> 0]
Plain(n) == [kind |-> "plain", data |-> n]
Cipher(n) == [kind |-> "cipher", data |-> n]

Steps == {"key", "seal", "prepare", "fill", "lock", "reserve", "export",
          "verify", "closed", "aside", "unlink", "moved", "publish",
          "unstage", "cleanup", "discard", "ready"}
Locations == Steps \cup {"down", "refused", "serving"}

\* Between the BEGIN EXCLUSIVE on the original and the close of that
\* connection nobody else writes to it.
Locked == pc \in {"reserve", "export", "verify"}

\* What a reader of the original finds: the file and its write-ahead log.
Latest(f) == f.data + (IF wal THEN 1 ELSE 0)

Init ==
    /\ \/ main = Missing /\ wal = FALSE
       \/ main = Plain(1) /\ wal \in BOOLEAN
    /\ staged = Missing /\ backup = Missing
    /\ key = "none"
    /\ pc = "down"
    /\ platform \in {"windows", "macos"}
    /\ crashes = 0

At(here) == pc = here
Go(there) == pc' = there

-----------------------------------------------------------------------------
(***************************************************************************)
(* The start: what is there, and whether it may be touched.                *)
(***************************************************************************)

NoRecoveryFiles == staged = Missing /\ backup = Missing

\* A new key is made only where nothing encrypted can exist yet.
AllowCreate == main.kind # "cipher" /\ NoRecoveryFiles

\* Mutant of MayStart: a missing database with a key is refused even when the
\* files of an interrupted migration are there to be completed.
MayStartWithMain ==
    /\ main # Reserved
    /\ main = Missing => key = "none" /\ ~wal
    /\ \/ key = "whole"
       \/ key = "none" /\ AllowCreate

MayStart ==
    /\ main # Reserved
    /\ main = Missing => /\ key # "none" => ~NoRecoveryFiles
                         /\ ~wal
    /\ \/ key = "whole"
       \/ key = "none" /\ AllowCreate

Start ==
    /\ At("down")
    /\ MayStart
    /\ Go(IF key = "whole" THEN "prepare" ELSE "key")
    /\ UNCHANGED <<files, key, wal, platform, crashes>>

StartRefused ==
    /\ At("down")
    /\ ~MayStart
    /\ Go("refused")
    /\ UNCHANGED <<files, key, wal, platform, crashes>>

\* Mutant of CreateKey: the database is prepared before the key file is whole.
CreateKeyUnsealed ==
    /\ At("key")
    /\ key' = IF platform = "windows" THEN "partial" ELSE "whole"
    /\ Go("prepare")
    /\ UNCHANGED <<files, wal, platform, crashes>>

CreateKey ==
    /\ At("key")
    /\ IF platform = "windows"
       THEN key' = "partial" /\ Go("seal")
       ELSE key' = "whole" /\ Go("prepare")
    /\ UNCHANGED <<files, wal, platform, crashes>>

\* The second half of writing the key file on Windows.
SealKey ==
    /\ At("seal")
    /\ key' = "whole"
    /\ Go("prepare")
    /\ UNCHANGED <<files, wal, platform, crashes>>

-----------------------------------------------------------------------------
(***************************************************************************)
(* prepare: one branch for each kind of the file at the database's path.   *)
(***************************************************************************)

PrepareNew ==
    /\ At("prepare")
    /\ main = Missing /\ NoRecoveryFiles
    /\ main' = Reserved
    /\ Go("fill")
    /\ UNCHANGED <<staged, backup, key, wal, platform, crashes>>

FillNew ==
    /\ At("fill")
    /\ main' = Cipher(0)
    /\ Go("ready")
    /\ UNCHANGED <<staged, backup, key, wal, platform, crashes>>

PreparePlaintext ==
    /\ At("prepare")
    /\ main.kind = "plain"
    /\ Go(IF backup = Missing THEN "lock" ELSE "refused")
    /\ UNCHANGED <<files, key, wal, platform, crashes>>

\* Mutant of LockSource: the log is folded and left where it was.
LockSourceKeepingLog ==
    /\ At("lock")
    /\ main' = Plain(Latest(main))
    /\ Go(IF staged = Missing THEN "reserve" ELSE "verify")
    /\ UNCHANGED <<staged, backup, key, wal, platform, crashes>>

\* The log is folded into the file, which is then locked and fingerprinted.
\* A candidate that is already there is not written again.
LockSource ==
    /\ At("lock")
    /\ main' = Plain(Latest(main))
    /\ wal' = FALSE
    /\ Go(IF staged = Missing THEN "reserve" ELSE "verify")
    /\ UNCHANGED <<staged, backup, key, platform, crashes>>

Reserve ==
    /\ At("reserve")
    /\ staged' = Reserved
    /\ Go("export")
    /\ UNCHANGED <<main, backup, key, wal, platform, crashes>>

Export ==
    /\ At("export")
    /\ staged' = Cipher(main.data)
    /\ Go("verify")
    /\ UNCHANGED <<main, backup, key, wal, platform, crashes>>

\* connection and validate: a file opens with the key, and no page of it is damaged, once it
\* is whole and encrypted.
Opens(f) == f.kind = "cipher"

\* What a database holds, whatever its form and the layout of its pages: schema and rows are
\* hashed, so that equal fingerprints are equal contents.
Fingerprint(f) == f.data

\* verify_export
Verified(candidate, f) == Opens(candidate) /\ Fingerprint(candidate) = Fingerprint(f)

\* Mutant of VerifyExport: a mismatch is tried again instead of reported.
VerifyExportAgain ==
    /\ At("verify")
    /\ Go(IF Verified(staged, main) THEN "closed" ELSE "lock")
    /\ UNCHANGED <<files, key, wal, platform, crashes>>

VerifyExport ==
    /\ At("verify")
    /\ Go(IF Verified(staged, main) THEN "closed" ELSE "refused")
    /\ UNCHANGED <<files, key, wal, platform, crashes>>

\* The lock is gone: a log written since then stops the move.
CheckSidecars ==
    /\ At("closed")
    /\ Go(IF wal THEN "refused" ELSE "aside")
    /\ UNCHANGED <<files, key, wal, platform, crashes>>

MoveAside ==
    /\ At("aside")
    /\ backup' = main
    /\ IF platform = "windows"
       THEN main' = Missing /\ Go("moved")
       ELSE UNCHANGED main /\ Go("unlink")
    /\ UNCHANGED <<staged, key, wal, platform, crashes>>

Unlink ==
    /\ At("unlink")
    /\ main' = Missing
    /\ Go("moved")
    /\ UNCHANGED <<staged, backup, key, wal, platform, crashes>>

PrepareResume ==
    /\ At("prepare")
    /\ main = Missing /\ ~NoRecoveryFiles
    /\ Go(IF backup.kind = "plain" /\ staged # Missing THEN "moved" ELSE "refused")
    /\ UNCHANGED <<files, key, wal, platform, crashes>>

\* Mutant of CheckInstall: the candidate was verified once, so it is published.
CheckInstallOnce ==
    /\ At("moved")
    /\ Go(IF ~wal THEN "publish" ELSE "refused")
    /\ UNCHANGED <<files, key, wal, platform, crashes>>

\* install checks the candidate once more, against the original that was
\* moved: an older writer may have committed before the move.
CheckInstall ==
    /\ At("moved")
    /\ Go(IF ~wal /\ Verified(staged, backup) THEN "publish" ELSE "refused")
    /\ UNCHANGED <<files, key, wal, platform, crashes>>

Publish ==
    /\ At("publish")
    /\ main' = staged
    /\ IF platform = "windows"
       THEN staged' = Missing /\ Go("cleanup")
       ELSE UNCHANGED staged /\ Go("unstage")
    /\ UNCHANGED <<backup, key, wal, platform, crashes>>

Unstage ==
    /\ At("unstage")
    /\ staged' = Missing
    /\ Go("cleanup")
    /\ UNCHANGED <<main, backup, key, wal, platform, crashes>>

\* Mutant of PrepareEncrypted: an encrypted database is taken as it is.
PrepareEncryptedAsIs ==
    /\ At("prepare")
    /\ main.kind = "cipher"
    /\ Go(IF staged = Missing THEN "ready" ELSE "refused")
    /\ UNCHANGED <<files, key, wal, platform, crashes>>

PrepareEncrypted ==
    /\ At("prepare")
    /\ Opens(main)
    /\ Go(CASE staged # Missing -> "refused"
            [] staged = Missing /\ backup # Missing -> "cleanup"
            [] OTHER -> "ready")
    /\ UNCHANGED <<files, key, wal, platform, crashes>>

CheckCleanup ==
    /\ At("cleanup")
    /\ Go(IF ~wal /\ Verified(main, backup) THEN "discard" ELSE "refused")
    /\ UNCHANGED <<files, key, wal, platform, crashes>>

Discard ==
    /\ At("discard")
    /\ backup' = Missing
    /\ Go("ready")
    /\ UNCHANGED <<main, staged, key, wal, platform, crashes>>

Serve ==
    /\ At("ready")
    /\ Go("serving")
    /\ UNCHANGED <<files, key, wal, platform, crashes>>

-----------------------------------------------------------------------------
(***************************************************************************)
(* The rest of the world.                                                  *)
(***************************************************************************)

\* The program commits to the database it serves.
Store ==
    /\ At("serving")
    /\ main.data < MaxCommits
    /\ main' = Cipher(main.data + 1)
    /\ UNCHANGED <<staged, backup, key, wal, pc, platform, crashes>>

\* An older version opens the plaintext database, which folds the log, and
\* commits: into the file if it closes the database, into a new log if it is
\* killed.  While the file has two names, both show what it holds.
LegacyCommit(left) ==
    /\ main.kind = "plain"
    /\ ~Locked
    /\ Latest(main) < MaxCommits
    /\ main' = Plain(IF left THEN Latest(main) ELSE Latest(main) + 1)
    /\ backup' = IF backup.kind = "plain" THEN main' ELSE backup
    /\ wal' = left
    /\ UNCHANGED <<staged, key, pc, platform, crashes>>

Crash ==
    /\ pc \notin {"down", "refused"}
    /\ crashes < MaxCrashes
    /\ crashes' = crashes + 1
    /\ Go("down")
    /\ UNCHANGED <<files, key, wal, platform>>

\* After a refusal the user starts the program again.
Relaunch ==
    /\ At("refused")
    /\ Go("down")
    /\ UNCHANGED <<files, key, wal, platform, crashes>>

Program ==
    \/ Start \/ StartRefused \/ CreateKey \/ SealKey
    \/ PrepareNew \/ FillNew \/ PreparePlaintext \/ LockSource
    \/ Reserve \/ Export \/ VerifyExport \/ CheckSidecars \/ MoveAside \/ Unlink
    \/ PrepareResume \/ CheckInstall \/ Publish \/ Unstage
    \/ PrepareEncrypted \/ CheckCleanup \/ Discard \/ Serve

Next ==
    \/ Program
    \/ Store
    \/ \E left \in BOOLEAN : LegacyCommit(left)
    \/ Crash
    \/ Relaunch

Spec == Init /\ [][Next]_vars

\* The program runs on when nothing stops it, and is started again.
FairSpec == Spec /\ WF_vars(Program) /\ WF_vars(Relaunch)

-----------------------------------------------------------------------------
(***************************************************************************)
(* Properties.                                                             *)
(***************************************************************************)

\* The type invariant.  No file ever counts a transaction twice: folding a
\* write-ahead log into the database (encrypted.rs, legacy_locked) consumes it.
TypeOK ==
    /\ main \in File /\ staged \in File /\ backup \in File
    /\ Latest(main) <= MaxCommits /\ staged.data <= MaxCommits
    /\ backup.data <= MaxCommits
    /\ key \in {"none", "partial", "whole"}
    /\ wal \in BOOLEAN
    /\ pc \in Locations
    /\ platform \in {"windows", "macos"}
    /\ crashes \in 0..MaxCrashes

\* Nothing is ever encrypted under a key that a crash could still lose: while an
\* encrypted file exists, the key is whole (database_key.rs flushes and rereads
\* it before load_or_create returns).
KeyBeforeCipher ==
    (main.kind = "cipher" \/ staged.kind = "cipher") => key = "whole"

\* When the program serves the database, it is the encrypted one and the
\* plaintext is gone, whichever crash the cleanup was left to by a former run.
ServingIsClean ==
    At("serving") => main.kind = "cipher" /\ staged = Missing /\ backup = Missing

\* What an owner who finds the program refusing to start can see on the disk.
ReservedFile == main = Reserved \/ staged = Reserved
KeyAlone == main = Missing /\ key # "none" /\ NoRecoveryFiles
OrphanLog == main = Missing /\ wal
StaleCandidate ==
    \/ main.kind = "plain" /\ staged.kind = "cipher" /\ staged.data # Latest(main)
    \/ main = Missing /\ backup.kind = "plain" /\ staged # Cipher(backup.data)
TwoNames ==
    \/ main.kind = "plain" /\ backup.kind = "plain"
    \/ main.kind = "cipher" /\ staged.kind = "cipher"
Blocked ==
    \/ key = "partial"
    \/ ReservedFile \/ KeyAlone \/ OrphanLog \/ StaleCandidate \/ TwoNames

\* The program refuses to start only over files its owner can be shown: every
\* other remnant of a crash, and every commit of an older version that no
\* candidate predates, is recovered from (encrypted.rs, initialize_impl, prepare).
RefusedOnlyIfBlocked == At("refused") => Blocked

-----------------------------------------------------------------------------
(***************************************************************************)
(* The upgrade this implements.  The database is the encrypted file once   *)
(* it is at its path; before that it is the original, wherever it is, with *)
(* its write-ahead log.                                                    *)
(***************************************************************************)

OriginalAside == main = Missing /\ backup.kind = "plain"

Form ==
    IF main.kind = "cipher" THEN "cipher"
    ELSE IF main.kind = "plain" \/ OriginalAside THEN "plain"
    ELSE "none"

Content ==
    IF main.kind = "cipher" THEN main.data
    ELSE IF main.kind = "plain" THEN Latest(main)
    ELSE IF OriginalAside THEN Latest(backup)
    ELSE 0

Upgrade == INSTANCE DatabaseUpgrade
    WITH form <- Form, content <- Content, open <- At("serving")

\* Whatever the crashes and whatever an older version commits meanwhile, no
\* committed transaction is lost, and the encrypted database takes the place of
\* the plaintext one with exactly its content (encrypted.rs, install).
ImplementsUpgrade == Upgrade!Spec

\* Every start ends: the database is served, or the refusal rests on the disk.
\* No remnant of a crash makes the program wait or retry for ever.
StartEnds == At("down") ~> (At("serving") \/ (At("refused") /\ Blocked))
=============================================================================
