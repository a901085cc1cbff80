---------------------------- MODULE DatabaseProofs ----------------------------
(***************************************************************************)
(* The two implementations of DatabaseUpgrade, for any number of commits   *)
(* and crashes.  Both go the same way: what can lie on the disk, whoever   *)
(* reads it next (OnDisk, Lying), and what the program knows of it at each *)
(* of its steps (Reached, Known), are inductive together; the second makes *)
(* the move of the encrypted file safe, and so the refinement.             *)
(***************************************************************************)
EXTENDS DatabaseMigration, PhoneDatabase, TLAPS

-----------------------------------------------------------------------------
(* The desktop (encrypted.rs). *)

Canonical(f) ==
    /\ f.kind = "missing" => f = Missing
    /\ f.kind = "reserved" => f = Reserved

OnDisk ==
    /\ Canonical(main) /\ Canonical(staged) /\ Canonical(backup)
    /\ staged.kind # "plain"
    /\ backup.kind \in {"missing", "plain"}
    /\ wal => main.kind = "plain" \/ OriginalAside
    /\ main = Reserved => NoRecoveryFiles
    /\ main = Missing /\ backup = Missing => staged = Missing
    /\ staged = Reserved => main.kind = "plain" /\ backup = Missing
    /\ main.kind = "plain" /\ backup.kind = "plain"
          => main = backup /\ staged.kind = "cipher"
    /\ OriginalAside => staged.kind = "cipher"
    /\ main.kind = "plain" /\ staged.kind = "cipher" => staged.data <= main.data
    /\ main.kind = "cipher" /\ backup.kind = "plain" => main.data = backup.data
    /\ main.kind = "cipher" /\ staged # Missing => backup.kind = "plain"

Sourced == main.kind = "plain" /\ backup = Missing

Reached ==
    /\ pc = "key" => key = "none"
    /\ pc = "seal" => key = "partial"
    /\ pc \notin {"down", "refused", "key", "seal"} => key = "whole"
    /\ pc \in {"key", "seal"} => AllowCreate
    /\ pc \in {"key", "seal", "prepare"} => main # Reserved /\ (main = Missing => ~wal)
    /\ pc = "fill" => main = Reserved
    /\ pc \in {"lock", "reserve", "export", "verify", "closed", "aside"} => Sourced
    /\ pc \in {"reserve", "export", "verify"} => ~wal
    /\ pc = "reserve" => staged = Missing
    /\ pc = "export" => staged = Reserved
    /\ pc = "verify" => staged # Missing
    /\ pc \in {"closed", "aside", "unlink"} => staged.kind = "cipher"
    /\ pc = "unlink" => main.kind = "plain" /\ backup.kind = "plain"
    /\ pc \in {"moved", "publish"} => OriginalAside
    /\ pc = "publish" => staged = Cipher(backup.data) /\ ~wal
    /\ pc \in {"unstage", "cleanup", "discard"} => main.kind = "cipher"
    /\ pc \in {"unstage", "cleanup", "discard"} => backup.kind = "plain"
    /\ pc \in {"cleanup", "discard"} => staged = Missing
    /\ pc \in {"ready", "serving"} => main.kind = "cipher" /\ NoRecoveryFiles
    /\ pc = "refused" => Blocked

Inv == TypeOK /\ KeyBeforeCipher /\ OnDisk /\ Reached

-----------------------------------------------------------------------------
(* The invariant. *)

USE BoundsAssumption DEF Kinds, File, Missing, Reserved, Plain, Cipher, Steps, Locations, Latest,
    At, Go, files, NoRecoveryFiles, OriginalAside, Canonical

\* The first start of the program finds an original, or nothing.
LEMMA InitInv == Init => Inv
<1> SUFFICES ASSUME Init PROVE Inv
  OBVIOUS
<1>1. main = Missing \/ main = Plain(1)
  BY DEF Init
<1>2. wal \in BOOLEAN /\ (wal => main = Plain(1))
  BY DEF Init
<1>3. TypeOK
  BY <1>1, <1>2 DEF Init, TypeOK
<1>4. KeyBeforeCipher /\ OnDisk
  BY <1>1, <1>2 DEF Init, KeyBeforeCipher, OnDisk
<1>5. Reached
  BY DEF Init, Reached
<1>6. QED
  BY <1>3, <1>4, <1>5 DEF Inv

\* A step that only decides what to do next leaves the disk as it was.
LEMMA DiskKept ==
  ASSUME Inv, UNCHANGED <<main, staged, backup, key, wal, platform>>,
         pc' \in Locations, crashes' \in 0..MaxCrashes
  PROVE  TypeOK' /\ KeyBeforeCipher' /\ OnDisk'
BY DEF Inv, TypeOK, KeyBeforeCipher, OnDisk

\* The checks and decisions of the program: what it then knows is what it found.
LEMMA Decisions ==
  ASSUME Inv,
         \/ Start \/ StartRefused \/ PreparePlaintext \/ VerifyExport \/ CheckSidecars \/ PrepareResume
         \/ CheckInstall \/ PrepareEncrypted \/ CheckCleanup \/ Serve \/ Crash \/ Relaunch
  PROVE  Inv'
<1>1. TypeOK' /\ KeyBeforeCipher' /\ OnDisk'
  <2>1. UNCHANGED <<main, staged, backup, key, wal, platform>>
    BY DEF Start, StartRefused, PreparePlaintext, VerifyExport, CheckSidecars, PrepareResume,
           CheckInstall, PrepareEncrypted, CheckCleanup, Serve, Crash, Relaunch
  <2>2. pc' \in Locations
    BY DEF Start, StartRefused, PreparePlaintext, VerifyExport, CheckSidecars, PrepareResume,
           CheckInstall, PrepareEncrypted, CheckCleanup, Serve, Crash, Relaunch
  <2>3. crashes' \in 0..MaxCrashes
    BY DEF Inv, TypeOK, Start, StartRefused, PreparePlaintext, VerifyExport, CheckSidecars,
           PrepareResume, CheckInstall, PrepareEncrypted, CheckCleanup, Serve, Crash, Relaunch
  <2>4. QED
    BY <2>1, <2>2, <2>3, DiskKept
<1> USE DEF Inv, TypeOK, KeyBeforeCipher, OnDisk, Reached
<1>2. CASE Start
  BY <1>1, <1>2 DEF Start, MayStart, AllowCreate
<1>3. CASE StartRefused
  BY <1>1, <1>3 DEF StartRefused, MayStart, AllowCreate, Blocked, ReservedFile, KeyAlone, OrphanLog, StaleCandidate, TwoNames
<1>4. CASE PreparePlaintext
  BY <1>1, <1>4 DEF PreparePlaintext, Blocked, ReservedFile, KeyAlone, OrphanLog, StaleCandidate, TwoNames, Sourced
<1>5. CASE VerifyExport
  BY <1>1, <1>5 DEF VerifyExport, Verified, Opens, Fingerprint, Sourced, Blocked, ReservedFile, KeyAlone, OrphanLog, StaleCandidate, TwoNames
<1>6. CASE CheckSidecars
  BY <1>1, <1>6 DEF CheckSidecars, Sourced, Blocked, ReservedFile, KeyAlone, OrphanLog, StaleCandidate, TwoNames
<1>7. CASE PrepareResume
  BY <1>1, <1>7 DEF PrepareResume
<1>8. CASE CheckInstall
  BY <1>1, <1>8 DEF CheckInstall, Verified, Opens, Fingerprint, Blocked, ReservedFile, KeyAlone, OrphanLog, StaleCandidate, TwoNames
<1>9. CASE PrepareEncrypted
  BY <1>1, <1>9 DEF PrepareEncrypted, Opens, Blocked, ReservedFile, KeyAlone, OrphanLog, StaleCandidate, TwoNames
<1>10. CASE CheckCleanup
  BY <1>1, <1>10 DEF CheckCleanup, Verified, Opens, Fingerprint
<1>11. CASE Serve
  BY <1>1, <1>11 DEF Serve
<1>12. CASE Crash
  BY <1>1, <1>12 DEF Crash
<1>13. CASE Relaunch
  BY <1>1, <1>13 DEF Relaunch
<1>14. QED
  BY <1>2, <1>3, <1>4, <1>5, <1>6, <1>7, <1>8, <1>9, <1>10, <1>11, <1>12, <1>13

\* Every step of the program, of an older version and of the user keeps it.
LEMMA NextInv == Inv /\ [Next]_vars => Inv'
<1> SUFFICES ASSUME Inv, [Next]_vars PROVE Inv'
  OBVIOUS
<1> USE DEF Inv, Sourced
<1>1. CASE CreateKey
  <2>1. TypeOK'
    BY <1>1 DEF CreateKey, TypeOK, OnDisk, Reached
  <2>2. KeyBeforeCipher'
    BY <1>1 DEF CreateKey, TypeOK, KeyBeforeCipher, Reached
  <2>3. OnDisk'
    BY <1>1 DEF CreateKey, TypeOK, OnDisk, Reached
  <2>4. Reached'
    BY <1>1 DEF CreateKey, TypeOK, OnDisk, Reached, AllowCreate
  <2>5. QED
    BY <2>1, <2>2, <2>3, <2>4
<1>2. CASE SealKey
  <2>1. TypeOK'
    BY <1>2 DEF SealKey, TypeOK, OnDisk, Reached
  <2>2. KeyBeforeCipher'
    BY <1>2 DEF SealKey, TypeOK, KeyBeforeCipher, Reached
  <2>3. OnDisk'
    BY <1>2 DEF SealKey, TypeOK, OnDisk, Reached
  <2>4. Reached'
    BY <1>2 DEF SealKey, TypeOK, OnDisk, Reached, AllowCreate
  <2>5. QED
    BY <2>1, <2>2, <2>3, <2>4
<1>3. CASE PrepareNew
  <2>1. TypeOK'
    BY <1>3 DEF PrepareNew, TypeOK, OnDisk, Reached
  <2>2. KeyBeforeCipher'
    BY <1>3 DEF PrepareNew, TypeOK, KeyBeforeCipher, Reached
  <2>3. OnDisk'
    BY <1>3 DEF PrepareNew, TypeOK, OnDisk, Reached
  <2>4. Reached'
    BY <1>3 DEF PrepareNew, TypeOK, OnDisk, Reached
  <2>5. QED
    BY <2>1, <2>2, <2>3, <2>4
<1>4. CASE FillNew
  <2>1. TypeOK'
    BY <1>4 DEF FillNew, TypeOK, OnDisk, Reached
  <2>2. KeyBeforeCipher'
    BY <1>4 DEF FillNew, TypeOK, KeyBeforeCipher, Reached
  <2>3. OnDisk'
    BY <1>4 DEF FillNew, TypeOK, OnDisk, Reached
  <2>4. Reached'
    BY <1>4 DEF FillNew, TypeOK, OnDisk, Reached
  <2>5. QED
    BY <2>1, <2>2, <2>3, <2>4
<1>5. CASE LockSource
  <2>1. TypeOK'
    <3>1. Latest(main) \in Nat /\ Latest(main) <= MaxCommits /\ wal' = FALSE
      BY <1>5 DEF LockSource, TypeOK
    <3>2. Latest(main)' = Latest(main) /\ main' \in File
      BY <1>5, <3>1 DEF LockSource
    <3>3. QED
      BY <1>5, <3>1, <3>2 DEF LockSource, TypeOK
  <2>2. KeyBeforeCipher'
    BY <1>5 DEF LockSource, TypeOK, KeyBeforeCipher, Reached
  <2>3. OnDisk'
    BY <1>5 DEF LockSource, TypeOK, OnDisk, Reached
  <2>4. Reached'
    BY <1>5 DEF LockSource, TypeOK, OnDisk, Reached
  <2>5. QED
    BY <2>1, <2>2, <2>3, <2>4
<1>6. CASE Reserve
  <2>1. TypeOK'
    BY <1>6 DEF Reserve, TypeOK, OnDisk, Reached
  <2>2. KeyBeforeCipher'
    BY <1>6 DEF Reserve, TypeOK, KeyBeforeCipher, Reached
  <2>3. OnDisk'
    BY <1>6 DEF Reserve, TypeOK, OnDisk, Reached
  <2>4. Reached'
    BY <1>6 DEF Reserve, TypeOK, OnDisk, Reached
  <2>5. QED
    BY <2>1, <2>2, <2>3, <2>4
<1>7. CASE Export
  <2>1. TypeOK'
    BY <1>7 DEF Export, TypeOK, OnDisk, Reached
  <2>2. KeyBeforeCipher'
    BY <1>7 DEF Export, TypeOK, KeyBeforeCipher, Reached
  <2>3. OnDisk'
    BY <1>7 DEF Export, TypeOK, OnDisk, Reached
  <2>4. Reached'
    BY <1>7 DEF Export, TypeOK, OnDisk, Reached
  <2>5. QED
    BY <2>1, <2>2, <2>3, <2>4
<1>8. CASE MoveAside
  <2>1. TypeOK'
    BY <1>8 DEF MoveAside, TypeOK, OnDisk, Reached
  <2>2. KeyBeforeCipher'
    BY <1>8 DEF MoveAside, TypeOK, KeyBeforeCipher, Reached
  <2>3. OnDisk'
    BY <1>8 DEF MoveAside, TypeOK, OnDisk, Reached
  <2>4. Reached'
    BY <1>8 DEF MoveAside, TypeOK, OnDisk, Reached
  <2>5. QED
    BY <2>1, <2>2, <2>3, <2>4
<1>9. CASE Unlink
  <2>1. TypeOK'
    BY <1>9 DEF Unlink, TypeOK, OnDisk, Reached
  <2>2. KeyBeforeCipher'
    BY <1>9 DEF Unlink, TypeOK, KeyBeforeCipher, Reached
  <2>3. OnDisk'
    BY <1>9 DEF Unlink, TypeOK, OnDisk, Reached
  <2>4. Reached'
    BY <1>9 DEF Unlink, TypeOK, OnDisk, Reached
  <2>5. QED
    BY <2>1, <2>2, <2>3, <2>4
<1>10. CASE Publish
  <2>1. TypeOK'
    BY <1>10 DEF Publish, TypeOK, OnDisk, Reached
  <2>2. KeyBeforeCipher'
    BY <1>10 DEF Publish, TypeOK, KeyBeforeCipher, Reached
  <2>3. OnDisk'
    BY <1>10 DEF Publish, TypeOK, OnDisk, Reached
  <2>4. Reached'
    BY <1>10 DEF Publish, TypeOK, OnDisk, Reached
  <2>5. QED
    BY <2>1, <2>2, <2>3, <2>4
<1>11. CASE Unstage
  <2>1. TypeOK'
    BY <1>11 DEF Unstage, TypeOK, OnDisk, Reached
  <2>2. KeyBeforeCipher'
    BY <1>11 DEF Unstage, TypeOK, KeyBeforeCipher, Reached
  <2>3. OnDisk'
    BY <1>11 DEF Unstage, TypeOK, OnDisk, Reached
  <2>4. Reached'
    BY <1>11 DEF Unstage, TypeOK, OnDisk, Reached
  <2>5. QED
    BY <2>1, <2>2, <2>3, <2>4
<1>12. CASE Discard
  <2>1. TypeOK'
    BY <1>12 DEF Discard, TypeOK, OnDisk, Reached
  <2>2. KeyBeforeCipher'
    BY <1>12 DEF Discard, TypeOK, KeyBeforeCipher, Reached
  <2>3. OnDisk'
    BY <1>12 DEF Discard, TypeOK, OnDisk, Reached
  <2>4. Reached'
    BY <1>12 DEF Discard, TypeOK, OnDisk, Reached
  <2>5. QED
    BY <2>1, <2>2, <2>3, <2>4
<1>13. CASE Store
  <2>1. TypeOK'
    BY <1>13 DEF Store, TypeOK, OnDisk, Reached
  <2>2. KeyBeforeCipher'
    BY <1>13 DEF Store, TypeOK, KeyBeforeCipher, Reached
  <2>3. OnDisk'
    BY <1>13 DEF Store, TypeOK, OnDisk, Reached
  <2>4. Reached'
    BY <1>13 DEF Store, TypeOK, OnDisk, Reached
  <2>5. QED
    BY <2>1, <2>2, <2>3, <2>4
<1>14. ASSUME NEW left \in BOOLEAN, LegacyCommit(left) PROVE Inv'
  <2>1. TypeOK'
    BY <1>14 DEF LegacyCommit, TypeOK, OnDisk
  <2>2. KeyBeforeCipher'
    BY <1>14 DEF LegacyCommit, TypeOK, KeyBeforeCipher
  <2>3. OnDisk'
    BY <1>14 DEF LegacyCommit, TypeOK, OnDisk
  <2>4. pc = "refused" => Blocked'
    BY <1>14 DEF LegacyCommit, TypeOK, OnDisk, Reached, Blocked, ReservedFile, KeyAlone, OrphanLog, StaleCandidate, TwoNames
  <2>5. Reached'
    BY <1>14, <2>4 DEF LegacyCommit, Locked, TypeOK, OnDisk, Reached, AllowCreate
  <2>6. QED
    BY <2>1, <2>2, <2>3, <2>5
<1>15. CASE UNCHANGED vars
  <2>1. Reached'
    BY <1>15 DEF vars, Reached, AllowCreate, Blocked, ReservedFile, KeyAlone, OrphanLog, StaleCandidate, TwoNames
  <2>2. QED
    BY <1>15, <2>1 DEF vars, TypeOK, KeyBeforeCipher, OnDisk
<1>16. QED
  BY <1>1, <1>2, <1>3, <1>4, <1>5, <1>6, <1>7, <1>8, <1>9, <1>10, <1>11, <1>12, <1>13, <1>14, <1>15, Decisions DEF Next, Program

\* The inductive invariant from which the properties below follow.
THEOREM InvHolds == Spec => []Inv
<1>1. QED
  BY InitInv, NextInv, PTL DEF Spec

-----------------------------------------------------------------------------
(* The properties of DatabaseMigration. *)

\* The type invariant: no transaction is counted twice.
THEOREM TypeCorrect == Spec => []TypeOK
<1>1. Inv => TypeOK
  BY DEF Inv
<1>2. QED
  BY <1>1, InvHolds, PTL

\* Nothing is encrypted before the key is safe.
THEOREM KeysComeFirst == Spec => []KeyBeforeCipher
<1>1. Inv => KeyBeforeCipher
  BY DEF Inv
<1>2. QED
  BY <1>1, InvHolds, PTL

\* The program serves the encrypted database, and no plaintext is left then.
THEOREM ServesOnlyEncrypted == Spec => []ServingIsClean
<1>1. Inv => ServingIsClean
  BY DEF Inv, Reached, ServingIsClean
<1>2. QED
  BY <1>1, InvHolds, PTL

\* Every refusal rests on files that are there to be seen.
THEOREM RefusalsAreExplained == Spec => []RefusedOnlyIfBlocked
<1>1. Inv => RefusedOnlyIfBlocked
  BY DEF Inv, Reached, RefusedOnlyIfBlocked
<1>2. QED
  BY <1>1, InvHolds, PTL

-----------------------------------------------------------------------------
(* The refinement. *)

\* A step that changes neither what a reader would find nor whether the
\* database is served is invisible to the owner.
LEMMA Unseen ==
  ASSUME UNCHANGED <<Form, Content, At("serving")>>
  PROVE  [Upgrade!Next]_Upgrade!vars
BY DEF Upgrade!vars

\* The start is a start of the upgrade.
LEMMA InitMaps == Init => Upgrade!Init
BY DEF Init, Upgrade!Init, Form, Content

\* Each step maps to a step of the upgrade or to none.
LEMMA NextMaps == Inv /\ Inv' /\ [Next]_vars => [Upgrade!Next]_Upgrade!vars
<1> SUFFICES ASSUME Inv, Inv', [Next]_vars PROVE [Upgrade!Next]_Upgrade!vars
  OBVIOUS
<1> USE DEF Inv, Form, Content
<1>1. ASSUME \/ Start \/ StartRefused \/ CreateKey \/ SealKey \/ PreparePlaintext \/ Reserve
             \/ Export \/ VerifyExport \/ CheckSidecars \/ PrepareResume \/ CheckInstall
             \/ Unstage \/ PrepareEncrypted \/ CheckCleanup \/ Relaunch
      PROVE  UNCHANGED <<Form, Content, At("serving")>>
  <2>1. UNCHANGED <<main, backup, wal>>
    BY <1>1 DEF Start, StartRefused, CreateKey, SealKey, PreparePlaintext, Reserve, Export,
       VerifyExport, CheckSidecars, PrepareResume, CheckInstall, Unstage, PrepareEncrypted,
       CheckCleanup, Relaunch
  <2>2. pc # "serving" /\ pc' # "serving"
    BY <1>1 DEF Start, StartRefused, CreateKey, SealKey, PreparePlaintext, Reserve, Export,
       VerifyExport, CheckSidecars, PrepareResume, CheckInstall, Unstage, PrepareEncrypted,
       CheckCleanup, Relaunch
  <2>3. QED
    BY <2>1, <2>2
\* The files move, the database stays.
<1>2. CASE PrepareNew
  <2>1. UNCHANGED <<Form, Content, At("serving")>>
    BY <1>2 DEF PrepareNew
  <2>2. QED
    BY <2>1, Unseen
<1>3. CASE LockSource
  <2>1. main.kind = "plain" /\ main' = Plain(Latest(main)) /\ ~wal' /\ main.data \in Nat
    BY <1>3 DEF LockSource, Reached, Sourced, TypeOK
  <2>2. UNCHANGED <<Form, Content>>
    BY <2>1
  <2>3. UNCHANGED At("serving")
    BY <1>3 DEF LockSource
  <2>4. QED
    BY <2>2, <2>3, Unseen
<1>4. CASE MoveAside
  <2>1. main.kind = "plain" /\ backup' = main /\ wal' = wal /\ (main' = main \/ main' = Missing)
    BY <1>4 DEF MoveAside, Reached, Sourced
  <2>2. UNCHANGED <<Form, Content, At("serving")>>
    BY <1>4, <2>1 DEF MoveAside
  <2>3. QED
    BY <2>2, Unseen
<1>5. CASE Unlink
  <2>1. main.kind = "plain" /\ backup = main /\ main' = Missing
    BY <1>5 DEF Unlink, Reached, OnDisk
  <2>2. UNCHANGED <<Form, Content, At("serving")>>
    BY <1>5, <2>1 DEF Unlink
  <2>3. QED
    BY <2>2, Unseen
<1>6. CASE Discard
  <2>1. UNCHANGED <<Form, Content, At("serving")>>
    BY <1>6 DEF Discard, Reached
  <2>2. QED
    BY <2>1, Unseen
\* The steps the owner sees.
<1>7. CASE FillNew
  <2>1. Form = "none" /\ Content = 0 /\ Form' = "cipher" /\ Content' = 0
    BY <1>7 DEF FillNew, Reached
  <2>2. UNCHANGED At("serving")
    BY <1>7 DEF FillNew
  <2>3. QED
    BY <2>1, <2>2 DEF Upgrade!Next, Upgrade!Create
<1>8. CASE Publish
  <2>1. OriginalAside /\ ~wal /\ main' = Cipher(backup.data) /\ backup.data \in Nat
    BY <1>8 DEF Publish, Reached, TypeOK
  <2>2. Form = "plain" /\ Form' = "cipher" /\ Content' = Content
    BY <2>1
  <2>3. UNCHANGED At("serving")
    BY <1>8 DEF Publish
  <2>4. QED
    BY <2>2, <2>3 DEF Upgrade!Next, Upgrade!Encrypt
<1>9. CASE Serve
  <2>1. Form = "cipher" /\ UNCHANGED <<Form, Content>> /\ ~At("serving") /\ At("serving")'
    BY <1>9 DEF Serve, Reached
  <2>2. QED
    BY <2>1 DEF Upgrade!Next, Upgrade!Open
<1>10. CASE Store
  <2>1. main.kind = "cipher" /\ main' = Cipher(main.data + 1) /\ UNCHANGED pc /\ At("serving")
    BY <1>10 DEF Store, Reached
  <2>2. Form = "cipher" /\ Form' = Form /\ Content' = Content + 1
    BY <2>1
  <2>3. QED
    BY <2>1, <2>2 DEF Upgrade!Next, Upgrade!Store
<1>11. ASSUME NEW left \in BOOLEAN, LegacyCommit(left)
       PROVE  [Upgrade!Next]_Upgrade!vars
  <2>1. /\ main.kind = "plain" /\ main.data \in Nat /\ wal \in BOOLEAN
        /\ main' = Plain(IF left THEN Latest(main) ELSE Latest(main) + 1) /\ wal' = left
        /\ UNCHANGED pc
    BY <1>11 DEF LegacyCommit, TypeOK
  <2>2. Latest(main)' = Latest(main) + 1
    BY <2>1
  <2>3. Form = "plain" /\ Form' = Form /\ Content' = Content + 1
    BY <2>1, <2>2
  <2>4. QED
    BY <2>1, <2>3 DEF Upgrade!Next, Upgrade!Commit
<1>12. CASE Crash
  <2>1. UNCHANGED <<Form, Content>> /\ ~At("serving")'
    BY <1>12 DEF Crash
  <2>2. CASE At("serving")
    BY <2>1, <2>2 DEF Upgrade!Next, Upgrade!Close
  <2>3. CASE ~At("serving")
    BY <2>1, <2>3, Unseen
  <2>4. QED
    BY <2>2, <2>3
<1>13. CASE UNCHANGED vars
  <2>1. UNCHANGED <<Form, Content, At("serving")>>
    BY <1>13 DEF vars
  <2>2. QED
    BY <2>1, Unseen
<1>14. QED
  BY <1>1, <1>2, <1>3, <1>4, <1>5, <1>6, <1>7, <1>8, <1>9, <1>10, <1>11, <1>12, <1>13, Unseen
     DEF Next, Program

\* No committed transaction is lost, for any number of commits and crashes.
THEOREM Refinement == Spec => ImplementsUpgrade
<1>1. QED
  BY InitMaps, NextMaps, InvHolds, PTL DEF Spec, ImplementsUpgrade, Upgrade!Spec

-----------------------------------------------------------------------------
(* The phone (EncryptedDatabaseMigrator.kt). *)

Lying ==
  /\ database.kind \in {"missing", "new"} => database.rows = 0
  /\ staging.kind \in {"missing", "new"} => staging.rows = 0
  /\ log > 0 \/ journal # "none" => database.kind = "plain"
  /\ database.rows + log <= MaxStored
  /\ database.kind = "missing" => ~StagingLies
  /\ database.kind \in {"new", "cipher"} \/ StagingLies => record = "whole"

Known ==
  /\ place = "keyless" => record = "none"
  /\ place = "sealing" => record = "pending"
  /\ place \in (Preparing \ {"keyless", "sealing"}) \union {"serving"} => record = "whole"
  /\ place \in Migrating => database.kind = "plain"
  /\ place \in Migrating \ {"plain"} => log = 0 /\ journal # "hot"
  /\ place \in Migrating \ {"plain", "checkpointed"} => journal = "none"
  /\ place \in {"exported", "verified", "checked"} => staging = Sealed(database.rows) /\ leftover # "hot"
  /\ place = "creating" => database = Absent
  /\ place = "filling" => database = New
  /\ place \in {"opening", "serving"} => database.kind = "cipher"
  /\ PhoneRefusesOnlyIfBlocked

PhoneInv == PhoneTypeOK /\ Lying /\ Known

USE PhoneBoundsAssumption DEF Journals, Absent, New, Sealed, Migrating, Preparing, Goes, StagingLies

-----------------------------------------------------------------------------
(* The invariant. *)

LEMMA PhoneInitInv == PhoneInit => PhoneInv
  BY DEF PhoneInit, PhoneInv, PhoneTypeOK, Lying, Known, PhoneRefusesOnlyIfBlocked,
         Interrupted, NoSchema, StaleExport

LEMMA PhoneNextInv == PhoneInv /\ [PhoneNext]_phoneVars => PhoneInv'
<1> SUFFICES ASSUME PhoneInv, [PhoneNext]_phoneVars PROVE PhoneInv'
  OBVIOUS
<1> USE DEF PhoneInv, PhoneTypeOK, Lying, Known, PhoneRefusesOnlyIfBlocked, Interrupted, NoSchema,
           StaleExport, sides, export
<1>1. CASE FindKey
  BY <1>1 DEF FindKey, NeedsKey
<1>2. CASE WriteRecord
  BY <1>2 DEF WriteRecord
<1>3. CASE PlaceRecord
  BY <1>3 DEF PlaceRecord
<1>4. CASE Choose
  BY <1>4 DEF Choose, NeedsKey
<1>5. CASE Checkpoint
  BY <1>5 DEF Checkpoint
<1>6. CASE RetireColdJournal
  BY <1>6 DEF RetireColdJournal
<1>7. CASE DiscardStaging
  BY <1>7 DEF DiscardStaging
<1>8. CASE DiscardLeftover
  BY <1>8 DEF DiscardLeftover
<1>9. CASE OpenStaging
  BY <1>9 DEF OpenStaging
<1>10. CASE BeginExport
  BY <1>10 DEF BeginExport
<1>11. CASE CommitExport
  BY <1>11 DEF CommitExport
<1>12. CASE VerifyStaging
  BY <1>12 DEF VerifyStaging
<1>13. CASE VerifySource
  BY <1>13 DEF VerifySource
<1>14. CASE Replace
  BY <1>14 DEF Replace
<1>15. CASE CreateDatabase
  BY <1>15 DEF CreateDatabase
<1>16. CASE CreateSchema
  BY <1>16 DEF CreateSchema
<1>17. CASE OpenRoom
  BY <1>17 DEF OpenRoom
<1>18. CASE Save
  BY <1>18 DEF Save
<1>19. CASE Die
  BY <1>19 DEF Die
<1>20. CASE EndProcess
  BY <1>20 DEF EndProcess
<1>21. CASE UNCHANGED phoneVars
  BY <1>21 DEF phoneVars, NeedsKey
<1>22. QED
  BY <1>1, <1>2, <1>3, <1>4, <1>5, <1>6, <1>7, <1>8, <1>9, <1>10, <1>11, <1>12, <1>13, <1>14,
     <1>15, <1>16, <1>17, <1>18, <1>19, <1>20, <1>21 DEF PhoneNext, Prepare

\* The inductive invariant holds in every state.
THEOREM PhoneInvHolds == PhoneSpec => []PhoneInv
<1>1. QED
  BY PhoneInitInv, PhoneNextInv, PTL DEF PhoneSpec

\* The files, the key and the place of the process are of their types, and no file holds more
\* transactions than were ever made, for any number of transactions and deaths.
THEOREM PhoneTypeCorrect == PhoneSpec => []PhoneTypeOK
<1>1. PhoneInv => PhoneTypeOK
  BY DEF PhoneInv
<1>2. QED
  BY <1>1, PhoneInvHolds, PTL

\* Whatever deaths came before, the phone refuses to start only for one of the three named
\* reasons.
THEOREM PhoneRefusalsAreExplained == PhoneSpec => []PhoneRefusesOnlyIfBlocked
<1>1. PhoneInv => PhoneRefusesOnlyIfBlocked
  BY DEF PhoneInv, Known
<1>2. QED
  BY <1>1, PhoneInvHolds, PTL

-----------------------------------------------------------------------------
(* The refinement. *)

USE DEF PhoneForm, PhoneContent, PhoneUpgrade!vars

LEMMA PhoneInitMaps == PhoneInit => PhoneUpgrade!Init
  BY DEF PhoneInit, PhoneUpgrade!Init

LEMMA PhoneNextMaps == PhoneInv /\ [PhoneNext]_phoneVars => [PhoneUpgrade!Next]_PhoneUpgrade!vars
<1> SUFFICES ASSUME PhoneInv, [PhoneNext]_phoneVars PROVE [PhoneUpgrade!Next]_PhoneUpgrade!vars
  OBVIOUS
<1> USE DEF PhoneInv, PhoneTypeOK, Lying, Known, sides, export
\* Steps on the key, on the export, or that only look.
<1>1. CASE \/ FindKey \/ WriteRecord \/ PlaceRecord \/ Choose \/ RetireColdJournal
           \/ DiscardStaging \/ DiscardLeftover \/ OpenStaging \/ BeginExport
           \/ CommitExport \/ VerifyStaging \/ VerifySource
  <2>1. UNCHANGED <<database, log>> /\ place # "serving" /\ place' # "serving"
    BY <1>1 DEF FindKey, WriteRecord, PlaceRecord, Choose, RetireColdJournal, DiscardStaging,
         DiscardLeftover, OpenStaging, BeginExport, CommitExport, VerifyStaging, VerifySource
  <2>2. QED
    BY <2>1
\* Folding the log moves transactions and changes none.
<1>2. CASE Checkpoint
  <2>1. database'.kind = database.kind /\ database'.rows = database.rows + log /\ log' = 0
    BY <1>2 DEF Checkpoint
  <2>2. place # "serving" /\ place' # "serving"
    BY <1>2 DEF Checkpoint
  <2>3. QED
    BY <2>1, <2>2
<1>3. CASE CreateDatabase
  BY <1>3 DEF CreateDatabase
\* The steps the owner sees.
<1>4. CASE Replace
  <2>1. /\ database.kind = "plain" /\ log = 0 /\ log' = 0 /\ database.rows \in Nat
        /\ database' = Sealed(database.rows)
    BY <1>4 DEF Replace
  <2>2. place # "serving" /\ place' # "serving"
    BY <1>4 DEF Replace
  <2>3. QED
    BY <2>1, <2>2 DEF PhoneUpgrade!Next, PhoneUpgrade!Encrypt
<1>5. CASE CreateSchema
  <2>1. database = New /\ log = 0 /\ log' = 0 /\ database' = Sealed(0)
    BY <1>5 DEF CreateSchema
  <2>2. place # "serving" /\ place' # "serving"
    BY <1>5 DEF CreateSchema
  <2>3. QED
    BY <2>1, <2>2 DEF PhoneUpgrade!Next, PhoneUpgrade!Create
<1>6. CASE OpenRoom
  BY <1>6 DEF OpenRoom, PhoneUpgrade!Next, PhoneUpgrade!Open
<1>7. CASE Save
  <2>1. /\ database.kind = "cipher" /\ log = 0 /\ log' = 0 /\ database.rows \in Nat
        /\ database' = Sealed(database.rows + 1) /\ place = "serving" /\ place' = place
    BY <1>7 DEF Save
  <2>2. QED
    BY <2>1 DEF PhoneUpgrade!Next, PhoneUpgrade!Store
<1>8. CASE Die
  BY <1>8 DEF Die
<1>9. CASE EndProcess
  BY <1>9 DEF EndProcess, PhoneUpgrade!Next, PhoneUpgrade!Close
<1>10. CASE UNCHANGED phoneVars
  BY <1>10 DEF phoneVars
<1>11. QED
  BY <1>1, <1>2, <1>3, <1>4, <1>5, <1>6, <1>7, <1>8, <1>9, <1>10 DEF PhoneNext, Prepare

\* No death of the process loses a committed transaction, and what is served is encrypted and
\* holds what the original held, for any number of transactions and deaths.
THEOREM PhoneRefinement == PhoneSpec => PhoneImplementsUpgrade
<1>1. QED
  BY PhoneInitMaps, PhoneNextMaps, PhoneInvHolds, PTL
     DEF PhoneSpec, PhoneImplementsUpgrade, PhoneUpgrade!Spec

=============================================================================
