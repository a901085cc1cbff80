----------------------------- MODULE MCDatabases -----------------------------
(* Model checking the two implementations of DatabaseUpgrade, the desktop's *)
(* and the phone's, one at a time: the other one rests meanwhile.           *)
EXTENDS DatabaseMigration, PhoneDatabase

VARIABLE half

\* A desktop that crashed while it wrote its key, and has refused to start.
DesktopRests ==
  /\ main = Missing /\ staged = Missing /\ backup = Missing /\ wal = FALSE
  /\ key = "partial" /\ pc = "refused" /\ platform = "windows" /\ crashes = 1

MCInit ==
  \/ half = "desktop" /\ Init /\ PhoneInit /\ database = Absent
  \/ half = "phone" /\ PhoneInit /\ DesktopRests

DesktopNext == half = "desktop" /\ Next /\ UNCHANGED <<half, phoneVars>>
PhonesNext  == half = "phone" /\ PhoneNext /\ UNCHANGED <<half, vars>>

\* A process runs on when nothing stops it, and is started again after a refusal.
MCSpec ==
  /\ MCInit /\ [][DesktopNext \/ PhonesNext]_<<half, vars, phoneVars>>
  /\ WF_vars(half = "desktop" /\ Program) /\ WF_vars(half = "desktop" /\ Relaunch)

=============================================================================
