# FocusBridge in TLA+

FocusBridge shows a phone's notifications on a PC. The phone captures them, a PC with
which it was paired by a QR code receives, stores and shows them; the two meet on the local
network or, when they cannot, through a relay that runs as a Cloudflare Durable Object. All
that passes between them is protected end to end by a secure channel.

This directory is the project's verification: TLA+ modules translated from the source, the
TLC configurations that check them on small instances, and theorems about them checked by
the TLA+ proof system for every size. `PROJECT.json` lists every definition with the source
lines it models.

    tlc -workers 2 -config RelayRouting.cfg MCRelayWorker.tla      # a run
    tlapm RelayWorkerProofs.tla                                    # the proofs of a module

## 1. The system

State, operations and what makes each component correct. *Modelled* names the module.

| Component | State it keeps | Operations | What is hard | What makes it correct | Modelled |
|---|---|---|---|---|---|
| **Relay account object** `relay-worker/src/account.ts` | a SQL row per pair (status, sockets, generation, rate buckets, expiry), a provisioning budget, an attachment per socket, one alarm | provision, revoke, join, forward, socket close, alarm | who is paired with whom is stored twice; a send may throw between two writes; the object is reset and sockets vanish without a close event; one alarm for all deadlines | an open socket is always the one the live row names; a frame reaches only the announced partner; reconnecting refills no budget; expired pairs and sessions end by themselves | RelayWorker |
| Relay HTTP front, Firebase tokens `index.ts`, `http.ts`, `firebase.ts` | none | route, check headers, verify a token | none that spans two requests | only authenticated requests reach an account | no |
| **Desktop session** `state.rs`, `ws_server.rs`, `core/attach.rs`, `pairing_cmd.rs` | atomics (paused, allowance), mutexes (sender, pairing code, approved phone, grace), the settings and pairing rows | authenticate, attach, detach, grace; show a code, disconnect, remove, pick a phone, restart | each connection is a task, the commands run on another thread, and every access is a lock or an atomic of its own | a disconnect holds, nobody uninvited is attached, only its own end detaches a connection, a replaced connection ends | DesktopSession |
| Desktop relay client `sync/relay_client.rs` | request, rejoin and refusal flags, the enrollment arming, a wake-up | supervise, dial the relay, run one phone session, enroll, park after a refusal | a flag tested before parking on a notification; flags shared with the LAN server | a wanted session is eventually dialed, a refused phone does not keep the PC busy, the phone confirmed is the phone saved | Reunion; run_session and enrollment also in SecureChannel |
| Desktop heartbeat, socket service `server/heartbeat.rs`, `socket_io.rs` | nonce of the open probe, deadline, a bounded queue | probe, acknowledge, time out, queue frames while work runs | a deadline racing a late pong and long work | a dead peer is found, a live one is not dropped, nothing queued is lost | the queue and what a passed deadline does in Delivery; probes and the clock no |
| Desktop notification store `db/store.rs`, `core/handler.rs`, application arms of `ws_server.rs` | notifications, dismissals, the work permit | insert, acknowledge, dismiss, sync | a connection replaced between check and write; a frame sent again because its answer was lost | once by id, no state of the user undone, acknowledged implies stored | Delivery |
| **Desktop encrypted database** `db/encrypted.rs`, `security/database_key.rs` | the database file, the candidate, the backup, the key | find, create, export, verify, move aside, publish, clean up | a crash between any two file operations; an older version writing meanwhile | no committed transaction is lost; only the encrypted database is served; no plaintext stays | DatabaseMigration, DatabaseUpgrade |
| Desktop vault lock `auth_cmd.rs` | one flag, credentials | unlock, lock | none that spans two calls | nothing is shown while locked | no |
| Desktop settings, rules, diagnostics, window | rows and OS objects | single reads and writes | none | a write is what is read | no |
| Desktop core: QR, relay material, envelopes, priority, study mode | none | pure functions | boundaries | equal to a reference definition | no; candidates for an operator model |
| Desktop interface (React) | view state | calls commands | presentation | | no |
| **Secure channel** `shared/secure-channel` | phase, counters, budgets, records in assembly | handshake, enrollment approval, confirmation, records | either side may move first; one refused step poisons the session | both sides reach Ready with the same session, each record is taken once and in order | SecureChannel, SecureLink |
| Secure channel JNI `secure-channel-jni` and Kotlin wrappers | a registry of handles | open, use, close | a handle used while closed | a closed handle is never used | PhoneSecureSession's phases in SecureChannel; the registry no |
| **Phone connection** `WebSocketClient.kt`, `SyncEngine.kt` | connection serial, state, pairing, manual-disconnect flag in memory and on disk, whether it was turned away | connect, supervise every 15 s, callbacks, disconnect, approve | callbacks of old sockets; a flag persisted later than it is used | a stale callback changes nothing, a manual disconnect holds, PC and phone do not wait for each other for ever | PhoneClient |
| Phone capture and delivery `NotificationService.kt`, DAO, retry | pending rows | capture, send, acknowledge, retry, remove | an answer that is lost or late, the process killed | every captured notification is delivered or visible as pending | Delivery |
| Phone pairing | one row | decode, upsert | none | | no; a confirmed scan is an act of the user in PhoneClient and Reunion |
| **Phone encrypted database** `EncryptedDatabaseMigrator.kt`, `DatabasePreparation.kt`, `DatabaseKeyStore.kt` | the database file with its log and journal, the staging file with its journal, the wrapped key | find or write the key, fold the log, export, verify, replace, create | the process dies between any two file operations; logs and journals of the old version's last moment | as the desktop's; every refusal has a reason on the disk | PhoneDatabase, DatabaseUpgrade |
| Phone app lock, rules, interface | attempts, session | unlock, edit | | | no |
| Self-hosted relay (earlier design) `src/relay` | accounts in a file and in memory, one-time codes, signed tokens; per pair two senders, a queue for an absent desktop, a rate window | register, log in, verify a code; attach, route, flush, detach | the process dies between the file and memory; a replaced task that ends late; messages that arrive while a queue is flushed | a token's account is on disk; each message is received at most once and in order, and leaves the queue for a named reason | RelayAccounts, SelfHostedRelay |

The rest of the repository (iOS prototype, sites, scripts, tests, generated code) holds none of this logic.

How they interact. The phone opens a WebSocket to the PC, or both join the relay account as
the two roles of a pair and the relay, once both are there, announces a *generation* to each
and forwards opaque frames. On either transport the two run the secure-channel handshake,
the phone authenticates with the key of its pairing, and the PC decides with `may_attach`
whether it takes the place of the connection attached so far. What is attached then carries
notifications one way and acknowledgements, dismissals and heartbeats both ways. The
commands of the PC's user reach into this through shared flags: they pause it, retire the
code on screen, let the attached phone go, or ask for a particular phone. Before any of that
the database must be open, for which it may have to be upgraded from plaintext.

## 2. Modules

| Module | What it is |
|---|---|
| `RelayWorker` | the account object, one action per handler |
| `MCRelayWorker` | symmetry for its runs |
| `RelayWorkerProofs` | its inductive invariant and theorems |
| `DesktopSession` | attach, detach and the user's commands, one action per access to shared state |
| `MCDesktopSession` | symmetry for its runs |
| `DesktopSessionProofs` | its inductive invariants and theorems |
| `DatabaseUpgrade` | abstract: what the upgrade of the database promises its owner |
| `DatabaseMigration` | the upgrade as the desktop does it, one action per file operation; `Upgrade` is its refinement mapping |
| `PhoneDatabase` | the upgrade as the phone does it, a second implementation of `DatabaseUpgrade` (`PhoneUpgrade`) |
| `MCDatabases` | checks the two implementations one at a time |
| `DatabaseProofs` | the inductive invariant of each, theorems and both refinements |
| `SecureLink` | abstract: what a session promises over a carrier that cannot be trusted |
| `SecureChannel` | the sessions of a desktop and its phones, as `run_session` and `PhoneSecureSession` drive them |
| `MCSecureChannel` | records, symmetry and the bound on records for its runs |
| `SecureChannelProofs` | its inductive invariant, theorems and the refinement |
| `PhoneClient` | the phone's connection: the client's callbacks and commands, the supervisor, the disk |
| `PhoneClientProofs` | its inductive invariants and theorems |
| `Reunion` | composes the PC's relay client, the relay's promises and the phone: how the two meet again |
| `ReunionProofs` | its inductive invariant and theorems |
| `Delivery` | the way of a notification from the shade to the inbox, and back as an acknowledgement |
| `MCDelivery` | contents of messages for its run |
| `DeliveryProofs` | its inductive invariants and theorems |
| `RelayAccounts` | the accounts, one-time codes and tokens of the self-hosted relay |
| `SelfHostedRelay` | EXTENDS it with the sessions and the tasks of the sockets |
| `MCSelfHosted` | checks the two halves of it side by side |
| `SelfHostedProofs` | inductive invariants and theorems of both |

Definitions that begin with "Mutant of" state a plausible mistake in the operation after
them. No specification uses them; they show which property would notice the mistake.

### RelayWorker

`row` is the SQL table, `budget` the provisioning row, `ws` the sockets with their
attachments, `alarm` the object's alarm, `clock` is `Date.now()`. A handler runs from its
last suspension to its end without interleaving, so it is one action: `Provision`, `Revoke`,
`Join` (which purges, closes what is stale, admits, and announces a generation if the peer is
there), `JoinRefused`, `JoinFails` (the peer's send throws), `Forward`, `Reject` (a frame that
may not pass closes its socket), `HandlerFails` (storage throws: every socket closed, rows
untouched), `CloseEvent`, `Alarm`. Helpers carry the names of the methods they translate:
`Fence` and `Close` (`retire`), `Delete` and `Expired` (`purge`), `Schedule`. External actions
are `Drop` (a transport lost before the runtime notices, after which a send throws),
`Restart` (the object is reset: sockets go, rows stay, no close event) and `Tick`. Ids drawn
at random are fresh values and a generation is the id of the socket whose join drew it. The
byte budget of a session is its message budget.

### DesktopSession

`paused`, `allowed`, `approved`, `sender`, `codeMem`, `lost`, `announced` are the fields of
`AppState`; `codeDisk`, `auto`, `saved`, `active` the settings and pairing rows; `conn[c]` is
the task that serves connection c with what it has read so far; `user` the command in
progress. A task reads its key, the code, whether the PC is paused and the phone's standing,
applies `MayAttach`, consumes an allowance, approves, attaches, marks the row, checks that it
is still current, announces, and at its end clears the sender, marks the rows and begins the
grace, each in a step of its own (`ReadKey` ... `Announce`, `ClearSender`, `MarkDisconnected`,
`BeginGrace`, `EndGrace`). `ManualDisconnect` goes through the five accesses of
`mark_manual_disconnect`. The code in memory is read through `current_pairing`, which takes it
up again from the disk: by a task that authenticates (`ReadKey`, `ReadCode`), and at any time by
the relay supervisor, a task of its own that asks whether a code is live (`PairingCodeIsLive`,
`relay_client.rs:68` and 243). Such a read between the two halves of `clear_pairing_session`
undoes the first; `CutAfterReload` and `CutAfterRead` name the disconnects so overlapped, of
which `DisconnectHolds` does not speak (section 5). `cut`, `pick`, `firstCode`, `autoEver` are history read only by
properties. The second message of an authenticated connection that closes it is covered by
`Lose`. The `TypeOK` of DesktopSession, PhoneClient and Reunion are proved (`TypeCorrect`), so no
run spends its time on them.

### DatabaseMigration

`main`, `staged` and `backup` are the files at the database's path, `.encrypting` and
`.plaintext-migration`: missing, reserved (created, still empty), plain or cipher, with the
number of transactions in them. `wal` says that one more commit is only in main's log. `pc`
is the program's place in `initialize_impl`, `load_or_create`, `prepare`, `install` and
`cleanup_backup`; a check that decides is a step, each change of a file is a step, and
`Crash` may come between any two. The lock an open source connection holds is `Locked`: from
`BEGIN EXCLUSIVE` to the close of the connection, because `locking_mode = EXCLUSIVE` keeps it
past the `COMMIT`. `LegacyCommit` is an older version of the program, which does not know the
lock file: it commits whenever SQLite's own locks allow, and may die leaving a log. The
platform decides how a file is moved (`MoveFileExW` in one step; `hard_link`, `remove_file`
in two) and how a key is stored (a file created, then filled; a Keychain item in one step).
`Opens` is what a key finds in a file, `Fingerprint` what the program compares before it lets
the original go: the transactions counted.

The mapping to `DatabaseUpgrade`: the database is encrypted as soon as the encrypted file is
at its path, until then it is the original wherever it lies, and its content includes the
log. Only four steps are visible to the owner: `FillNew` (Create), `Publish` (Encrypt),
`Serve` (Open), a commit; everything else is a stutter.

### PhoneDatabase

`database`, `log` and `journal` are the file at the database's path, the commits that only its
write-ahead log holds, and its rollback journal; `staging` and `leftover` are
`.encrypted-staging` and its journal; `record` is the wrapped key. A journal is hot (a
transaction to undo) or cold (empty), because the code tells them apart: an empty one is
retired or allowed, a hot one refused. `place` is the process's place in `getOrCreate`,
`prepare`, `migrate` and Room's first opening, with one action per file operation or deciding
check. `Die` is a death of the process between any two of them, and stands for an operation
that throws. Nobody else writes: Android ends the old version's process before it starts the
new one, and one thread prepares, once in a process. The initial states are a fresh installation or
what an old version may have left: a log, a hot journal, a cold one, or nothing.

`PhoneUpgrade` maps it to `DatabaseUpgrade` as the desktop's is mapped, only simpler: the
database is what lies at its path, its log included, and `CreateSchema`, `Replace`, `OpenRoom`
and `Save` are the visible steps. `MCDatabases` runs the two implementations one at a time, the
other resting in a state of its own, so one run checks both against the same abstraction.

### SecureChannel

One relay pair: a desktop, the phones that may have its pre-shared key, and every session
either side makes. A session is a value of `Ids`, which also stands for its ephemeral key;
`phase`, `step`, `partner`, `peer`, `expected`, `sent`, `received`, `partial`, `total` are the
fields of `Session` and of its assembler, `step` counting handshake messages. `wire` keeps
every frame written and the relay may deliver any of them to any session again and again, so
loss, delay, repetition, reordering, misrouting, and frames of old connections are all there.
A frame names the sessions whose transcript protects it and its nonce, and reads exactly
where Noise says it does (`ReadsHandshake`, `Decrypts`); the assembler's own checks are
`Continues`. The phone reads message 2 and writes message 3 in one call (`Prove`), and reads a
confirmation and writes its own in one (`ConfirmBack`), as `PhoneSecureSession.receive` does.
Whatever does not verify ends the session (`Reject`), which is also where a desktop arms
enrollment while a code is live. `SealRefused` is a record that runs out of budget part of the
way: nonces are spent, no frame leaves. `Restart` keeps the pin and forgets the rest.

Abstracted: keys and ciphertexts; the two budgets, which are one counted in frames; time, so
that a live session may be found expired at any moment (`End`); the size of a chunk. A phone
always requires the same desktop key. `sealed` and `opened` are history: their lengths are
`outgoing_record` and the assembler's `record`.

The mapping to `SecureLink`: an end is bound to its partner once it holds transport keys
(`Prove`, `Verify`), and takes a record when the assembler completes it; every other step is
a stutter.

### PhoneClient

`manual`, `turnedAway`, `consent`, `rejected`, `asked` and `link` are the fields of
`WebSocketClient` under its monitor, so each callback (`OnOpen`, `PeerReady`, `Handshaken`,
`AuthOk`, `AuthFailed`, `SocketEnds`, ...) and each command (`ManualDisconnect`, `Accept`,
`Scan`, `SetAuto`, ...) is one step. `Callback(s)` is anything socket `s` may report, whether
it is still the client's (`Current`) or not (`Late`). The two coroutines that may dial, the
supervisor and the one that delivers a notification, are `task`, step by step between their
suspensions (`Tick`, `Await`, `Join`, `Dial`, `DialEndpoint`, `DialRelay` and the waits after
them; `Notify`, `Send`, `Transmit`), with `connectMutex` as `holder`. `disconnected` and `auto`
are on disk; `writes` holds values of the first on their way there (`Persist`), and `Restart`
is a death of the process before or after. `letGo` is history: a disconnect that was saved and
that nobody has taken back.

### Reunion

The composition, for a PC and a phone that can meet only at the relay. `pc` is the place of
`relay_client::start`'s loop, `attempt`, `run_session` and `bridge`; `flag` holds
`relay_requested`, `relay_rejoin`, the flags a refusal leaves and the permit of `relay_wake`
(`Notify` of tokio: a wake-up that finds nobody asleep is kept), `rule` what `may_attach` and
enrollment read. The supervisor tests (`Test`), registers for the wake-up and looks again
(`Park`, `Recheck`), dials, honours a request when the socket is open, waits, runs a session,
and leaves or stays after a failure (`SessionFails`), with the users' commands between any two
steps. The relay is what RelayWorker promises and no more: rows, one generation, and an ordered
`inbox` for each end; a frame outside a generation retires the pair. The phone is what
PhoneClient says with the local network out of reach. Attach, disconnect and handshake are
atomic here: their interleavings belong to DesktopSession and SecureChannel.

Pairing keys are numbers: a fresh code (`ShowCode`) carries the next one, a scan takes it over, a
socket presents the key of the pairing it was dialed with (`Dials`), and a phone that is let in
has its key saved. A key that is neither the live code's nor the saved one (`KnowsKey`) is
answered `unknown_pairing` before the attach rule is asked, and the phone stops dialing until its
user scans or accepts, or a notification makes it try again (`PhoneRedials`). Showing a code asks
for the relay and may arm enrollment, and never lifts a disconnect; a phone let in with it does.

### Delivery

On the phone `rows` is the table of messages, `captures` counts the coroutines that look for a
row or save it (they run side by side), `link` is the connection it holds. `Send` flushes a
pending row, `MarkSent` is the acknowledgement. On the PC `session[c]` is the loop of a
connection with its bounded queue (`PendingMessages`, filled by `service_while` as `ReadOn`
while a work item runs) and `work[c]` the blocking thread that runs the item: it looks whether
its connection is current, whether the notification is there, writes, looks again, pops up
(`Begin`, `Exists`, `Write`, `After`, `Popup`). A connection that ends takes the permit away but
not the thread. `Lose`, `Hangup`, `Silent` (the heartbeat's deadline, at any moment), `PhoneDies`
and `DesktopDies` are the faults. `Content` names the message under an id: Android posts one
message under more than one. Messages have a text: masked ones, whose text is empty, are never
taken for one another (`store.rs:79-81`).

### RelayAccounts and SelfHostedRelay

A handler is a task of `request`; `register_password` and `upsert_google_user` check under the
mutex (`Create`, `Upsert`), replace the file (`Save`), publish in memory (`Publish`), and the
process may die between (`RestartAccounts`). Each method of `RelayState` runs under the
session's mutex and is one step: `Attach` (with the flush), `Route`, `Detach`. The task of a
socket is a reader and a writer with a channel `out` between; it sees that it was replaced at
its next ownership check. `MCSelfHosted` checks accounts and sessions one half at a time: they
meet only where a token lets a pair be registered.

## 3. Runs

| Run | Instance | Shows |
|---|---|---|
| RelayRouting | 1 pair, 4 sockets, symmetry | routing, pairing and rate limits under any order of joins, failures, closes, alarms, restarts |
| RelayDeadlines | 2 pairs, 2 sockets, fairness | the provisioning budget; time alone ends what has expired |
| DesktopAttach | 2 phones, 2 connections, 1 code, 1 act, symmetry | who gets attached, who may detach, and that a disconnect retires the code, whatever phones and the relay supervisor read, save for the overlap of section 5 |
| DesktopDisconnect | 1 phone, 2 connections, no code, 2 acts, fairness | a disconnect holds after a restart, a pick or a changed preference and before a changed preference; a replaced connection ends |
| DatabaseUpgrades | desktop: 5 commits, 3 crashes, both platforms, fairness; phone: 3 transactions, 3 deaths | both refine DatabaseUpgrade; clean serving; explained refusals; every start of the desktop ends |
| SecureSessions | 4 sessions, 2 phones, 4 frames each way, 2 records, symmetry | the sessions agree and refine SecureLink through enrollment, replacement and restarts |
| PhoneDials | 3 sockets, 2 acts or deaths of the process | shown as connected means accepted by the PC; a saved disconnect is undone by no dial |
| Reunion | 2 acts, 1 lost socket, 1 refusal of another phone, fairness | a pick brings the PC to the relay afresh; an automatic PC meets its phone, for a named reason or not at all; a phone that was turned away is left alone |
| Delivery | 2 ids of 1 message, 2 posts or acts, 1 fault, queue of 1, fairness | sent means stored, one popup, the user's status stays, no row stays pending |
| SelfHosted | 3 requests about 1 address; 1 pair, 3 sockets, 3 messages, queue of 2 | tokens outlive crashes; the queue is kept, and flushed once and in order |
| PhoneRestarted, PickAbandoned | smallest that shows it | two statements of the code's comments and messages that an order of events refutes (section 5) |

Bounds and why they are enough. Four sockets are two sessions of one pair, or one session and
a replacement of both its ends, in any overlap: each join looks only at its own row, its peer
and the number of sockets held, and the second pair of RelayDeadlines covers what pairs share
(alarm, budgets, crowding). `Burst` is one frame in RelayRouting, so that a bucket is drained
and a rejoin tempted to refill it; the time bounds are two ticks, enough for a session, a pair
and a window to end in different orders, and `LastTick` leaves room for the last alarms. Two
connections are one that ends while another begins, the case every guard of the desktop
("is it still current?") is about; a third would be ordered with each of them alike. Codes and
acts count what the users do: a disconnect, plus one command before or after it. Three
crashes are one that leaves a migration half done, one in the run that recovers, one after;
the phone's three deaths likewise, one of them during the key's write;
five commits let the older version commit before the migration and during it, with and
without a log, and the program twice. Four sessions are two of the desktop and two of phones:
a handshake whose frames are replayed into another one, by the same phone or by a second one
that replaces it. Four frames are a confirmation and three chunks, so that a record of one
chunk and one of two fit and the third record meets the budget; `FewRecords` keeps at most two
records sealed, enough for one to be taken for the other. Three dials of PhoneClient are a
socket, its replacement and one more while both still report. In Reunion a lost socket, a
session that fails and a refusal meet each other once, in every order, with two commands
around them. In Delivery two posts are two coroutines of the same message, under one id or
two, or a post and what a user does with it; one fault lies anywhere between capture and
acknowledgement; a queue of one is full with the second frame. Three requests at the
self-hosted relay are two that race and one that signs in after a crash; three messages pass
a queue of two. The longest run takes about two minutes with two workers; TLC's counts of
distinct states are in its output, and the theorems of section 4 remove the bounds where they
exist.

Symmetry is used only in runs without a liveness property.

Deadlock checking is off where the system really may stop: clients stop at `Horizon`, the
users run out of acts, a phone out of dials, a served database at its last commit may rest.

Fairness. RelayWorker: the runtime delivers a due alarm and time passes; clients owe nothing.
DesktopSession: a task that can run does (tokio), the command on the main thread finishes, the
grace timer fires; phones, the network and the user owe nothing. DatabaseMigration: the
program goes on when nothing stops it, and its user starts it again after a refusal; crashes
are bounded, so that eventually none comes; older versions owe nothing. Reunion: the
supervisor's task and the phone's go on, and the relay hears in the end of a socket that has
gone; users and network owe nothing. Delivery: coroutines, tasks and threads go on, and the
phone's supervisor, which comes round every fifteen seconds, dials and flushes again; faults are
bounded. That presumes a phone its user has not disconnected, and PhoneRestarted shows a state
in which the supervisor does not flush although the phone is connected.

## 4. Proofs

The theorems hold for every value of the constants under the named assumptions of the
modules, which TLC evaluates in the runs: `None` is no socket, phone or the like
(`NoneAssumption`, part of the others), bounds are natural numbers, and the rest is what the
source's own constants satisfy: a limit, window or lifetime is not zero (`LimitAssumption`,
`DeliveryAssumption`, `SelfHostedAssumption`, `ConstantsAssumption`), an upgrade has room for two
commits (`BoundsAssumption`, `PhoneBoundsAssumption`), a record has a chunk
(`ConstantsAssumption`). `AccountsAssumption`, `PhoneAssumption` and `ReunionAssumption` ask for
nothing else.

**RelayWorkerProofs.** `OpenIsCurrent` and `GenerationPaired` are not inductive: a join
trusts its row to find the peer's attachment, a forward trusts an attachment to find the row,
and a fresh socket id must not carry an old peer. `Consistent` adds that a socket in a row
belongs to that place (`Owned`), that the two sides of a paired row name each other and one
generation, known to each device still open (`Linked`), that sockets not yet accepted are
blank, and that an open socket is reachable from a live row. Every handler is a composition of
`Fence`, `Close`, `Delete` and an entry; one lemma per piece shows it keeps `Consistent`, and
`NextInv` puts them together. From it: `TypeCorrect` (a bucket stays between empty and
full), `OpenSocketsAreCurrent`, `RowsAndAttachmentsAgree`, `PartnersAreForLife`. The limits need
the books as well: `Kinds` says that a step counts nothing, one provision or one frame, and
`Books` that the frames forwarded, each at its cost, and the credit left never exceed a full
bucket and the time up to the last refill (`Funded`), and that the budget's window counts every
pair provisioned in it (`Windowed`). Frames are counted as a finite set of pairs of a socket and
a number, not by a fold over sockets, because facts about cardinality can be cited and an
induction over data cannot be made. Hence `RateIsBounded`, `BudgetIsKept`, and, from
`Consistent`, `ForwardsAreAnnounced`.

**DesktopSessionProofs.** The types are proved part by part, with what each place of a task says
it has read. `SenderAttached` (the sender's task is between attaching and clearing) gives
`OnlyItsEnd`. `UninvitedStaysOut` is far from inductive: `Uninvited` says that a code anywhere
in the app is of this run while it is valid (`CodeBook`), what a task knows of its phone
(`Known`), and that, with neither automatic reconnection nor a pick, every answer a task has
read was of a phone that was invited (`Clean`); an invitation is never withdrawn in a run. Hence
`StaysOut`. For `DisconnectStands`, `Cut` says what is true from a quiet disconnect on, one that
no reader of the code fell into (`CutAfterReload`): paused, every code that can be read is later, no task that had read an older one is past its decision,
and the sender is gone where the command has come past it.

**DatabaseProofs.** Of the desktop, `OnDisk` says which files can lie side by side, whoever reads
them next: two plaintext names are one file, a candidate beside an original never holds more
than it, an original without a path has a whole candidate, an encrypted database beside a
plaintext one holds the same. `Reached` says what the program knows at each step; it is
needed because `Publish` is safe only by what `CheckInstall` found, and it is inductive only
because nobody can write to the original once it has left its path. `Decisions` covers the
steps that only look, `NextInv` the others, and `NextMaps` maps each step to one of
`DatabaseUpgrade` or to none. Theorems: `TypeCorrect`, `KeysComeFirst`, `ServesOnlyEncrypted`,
`RefusalsAreExplained`, `Refinement` (no committed transaction is lost, whatever the number
of commits and crashes).

Of the phone, `Lying` says which files can lie side by side: a log or a journal only
beside a plaintext database, staging only with a database, and nothing encrypted before the key
is whole. `Known` says what the process knows at each step: the log is folded and the journal
gone once they were looked at, and before the rename staging holds what the database holds.
`Replace` is safe only by the second, which is why the refinement needs it. Theorems:
`PhoneTypeCorrect`, `PhoneRefusalsAreExplained`, `PhoneRefinement`.

**SecureChannelProofs.** Four parts. `Paired` and `Shaken` say how far a session and its
partner have come, which is what makes partners mutual: a session that has finished the
handshake has a partner that named it first. `Identified` ties `expected`, `peer` and the
saved pin of the only live desktop session together. `Written` says what a frame on the wire
proves of its writer: a protected frame has a nonce already spent, a confirmation is the first
of them, a data frame is a chunk of a record its writer sealed. `Assembled` says that what an
assembler holds begins the record that comes next. `NothingWritten`, `ConfirmationWritten` and
`SealWritten` carry the third part through the actions by what they put on the wire.
Theorems: `TypeCorrect` (budgets included), `SessionsAgree`, `SessionsTalkToPinned`,
`NoncesUsedOnce`, `ConfirmationsSaved`, and `Refinement`: for any number of sessions, phones
and records, and whatever the relay does, a session delivers the records its partner sealed,
whole, once and in order.

**PhoneClientProofs.** `Kept` says what every callback but a new socket and `AuthOk` may make of
the connection: it lets the socket go or keeps it, and shows nothing as connected that was not;
`ConnectedMeansAccepted` follows. A saved disconnect needs more, because after a death of the
process memory says that nobody disconnected and the disk says otherwise. `DisconnectKept`: the
last value on its way to the disk is the one in memory (`LatestMeant`), while it is remembered a
socket only waits to be asked (`OnlyAsked`), nothing on its way to the disk would undo it
(`OnDisk`), and after a death no coroutine comes further than what it does for a phone that
waits (`NobodyDials`). Hence `SavedDisconnectsHold`.

**ReunionProofs.** Three facts about the inboxes make `LeftAlone` inductive. An open socket has
not been told of its end (`StillOpen`); an open socket of the PC hears of its generation once,
and from then on that generation lasts as long as the socket's place on the row (`HeardOnce`),
so that a PC which stays after a refusal is not called into a second session; and a PC that has
announced a disconnect to a phone, or told it that its pairing is unknown (`Goodbye`), cannot
refuse it on the same sockets (`Unpaired`), so that no late word of that kind ends the waiting. `Quiet` adds where the PC is meanwhile: at the end of the bridge
with the refusal noted, or waiting with nobody asking it to join again. Actions are proved by
what they do at the relay (`Joined`, `Sent`, `Left`, `Takes`), `Fails` being the session that
ends. Theorems: `TypeCorrect`, `TurnedAwayIsLeftAlone`.

**DeliveryProofs.** `Acknowledged` says that every acknowledgement on its way - in `acks`, in a
session's answer, in the result of a thread - is of a message that was stored or dismissed, and
that a stored one never stops being so; a frame lost or a process that dies only takes some
away. Hence `SentMeansStored`; `UserDecides` is a step property of the writes. For
`OnePopupEach`, `ShownOnce` counts popups and threads about to show together (`Due`): at most
one more than the user's deletions, and not even that while the message is not stored. What the
thread of the current connection may rely on after it has looked is `Allows`; a thread that lost
its connection shows nothing, which is why the check after the write is needed. There are two
connections, used again and again, as in the run: one that ends while another begins.

**SelfHostedProofs.** `Durable`: memory and file agree while nobody holds the mutex, a handler
that compares or answers does so with an account on disk (`Sound`), and so does every token.
Hence `TokensAreDurable`. For the order of messages, a message is in one lane, the line of a
socket (received, then in its channel) or the queue of a pair, and each lane rises (`Ordered`).
Every step makes the lanes pieces of the old ones, or adds a message newer than all (`Piece`,
`NeatMoves`): an attach moves a queue behind an empty line, a route appends, a replacement
leaves things where they are. Hence `InOrder`. `QueueAccounts` follows each message of a queue
through one step (`Accounted`).

Only model-checked: every liveness property (`DeadlinesEnforced`, `ReplacedEnds`, `StartEnds`,
`PickIsHeard`, `AutomaticMeets`, `Delivered`), since the prover does not treat fairness and
ENABLED. Every invariant and action property of the passing runs is proved. `ConfirmationsSaved`
is proved and no run repeats it.

## 5. What the checks found

Two runs keep a counterexample:

- **A pick is abandoned** (PickAbandoned, `relay_client.rs:158`). With automatic reconnection
  off, the request of a pick counts as honoured when the relay socket opens. If the phone asks
  its own user and the answer takes more than the thirty seconds of the handshake, the session
  fails, the PC leaves the relay and parks; when the user then accepts, the PC, which said
  "Waiting for your phone to accept", is not there.
- **Connected and disconnected at once** (PhoneRestarted, `WebSocketClient.kt:445`). AUTH_OK
  ends a manual disconnect only where the copy in memory is set; after a death of the process
  that copy is false and the one on disk true, so a session that is let in leaves the
  disconnect standing: pending rows are not flushed by the supervisor and a lost socket is not
  dialed again.

Others were met while modelling and no run repeats them. The steps are in the modules.

- A disconnect can be overtaken (`ws_server.rs:329`): a connection task past `may_attach` goes
  on to approve and attach its phone without looking at `paused` again. `DisconnectHolds`
  therefore speaks of a disconnect made while nobody was authenticating.
- A retired code can come back to memory (`state.rs:461`): `clear_pairing_session` empties the
  memory and then the disk, and whoever calls `current_pairing` in between (450-457) reads the
  code from the disk and keeps it in memory. The relay supervisor does so each time it asks
  whether a code is live (`relay_client.rs:68` and 243), and so does a phone that authenticates.
  The phone just let go still holds that code, is admitted with it and lifts the pause.
  `DisconnectHolds` and `DisconnectStands` except exactly a disconnect so overlapped; without the
  exception TLC shows the way in.
- A phone may hold the key of a code that has expired: an automatic PC answers it
  `unknown_pairing`, and the two meet only when the user scans again (`Excused`).
- A loss can be recorded after the reconnect (`ws_server.rs:475`): the grace begins after the
  sender is cleared and the rows are written; a reconnect in between is announced first, and
  the PC shows the live connection as reconnecting.
- The allowance is not for the phone picked (`state.rs:261`): it is a flag, taken by whichever
  saved phone authenticates next.
- Enrollment outlives the code (`relay_client.rs:320`): the armed flag is set with a fresh code
  and cleared by an enrollment, not by expiry. The pair's pre-shared key is still required, and
  `TalksToPinned` holds throughout.
- A scan may go unheard (`SyncEngine.kt:59`): a phone that was turned away and waits at the
  relay stays on its socket when its user scans the code on screen, and so does the PC; nobody
  joins again.
- What was posted in the grace of a rebound listener is counted as handled
  (`NotificationService.kt:66`) although `ListenerWatchdog.kt:50` says nothing is lost.
- A notification deleted on the PC comes back when its row is sent again, because its
  acknowledgement was lost; `OnePopup` allows for it.

- The phone refuses for ever after a death at a bad moment: while the key's record is written
  (`DatabaseKeyStore.kt:127` asks for the files to be preserved, without a way on), while Room
  creates the first schema (version 0 is refused, `EncryptedDatabaseMigrator.kt:52`), and when
  the export left an empty journal of its own: it is allowed at line 113, the rename does not
  move it, and every later start takes it for unexpected staging data (line 47). The comment at
  161 says that Android leaves such journals. `PhoneRefusesOnlyIfBlocked` names the three and
  the theorem says there is no fourth; nothing is lost in any.

What holds but may surprise is in the refusals of DatabaseMigration. `Blocked` lists them: a
crash while the key file is written, between the key and the first database, while a new
database or a candidate is still empty, or between link and unlink leaves files that every
later start refuses, and so does one commit of an older version after a candidate was
written. Nothing is lost in any of them, which is what the code promises
(`encrypted.rs:674-676` still calls the link-and-unlink branch a matter of test fixtures;
`database_key.rs:40-43` admits macOS to it).

## 6. Plan

What is left, in order.

1. Proofs. Every safety property the runs check has one. What is left to prove is how the
   modules rest on each other: that the phone of Reunion is one of PhoneClient, and that its
   relay does only what RelayWorker allows.
2. Heartbeat's clock (`heartbeat.rs`: a healthy peer is not dropped, a dead one is), the
   listener's watchdog, the application inventory and its rules.
3. Operator models of the priority and study-mode rules against a reference definition.

## 7. Not modelled, and why

Cryptography (a capability, a key, a fingerprint is equal or not; a frame verifies where its
transcript says); the JNI registry's limit of handles; HTTP parsing and token
verification (stateless); SQL and SQLite below the level of a committed transaction, page
corruption and power loss below `sync_all` or `fsync`; loss of the phone's wrapping key; two instances of the new program on one database
(the lock file keeps them apart and is taken at its word); an older version that finds the
database missing and creates another one; sidecars of the backup; database errors inside the
user's commands; which posts are news (parsing, rules, the listener's watchdog); when a
heartbeat's deadline passes (Delivery lets it pass at any moment); batches and dismissals, which
the PC handles and the phone never sends; status messages, inventory and application rules; the
user's disconnect in Delivery; provisioning of a relay pair on the PC (`relay_api.rs`) and the
key material of `relay_identity.rs`; the vault lock, the phone's app lock, settings and windows
(single reads and writes); configuration, TLS and metrics of the self-hosted relay; presentation,
logging and diagnostics.
