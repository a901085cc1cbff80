----------------------------- MODULE RelayAccounts -----------------------------
(***************************************************************************)
(* The accounts of the self-hosted relay: the store (account_store.rs),    *)
(* the HTTP handlers that create an account or sign in (main.rs) and the   *)
(* signed tokens they answer with (auth.rs).                               *)
(*                                                                         *)
(* A handler is a task.  register_password and upsert_google_user hold the *)
(* store's mutex over the check, the replacement of the file and the       *)
(* publication in memory, and the process can die between the last two; a  *)
(* task can also be dropped while it waits for the mail or for Google.  An *)
(* e-mail address is in its normal form, a password is long enough, and a  *)
(* one-time code is the number of the request it was mailed for.  Google's *)
(* answer is external: only a verified address goes on.                    *)
(*                                                                         *)
(* A crash ends the process, not the machine: what was renamed is on disk. *)
(* The secret that signs the tokens is configuration and survives it.      *)
(***************************************************************************)
EXTENDS Naturals, FiniteSets

CONSTANTS
  Emails, Passwords,
  Requests,      \* HTTP requests, each used once
  None

VARIABLES
  users,         \* the accounts in memory, by e-mail address
  file,          \* the accounts in the store's file
  lock,          \* the request that holds the store's mutex
  otps,          \* pending_otps
  request,       \* the task of each request
  tokens         \* the accounts that unexpired session tokens name

store       == <<users, file, lock>>
accountVars == <<store, otps, request, tokens>>

\* The identifier of an account is the request that created it; one created through Google
\* has no password.
Account == [id : Requests, password : Passwords \union {None}]
Otp     == [password : Passwords, code : Requests, expired : BOOLEAN]

\* What a task is about to do.
Stages == {"mail", "create", "login", "upsert", "rename", "publish", "compare", "answer"}
Handler == [pc : {"idle", "done"} \union Stages, email : Emails \union {None},
            password : Passwords \union {None}, otp : BOOLEAN,
            account : Account \union {None}]

ASSUME AccountsAssumption == None \notin Requests \union Passwords \union Account \union Otp

\* A handler at work has its address, and the password or the account it is about.
Proper(h) ==
  /\ h \in Handler
  /\ h.pc = "mail" => h.password \in Passwords
  /\ h.pc \in Stages => h.email \in Emails
  /\ h.pc \in {"rename", "publish", "compare", "answer"} => h.account # None

StoreTyped ==
  /\ users \in [Emails -> Account \union {None}] /\ file \in [Emails -> Account \union {None}]
  /\ otps \in [Emails -> Otp \union {None}] /\ tokens \subseteq Requests
HandlersTyped ==
  /\ request \in [Requests -> Handler] /\ lock \in Requests \union {None}
  /\ \A q \in Requests : Proper(request[q]) /\ (lock = q <=> request[q].pc \in {"rename", "publish"})

AccountsTypeOK == StoreTyped /\ HandlersTyped

Fresh == [pc |-> "idle", email |-> None, password |-> None, otp |-> FALSE, account |-> None]

AccountsInit ==
  /\ users = [e \in Emails |-> None] /\ file = users
  /\ lock = None
  /\ otps = [e \in Emails |-> None]
  /\ request = [q \in Requests |-> Fresh]
  /\ tokens = {}

Waits(q, pc) == request[q].pc = pc
Then(q, pc)  == request' = [request EXCEPT ![q].pc = pc]
With(q, pc, a) == request' = [request EXCEPT ![q].pc = pc, ![q].account = a]
Begin(q, pc, e, w) ==
  /\ Waits(q, "idle")
  /\ request' = [request EXCEPT ![q] = [Fresh EXCEPT !.pc = pc, !.email = e, !.password = w]]

-----------------------------------------------------------------------------
(* The store. *)

\* register_password, from the lock to the copy that is to be saved.
Create(q) ==
  /\ Waits(q, "create") /\ lock = None
  /\ LET e == request[q].email IN
     IF users[e] # None
     THEN Then(q, IF request[q].otp THEN "login" ELSE "done") /\ UNCHANGED lock
     ELSE With(q, "rename", [id |-> q, password |-> request[q].password]) /\ lock' = q
  /\ UNCHANGED <<users, file, otps, tokens>>

\* upsert_google_user: an account that exists is taken as it is.
Upsert(q) ==
  /\ Waits(q, "upsert") /\ lock = None
  /\ LET e == request[q].email IN
     IF users[e] # None THEN With(q, "answer", users[e]) /\ UNCHANGED lock
     ELSE With(q, "rename", [id |-> q, password |-> None]) /\ lock' = q
  /\ UNCHANGED <<users, file, otps, tokens>>

\* Mutant of Save: the copy is published before it is on disk.
SaveAfterPublishing(q) ==
  /\ Waits(q, "rename")
  /\ users' = [users EXCEPT ![request[q].email] = request[q].account]
  /\ \/ file' = users' /\ Then(q, "publish") /\ UNCHANGED lock
     \/ Then(q, "done") /\ lock' = None /\ UNCHANGED file
  /\ UNCHANGED <<otps, tokens>>

\* save_locked: a temporary file replaces the store's file in one step, or something fails
\* before that and the request ends with an error.
Save(q) ==
  /\ Waits(q, "rename")
  /\ \/ /\ file' = [users EXCEPT ![request[q].email] = request[q].account]
        /\ Then(q, "publish") /\ UNCHANGED lock
     \/ Then(q, "done") /\ lock' = None /\ UNCHANGED file
  /\ UNCHANGED <<users, otps, tokens>>

\* *data = next, and the mutex is released.
Publish(q) ==
  /\ Waits(q, "publish")
  /\ users' = [users EXCEPT ![request[q].email] = request[q].account]
  /\ lock' = None
  /\ Then(q, "answer")
  /\ UNCHANGED <<file, otps, tokens>>

\* login_password: the account is read under the mutex, the password compared after it.
Login(q) ==
  /\ Waits(q, "login") /\ lock = None
  /\ LET a == users[request[q].email] IN
     IF a = None \/ a.password = None THEN Then(q, "done") ELSE With(q, "compare", a)
  /\ UNCHANGED <<store, otps, tokens>>

Compare(q) ==
  /\ Waits(q, "compare")
  /\ Then(q, IF request[q].account.password = request[q].password THEN "answer" ELSE "done")
  /\ UNCHANGED <<store, otps, tokens>>

-----------------------------------------------------------------------------
(* The handlers. *)

AuthRegister(q, e, w) == Begin(q, "create", e, w) /\ UNCHANGED <<store, otps, tokens>>

AuthLogin(q, e, w) == Begin(q, "login", e, w) /\ UNCHANGED <<store, otps, tokens>>

\* auth_google, once Google has vouched for the address.
AuthGoogle(q, e) == Begin(q, "upsert", e, None) /\ UNCHANGED <<store, otps, tokens>>

AuthOtpStart(q, e, w) == Begin(q, "mail", e, w) /\ UNCHANGED <<store, otps, tokens>>

\* The mail is out, and only now the code is kept, over one that another request mailed.
KeepCode(q) ==
  /\ Waits(q, "mail")
  /\ otps' = [otps EXCEPT ![request[q].email] =
                [password |-> request[q].password, code |-> q, expired |-> FALSE]]
  /\ Then(q, "done")
  /\ UNCHANGED <<store, tokens>>

\* auth_otp_verify: the entry is taken out before anything is compared.
AuthOtpVerify(q, e, w, code) ==
  LET pending == otps[e]
      right   == pending # None /\ ~pending.expired /\ pending.password = w /\ pending.code = code
  IN /\ Waits(q, "idle") /\ pending # None
     /\ request' = [request EXCEPT ![q] =
          IF right THEN [Fresh EXCEPT !.pc = "create", !.email = e, !.password = w, !.otp = TRUE]
          ELSE [Fresh EXCEPT !.pc = "done"]]
     /\ otps' = [otps EXCEPT ![e] = None]
     /\ UNCHANGED <<store, tokens>>

\* auth_response: the answer carries a signed token that names the account.
Answer(q) ==
  /\ Waits(q, "answer")
  /\ tokens' = tokens \union {request[q].account.id}
  /\ Then(q, "done")
  /\ UNCHANGED <<store, otps>>

\* The mail or Google does not answer, or the client goes away while its handler awaits.
Abandon(q) ==
  /\ Waits(q, "mail")
  /\ Then(q, "done")
  /\ UNCHANGED <<store, otps, tokens>>

-----------------------------------------------------------------------------
(* Time, and the death of the process. *)

OtpExpires(e) ==
  /\ otps[e] # None /\ ~otps[e].expired
  /\ otps' = [otps EXCEPT ![e].expired = TRUE]
  /\ UNCHANGED <<store, request, tokens>>

TokenExpires ==
  /\ \E id \in tokens : tokens' = tokens \ {id}
  /\ UNCHANGED <<store, otps, request>>

\* AccountStore::load reads the file back.
RestartAccounts ==
  /\ users' = file /\ lock' = None
  /\ otps' = [e \in Emails |-> None]
  /\ request' = [q \in Requests |-> IF Waits(q, "idle") THEN Fresh ELSE [Fresh EXCEPT !.pc = "done"]]
  /\ UNCHANGED <<file, tokens>>

\* authenticate_bearer, of the handler that registers a pair: some token still verifies.
Authenticated == tokens # {}

AccountsNext ==
  \/ \E q \in Requests :
       \/ Create(q) \/ Upsert(q) \/ Save(q) \/ Publish(q) \/ Login(q) \/ Compare(q)
       \/ KeepCode(q) \/ Answer(q) \/ Abandon(q)
       \/ \E e \in Emails :
            \/ AuthGoogle(q, e)
            \/ \E w \in Passwords :
                 \/ AuthRegister(q, e, w) \/ AuthLogin(q, e, w) \/ AuthOtpStart(q, e, w)
                 \/ \E code \in Requests : AuthOtpVerify(q, e, w, code)
  \/ \E e \in Emails : OtpExpires(e)
  \/ TokenExpires

-----------------------------------------------------------------------------
(* Properties. *)

\* A session token names an account that is on disk, so it still names one after a crash at
\* any point and whoever registers the same address at the same time; and memory is never
\* ahead of the file nor, outside the mutex, behind it.  (register_password,
\* upsert_google_user, account_store.rs:55-133)
TokensOutliveCrashes ==
  /\ \A id \in tokens : \E e \in Emails : file[e] # None /\ file[e].id = id
  /\ \A e \in Emails : users[e] # None => file[e] = users[e]
  /\ lock = None => users = file

=============================================================================
