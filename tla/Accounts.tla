------------------------------ MODULE Accounts ------------------------------
(***************************************************************************)
(* Accounts and their tokens: POST /users, POST /login, PATCH /me/password *)
(* and any other authenticated route.                                      *)
(*                                                                         *)
(* A token is stateless: it carries the authVersion of its account, which  *)
(* every change of password increments, and a request that presents it is  *)
(* admitted while the two are equal.  A token is named here by the request *)
(* whose login issued it.  An account is named by its e-mail: the column   *)
(* is unique and no code of this program deletes a user or edits an        *)
(* e-mail, so the identifier in a token's subject names the same row.      *)
(*                                                                         *)
(* Each request awaits the database between its reads and its writes, and  *)
(* is one process here: a step is what happens between two such awaits.    *)
(* Hashing and signing read nothing shared, so they belong to the step     *)
(* before or after them.                                                   *)
(***************************************************************************)
EXTENDS Naturals, FiniteSets

CONSTANTS
  Emails,
  Passwords,
  Requests,          \* every request a history may hold
  InitialAccounts,   \* the accounts registered before: see AccountsAssumption
  Absent

VARIABLES
  accounts,  \* e-mail -> [hash, authVersion], or Absent: the table "users"
  pc,        \* request -> where its handler is, or how it was answered
  job,       \* request -> what it asks for
  seen,      \* request -> the row its last findByEmail or findById returned
  issued,    \* request -> the token its login answered with
  updated,   \* request -> the row its UPDATE returned
  audits     \* the rows of the audit log about passwords
vars == <<accounts, pc, job, seen, issued, updated, audits>>

-----------------------------------------------------------------------------
(* argon2: a hash verifies the one password it was made of.                *)

Hash(password) == [argon2id |-> password]
CompareHash(password, hash) == hash = Hash(password)

Account == [hash : {Hash(p) : p \in Passwords}, authVersion : Nat \ {0}]
Token == [account : Emails, authVersion : Nat \ {0}]

Registrations ==
  [kind : {"register"}, email : Emails, password : Passwords, invited : BOOLEAN]
Logins == [kind : {"login"}, email : Emails, password : Passwords]
Changes ==
  [kind : {"change"}, token : Requests, password : Passwords, newPassword : Passwords]
Calls == [kind : {"call"}, token : Requests]
Jobs == Registrations \cup Logins \cup Changes \cup Calls

Working == {"arrived", "creating", "comparing", "finding", "verifying",
            "updating", "auditing"}
Answered == {"created", "conflict", "loggedIn", "admitted", "changed",
             "same", "refused", "failed"}

ASSUME AccountsAssumption ==
  /\ Absent \notin Account \cup Token \cup Jobs
  /\ InitialAccounts \in [Emails -> Account \cup {Absent}]
  /\ \A e \in Emails : InitialAccounts[e] # Absent => InitialAccounts[e].authVersion = 1

-----------------------------------------------------------------------------
Init ==
  /\ accounts = InitialAccounts
  /\ pc = [r \in Requests |-> "idle"]
  /\ job = [r \in Requests |-> Absent]
  /\ seen = [r \in Requests |-> Absent]
  /\ issued = [r \in Requests |-> Absent]
  /\ updated = [r \in Requests |-> Absent]
  /\ audits = {}

At(r, kind, from) == pc[r] = from /\ job[r].kind = kind

Goes(r, to) == pc' = [pc EXCEPT ![r] = to]

\* A client sends a request; a token it presents was issued before.
Arrive(r) ==
  /\ pc[r] = "idle"
  /\ \E j \in Jobs :
       /\ j.kind \in {"change", "call"} => issued[j.token] # Absent
       /\ job' = [job EXCEPT ![r] = j]
  /\ Goes(r, "arrived")
  /\ UNCHANGED <<accounts, seen, issued, updated, audits>>

\* RegisterUserUseCase up to its first answer: the invite, then findByEmail.
LookUp(r) ==
  /\ At(r, "register", "arrived")
  /\ Goes(r, CASE ~job[r].invited -> "refused"
               [] job[r].invited /\ accounts[job[r].email] # Absent -> "conflict"
               [] OTHER -> "creating")
  /\ UNCHANGED <<accounts, job, seen, issued, updated, audits>>

\* create: one INSERT, which the unique column lets through if the e-mail is free.
Insert(r) ==
  /\ At(r, "register", "creating")
  /\ accounts[job[r].email] = Absent
  /\ accounts' = [accounts EXCEPT ![job[r].email] = [hash |-> Hash(job[r].password),
                                                    authVersion |-> 1]]
  /\ UNCHANGED <<job, seen, issued, updated, audits>>

Create(r) == Insert(r) /\ Goes(r, "created")

\* The row was inserted but the answer never arrived: the request fails.
CreateUnanswered(r) == Insert(r) /\ Goes(r, "failed")

\* The unique column turns a second row into a 409.
EmailTaken(r) ==
  /\ At(r, "register", "creating")
  /\ accounts[job[r].email] # Absent
  /\ Goes(r, "conflict")
  /\ UNCHANGED <<accounts, job, seen, issued, updated, audits>>

\* LoginUseCase: the row, hash and authVersion together, is read once.
FindByEmail(r) ==
  /\ At(r, "login", "arrived")
  /\ seen' = [seen EXCEPT ![r] = accounts[job[r].email]]
  /\ Goes(r, IF accounts[job[r].email] = Absent THEN "refused" ELSE "comparing")
  /\ UNCHANGED <<accounts, job, issued, updated, audits>>

\* The version read again when the token is signed.
IssueToken_FaultyFreshVersion(r) ==
  /\ At(r, "login", "comparing")
  /\ IF CompareHash(job[r].password, seen[r].hash)
     THEN /\ issued' = [issued EXCEPT ![r] =
                         [account |-> job[r].email,
                          authVersion |-> accounts[job[r].email].authVersion]]
          /\ Goes(r, "loggedIn")
     ELSE /\ Goes(r, "refused")
          /\ UNCHANGED issued
  /\ UNCHANGED <<accounts, job, seen, updated, audits>>

\* The token carries the authVersion of the row whose hash was compared.
IssueToken(r) ==
  /\ At(r, "login", "comparing")
  /\ IF CompareHash(job[r].password, seen[r].hash)
     THEN /\ issued' = [issued EXCEPT ![r] = [account |-> job[r].email,
                                              authVersion |-> seen[r].authVersion]]
          /\ Goes(r, "loggedIn")
     ELSE /\ Goes(r, "refused")
          /\ UNCHANGED issued
  /\ UNCHANGED <<accounts, job, seen, updated, audits>>

Presented(r) == issued[job[r].token]
OwnEmail(r) == Presented(r).account

\* Without the comparison of versions.
Current_FaultyAnyVersion(r) == accounts[OwnEmail(r)] # Absent

\* ensureAuthenticated: verifyToken, then findById and the two versions.
Current(r) ==
  /\ accounts[OwnEmail(r)] # Absent
  /\ accounts[OwnEmail(r)].authVersion = Presented(r).authVersion

Authenticate(r) ==
  /\ pc[r] = "arrived"
  /\ job[r].kind \in {"change", "call"}
  /\ \/ /\ Current(r)
        /\ Goes(r, IF job[r].kind = "call" THEN "admitted" ELSE "finding")
     \/ /\ ~Current(r)
        /\ Goes(r, "refused")
  /\ UNCHANGED <<accounts, job, seen, issued, updated, audits>>

\* A token issued more than a day ago does not verify, whatever it carries; a
\* findById that fails is answered with the same 401.
TokenExpired(r) ==
  /\ pc[r] = "arrived"
  /\ job[r].kind \in {"change", "call"}
  /\ Goes(r, "refused")
  /\ UNCHANGED <<accounts, job, seen, issued, updated, audits>>

\* ChangePasswordUseCase reads the row again.
FindById(r) ==
  /\ At(r, "change", "finding")
  /\ seen' = [seen EXCEPT ![r] = accounts[OwnEmail(r)]]
  /\ Goes(r, IF accounts[OwnEmail(r)] = Absent THEN "refused" ELSE "verifying")
  /\ UNCHANGED <<accounts, job, issued, updated, audits>>

\* Both passwords are compared with the hash of the row read.
VerifyPasswords(r) ==
  /\ At(r, "change", "verifying")
  /\ Goes(r, CASE ~CompareHash(job[r].password, seen[r].hash) -> "refused"
               [] /\ CompareHash(job[r].password, seen[r].hash)
                  /\ CompareHash(job[r].newPassword, seen[r].hash) -> "same"
               [] OTHER -> "updating")
  /\ UNCHANGED <<accounts, job, seen, issued, updated, audits>>

\* The next version computed from the row read, not by the database.
Replacement_FaultyFromRead(r) ==
  [hash |-> Hash(job[r].newPassword), authVersion |-> seen[r].authVersion + 1]

\* updatePassword: one UPDATE by identifier, whatever the row holds by now.
Replacement(r) ==
  [hash |-> Hash(job[r].newPassword), authVersion |-> accounts[OwnEmail(r)].authVersion + 1]

Write(r) ==
  /\ At(r, "change", "updating")
  /\ accounts' = [accounts EXCEPT ![OwnEmail(r)] = Replacement(r)]
  /\ updated' = [updated EXCEPT ![r] = Replacement(r)]
  /\ UNCHANGED <<job, seen, issued, audits>>

UpdatePassword(r) == Write(r) /\ Goes(r, "auditing")

\* The update took effect but its answer never arrived: the request fails.
UpdateUnanswered(r) == Write(r) /\ Goes(r, "failed")

\* The event names the version read at first and the version written; an
\* audit log that cannot be written does not fail the change.
Event(r) ==
  [account |-> OwnEmail(r), previous |-> seen[r].authVersion, new |-> updated[r].authVersion]

Audit(r) ==
  /\ At(r, "change", "auditing")
  /\ audits' \in {audits, audits \cup {Event(r)}}
  /\ Goes(r, "changed")
  /\ UNCHANGED <<accounts, job, seen, issued, updated>>

\* A statement fails, or the process that serves the request dies: the request
\* keeps nothing in memory that another request reads.
StatementFails(r) ==
  /\ pc[r] \in Working
  /\ Goes(r, "failed")
  /\ UNCHANGED <<accounts, job, seen, issued, updated, audits>>

Register(r) == LookUp(r) \/ Create(r) \/ CreateUnanswered(r) \/ EmailTaken(r)
Login(r) == FindByEmail(r) \/ IssueToken(r)
Change(r) == FindById(r) \/ VerifyPasswords(r) \/ UpdatePassword(r)
             \/ UpdateUnanswered(r) \/ Audit(r)

Next ==
  \E r \in Requests :
    \/ Arrive(r)
    \/ Register(r)
    \/ Login(r)
    \/ Authenticate(r)
    \/ TokenExpired(r)
    \/ Change(r)
    \/ StatementFails(r)

Spec == Init /\ [][Next]_vars

-----------------------------------------------------------------------------
TypeOK ==
  /\ accounts \in [Emails -> Account \cup {Absent}]
  /\ pc \in [Requests -> {"idle"} \cup Working \cup Answered]
  /\ job \in [Requests -> Jobs \cup {Absent}]
  /\ seen \in [Requests -> Account \cup {Absent}]
  /\ issued \in [Requests -> Token \cup {Absent}]
  /\ updated \in [Requests -> Account \cup {Absent}]
  /\ audits \subseteq [account : Emails, previous : Nat, new : Nat]

\* A request is admitted only on a token whose login gave the password the
\* account has at that moment: whatever logins and changes overlap, no token
\* outlives the password it was obtained with (ensure-authenticated.ts, the
\* comparison of versions; login.use-case.ts, hash and version of one read;
\* prisma-user.repository.ts, hash and version of one write).
AdmittedOnCurrentPassword ==
  [][\A r \in Requests :
       pc[r] = "arrived" /\ pc'[r] \in {"admitted", "finding"} =>
         CompareHash(job[job[r].token].password, accounts[OwnEmail(r)].hash)]_vars

\* The changes of an account and its versions correspond: each change wrote a
\* version no other wrote, none was skipped, and the password in force is the
\* one the change that wrote the current version asked for.  A lost increment
\* would leave an old token alive (updatePassword).
ChangesOf(e) == {r \in Requests : updated[r] # Absent /\ OwnEmail(r) = e}

VersionsNameChanges ==
  \A e \in Emails : accounts[e] # Absent =>
    /\ accounts[e].authVersion = 1 + Cardinality(ChangesOf(e))
    /\ {updated[r].authVersion : r \in ChangesOf(e)} = 2 .. accounts[e].authVersion
    /\ \A r \in ChangesOf(e) : updated[r].authVersion = accounts[e].authVersion =>
         CompareHash(job[r].newPassword, accounts[e].hash)

\* An e-mail is registered once: two overlapping registrations that both found
\* it free do not both answer 201 (the unique column behind create).
RegisteredOnce ==
  \A r, s \in Requests :
    /\ pc[r] = "created" /\ pc[s] = "created" /\ job[r].email = job[s].email
    => r = s

\* An account's password changes only at the hands of a request whose login
\* and whose current password were both verified against versions the account
\* had: neither the token nor the verified row is newer than what it replaces,
\* and the password given was the one of the row verified.
ChangedByVerified ==
  \A r \in Requests : updated[r] # Absent =>
    /\ Presented(r).authVersion <= seen[r].authVersion
    /\ seen[r].authVersion < updated[r].authVersion
    /\ CompareHash(job[r].password, seen[r].hash)
    /\ ~CompareHash(job[r].newPassword, seen[r].hash)

\* The inductive invariant behind the last two properties and the admission:
\* what a login read or signed still vouches for the account (it is of an
\* earlier version, or the password has not changed since), and so does what a
\* change of password read before it writes.
Vouches(e, version, hash) ==
  /\ accounts[e] # Absent
  /\ version <= accounts[e].authVersion
  /\ version = accounts[e].authVersion => hash = accounts[e].hash

JobsKept ==
  \A r \in Requests : pc[r] # "idle" =>
    /\ job[r] # Absent
    /\ job[r].kind \in {"change", "call"} => issued[job[r].token] # Absent

TokensVouched ==
  \A r \in Requests : issued[r] # Absent =>
    /\ At(r, "login", "loggedIn")
    /\ Vouches(issued[r].account, issued[r].authVersion, Hash(job[r].password))

ReadsVouched ==
  \A r \in Requests : At(r, "login", "comparing") =>
    seen[r] # Absent /\ Vouches(job[r].email, seen[r].authVersion, seen[r].hash)

RegisteredPresent ==
  \A r \in Requests : pc[r] = "created" =>
    job[r].kind = "register" /\ accounts[job[r].email] # Absent

ChangesTraced ==
  \A r \in Requests :
    /\ At(r, "change", "verifying") \/ At(r, "change", "updating") =>
         /\ seen[r] # Absent
         /\ Presented(r).authVersion <= seen[r].authVersion
         /\ Vouches(OwnEmail(r), seen[r].authVersion, seen[r].hash)
    /\ At(r, "change", "updating") =>
         /\ CompareHash(job[r].password, seen[r].hash)
         /\ ~CompareHash(job[r].newPassword, seen[r].hash)
    /\ At(r, "change", "auditing") => updated[r] # Absent
    /\ updated[r] # Absent =>
         /\ job[r].kind = "change" /\ pc[r] \in {"auditing", "changed", "failed"}
         /\ seen[r] # Absent

AccountsInv ==
  /\ TypeOK
  /\ JobsKept
  /\ TokensVouched
  /\ ReadsVouched
  /\ RegisteredPresent /\ RegisteredOnce
  /\ ChangesTraced /\ ChangedByVerified
=============================================================================
