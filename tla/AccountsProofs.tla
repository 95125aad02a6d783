--------------------------- MODULE AccountsProofs ---------------------------
(***************************************************************************)
(* Proofs about Accounts for any e-mails, passwords and requests.          *)
(***************************************************************************)
EXTENDS BrowserTab, FiniteSetTheorems, TLAPS

\* What a request that is being served asks for, by its kind.
LEMMA JobKinds ==
  ASSUME TypeOK, JobsKept, NEW r \in Requests, pc[r] # "idle"
  PROVE  /\ job[r] \in Jobs
         /\ job[r].kind = "register" => job[r] \in Registrations
         /\ job[r].kind = "login" => job[r] \in Logins
         /\ job[r].kind = "change" => job[r] \in Changes
         /\ job[r].kind = "call" => job[r] \in Calls
<1>1. job[r] \in Jobs
  BY DEF TypeOK, JobsKept
<1> QED BY <1>1 DEF Jobs, Registrations, Logins, Changes, Calls

\* The token a request presents was issued, for one of the accounts.
LEMMA PresentedToken ==
  ASSUME TypeOK, JobsKept, NEW r \in Requests, pc[r] # "idle",
         job[r].kind \in {"change", "call"}
  PROVE  /\ job[r].token \in Requests
         /\ Presented(r) \in Token
         /\ OwnEmail(r) \in Emails
<1>1. job[r].token \in Requests
  BY JobKinds DEF Changes, Calls
<1>2. Presented(r) \in Token
  BY <1>1 DEF TypeOK, JobsKept, Presented
<1> QED BY <1>1, <1>2 DEF OwnEmail, Token

\* Once issued, a token is what it was, and once a request is under way it asks
\* for what it asked for.
LEMMA JobStays ==
  ASSUME AccountsInv, [Next]_vars, NEW r \in Requests, pc[r] # "idle"
  PROVE  job'[r] = job[r] /\ pc'[r] # "idle"
<1> USE DEF AccountsInv, TypeOK
<1>1. CASE UNCHANGED vars
  BY <1>1 DEF vars
<1>2. CASE Next
  BY <1>2 DEF Next, Arrive, Register, LookUp, Create, CreateUnanswered, EmailTaken, Insert,
     Login, FindByEmail, IssueToken, Authenticate, TokenExpired, Change, FindById,
     VerifyPasswords, UpdatePassword, UpdateUnanswered, Write, Audit, StatementFails, Goes, At,
     Working
<1> QED BY <1>1, <1>2

\* A token issued stays as it was issued.
LEMMA TokenStays ==
  ASSUME AccountsInv, [Next]_vars, NEW r \in Requests, issued[r] # Absent
  PROVE  issued'[r] = issued[r]
<1> USE DEF AccountsInv, TypeOK, TokensVouched
<1>1. CASE UNCHANGED vars
  BY <1>1 DEF vars
<1>2. CASE Next
  BY <1>2 DEF Next, Arrive, Register, LookUp, Create, CreateUnanswered, EmailTaken, Insert,
     Login, FindByEmail, IssueToken, Authenticate, TokenExpired, Change, FindById,
     VerifyPasswords, UpdatePassword, UpdateUnanswered, Write, Audit, StatementFails, Goes, At
<1> QED BY <1>1, <1>2

\* What a write makes of an account: one version more, and the password asked.
LEMMA WriteEffect ==
  ASSUME AccountsInv, NEW r \in Requests, Write(r)
  PROVE  /\ OwnEmail(r) \in Emails
         /\ accounts[OwnEmail(r)] \in Account
         /\ Replacement(r) \in Account
         /\ Replacement(r).authVersion = accounts[OwnEmail(r)].authVersion + 1
         /\ accounts' = [accounts EXCEPT ![OwnEmail(r)] = Replacement(r)]
<1>1. At(r, "change", "updating") /\ pc[r] # "idle"
  BY DEF Write, At
<1>2. OwnEmail(r) \in Emails /\ job[r] \in Changes
  BY <1>1, JobKinds, PresentedToken DEF AccountsInv, At
<1>3. accounts[OwnEmail(r)] \in Account
  BY <1>1, <1>2 DEF AccountsInv, ChangesTraced, Vouches, TypeOK
<1>4. Replacement(r) \in Account
  BY <1>2, <1>3 DEF Replacement, Account, Changes
<1> QED BY <1>2, <1>3, <1>4 DEF Write, Replacement

\* An account, once present, stays and its version never goes back.
LEMMA VouchesStay ==
  ASSUME AccountsInv, [Next]_vars, NEW e \in Emails, NEW version \in Nat, NEW hash,
         Vouches(e, version, hash)
  PROVE  Vouches(e, version, hash)'
<1> USE DEF Vouches
<1>1. CASE UNCHANGED accounts
  BY <1>1
<1>2. ASSUME NEW r \in Requests, Insert(r)
      PROVE  Vouches(e, version, hash)'
  BY <1>2 DEF Insert, AccountsInv, TypeOK
<1>3. ASSUME NEW r \in Requests, Write(r)
      PROVE  Vouches(e, version, hash)'
  <2>1. CASE e = OwnEmail(r)
    <3>1. accounts'[e] = Replacement(r)
      BY <2>1, <1>3, WriteEffect DEF AccountsInv, TypeOK
    <3>2. /\ accounts[e].authVersion \in Nat
          /\ Replacement(r).authVersion = accounts[e].authVersion + 1
          /\ Replacement(r) # Absent
      BY <2>1, <1>3, WriteEffect, AccountsAssumption DEF Account
    <3> QED BY <3>1, <3>2
  <2>2. CASE e # OwnEmail(r)
    BY <2>2, <1>3, WriteEffect DEF AccountsInv, TypeOK
  <2> QED BY <2>1, <2>2
<1> QED
  BY <1>1, <1>2, <1>3 DEF Next, vars, Arrive, Register, LookUp, Create,
     CreateUnanswered, EmailTaken, Login, FindByEmail, IssueToken, Authenticate,
     TokenExpired, Change, FindById, VerifyPasswords, UpdatePassword, UpdateUnanswered, Audit, StatementFails

-----------------------------------------------------------------------------
(* The invariant.                                                          *)

\* The accounts registered before satisfy the invariant.
LEMMA InvInit == Init => AccountsInv
BY AccountsAssumption DEF Init, AccountsInv, TypeOK, JobsKept, TokensVouched, ReadsVouched,
   RegisteredPresent, RegisteredOnce, ChangesTraced, ChangedByVerified, At

\* Every step leaves the state well typed.
LEMMA TypeStep ==
  ASSUME AccountsInv, [Next]_vars
  PROVE  TypeOK'
<1> USE DEF Goes, Working, Answered
<1>0. TypeOK /\ JobsKept
  BY DEF AccountsInv
<1>1. CASE UNCHANGED vars
  BY <1>0, <1>1 DEF vars, TypeOK
<1>2. ASSUME NEW r \in Requests, Arrive(r)
      PROVE  TypeOK'
  BY <1>0, <1>2 DEF Arrive, TypeOK
<1>3. ASSUME NEW r \in Requests, Register(r)
      PROVE  TypeOK'
  <2>1. CASE LookUp(r)
    BY <1>0, <2>1 DEF LookUp, TypeOK
  <2>2. CASE Create(r) \/ CreateUnanswered(r)
    <3>1. job[r] \in Registrations
      BY <1>0, <2>2, JobKinds DEF Create, CreateUnanswered, Insert, At
    <3>2. [hash |-> Hash(job[r].password), authVersion |-> 1] \in Account
      BY <3>1 DEF Registrations, Account
    <3> QED BY <1>0, <2>2, <3>2 DEF Create, CreateUnanswered, Insert, TypeOK
  <2>3. CASE EmailTaken(r)
    BY <1>0, <2>3 DEF EmailTaken, TypeOK
  <2> QED BY <1>3, <2>1, <2>2, <2>3 DEF Register
<1>4. ASSUME NEW r \in Requests, Login(r)
      PROVE  TypeOK'
  <2>1. pc[r] # "idle" /\ job[r] \in Logins
    BY <1>0, <1>4, JobKinds DEF Login, FindByEmail, IssueToken, At
  <2>2. CASE FindByEmail(r)
    BY <1>0, <2>1, <2>2 DEF FindByEmail, TypeOK, Logins
  <2>3. CASE IssueToken(r)
    <3>1. [account |-> job[r].email, authVersion |-> seen[r].authVersion] \in Token
      BY <1>0, <2>1, <2>3 DEF IssueToken, AccountsInv, ReadsVouched, TypeOK, Account, Token,
         Logins
    <3> QED BY <1>0, <2>3, <3>1 DEF IssueToken, TypeOK
  <2> QED BY <1>4, <2>2, <2>3 DEF Login
<1>5. ASSUME NEW r \in Requests, Authenticate(r) \/ TokenExpired(r) \/ StatementFails(r)
      PROVE  TypeOK'
  BY <1>0, <1>5 DEF Authenticate, TokenExpired, StatementFails, TypeOK
<1>6. ASSUME NEW r \in Requests, Change(r)
      PROVE  TypeOK'
  <2>1. CASE FindById(r)
    <3>1. OwnEmail(r) \in Emails
      BY <1>0, <2>1, PresentedToken DEF FindById, At
    <3> QED BY <1>0, <2>1, <3>1 DEF FindById, TypeOK
  <2>2. CASE VerifyPasswords(r)
    BY <1>0, <2>2 DEF VerifyPasswords, TypeOK
  <2>3. CASE UpdatePassword(r) \/ UpdateUnanswered(r)
    <3>1. Write(r)
      BY <2>3 DEF UpdatePassword, UpdateUnanswered
    <3>2. accounts' \in [Emails -> Account \cup {Absent}]
      BY <1>0, <3>1, WriteEffect DEF TypeOK
    <3>3. updated' \in [Requests -> Account \cup {Absent}]
      BY <1>0, <3>1, WriteEffect DEF Write, TypeOK
    <3> QED BY <1>0, <2>3, <3>1, <3>2, <3>3 DEF UpdatePassword, UpdateUnanswered, Write, TypeOK
  <2>4. CASE Audit(r)
    <3>1. OwnEmail(r) \in Emails
      BY <1>0, <2>4, PresentedToken DEF Audit, At
    <3>2. seen[r] \in Account /\ updated[r] \in Account
      BY <1>0, <2>4 DEF Audit, At, AccountsInv, ChangesTraced, TypeOK
    <3>3. Event(r) \in [account : Emails, previous : Nat, new : Nat]
      BY <3>1, <3>2 DEF Event, Account
    <3> QED BY <1>0, <2>4, <3>3 DEF Audit, TypeOK
  <2> QED BY <1>6, <2>1, <2>2, <2>3, <2>4 DEF Change
<1> QED BY <1>1, <1>2, <1>3, <1>4, <1>5, <1>6 DEF Next

\* A request under way keeps what it asks for, and a token it presents stays issued.
LEMMA JobsStep ==
  ASSUME AccountsInv, [Next]_vars
  PROVE  JobsKept'
<1> SUFFICES ASSUME NEW r \in Requests, pc'[r] # "idle"
             PROVE  /\ job'[r] # Absent
                    /\ job'[r].kind \in {"change", "call"} => issued'[job'[r].token] # Absent
  BY DEF JobsKept
<1>1. TypeOK /\ JobsKept
  BY DEF AccountsInv
<1>2. CASE pc[r] # "idle"
  <2>1. job'[r] = job[r] /\ job[r] # Absent
    BY <1>1, <1>2, JobStays DEF JobsKept
  <2>2. CASE job[r].kind \in {"change", "call"}
    <3>1. job[r].token \in Requests /\ issued[job[r].token] # Absent
      BY <1>1, <1>2, <2>2, PresentedToken DEF JobsKept
    <3> QED BY <2>1, <3>1, TokenStays
  <2> QED BY <2>1, <2>2
<1>3. CASE pc[r] = "idle"
  <2>1. Arrive(r)
    BY <1>1, <1>3 DEF Next, vars, TypeOK, Arrive, Register, LookUp, Create, CreateUnanswered,
       EmailTaken, Insert, Login, FindByEmail, IssueToken, Authenticate, TokenExpired, Change,
       FindById, VerifyPasswords, UpdatePassword, UpdateUnanswered, Write, Audit,
       StatementFails, Goes, At, Working
  <2> QED BY <1>1, <2>1, AccountsAssumption DEF Arrive, TypeOK
<1> QED BY <1>2, <1>3

\* A request whose handler is, and stays, in one place did nothing: what it read
\* and wrote is what it was.
LEMMA WaitingStays ==
  ASSUME AccountsInv, [Next]_vars, NEW r \in Requests,
         pc[r] \notin {"idle", "updating"}, pc'[r] = pc[r]
  PROVE  seen'[r] = seen[r] /\ issued'[r] = issued[r] /\ updated'[r] = updated[r]
<1> USE DEF AccountsInv, TypeOK
<1>1. CASE UNCHANGED vars
  BY <1>1 DEF vars
<1>2. CASE Next
  BY <1>2 DEF Next, Arrive, Register, LookUp, Create, CreateUnanswered, EmailTaken, Insert,
     Login, FindByEmail, IssueToken, Authenticate, TokenExpired, Change, FindById,
     VerifyPasswords, UpdatePassword, UpdateUnanswered, Write, Audit, StatementFails, Goes, At,
     Working
<1> QED BY <1>1, <1>2

\* Tokens go on vouching for their accounts.
LEMMA TokensStep ==
  ASSUME AccountsInv, [Next]_vars
  PROVE  TokensVouched'
<1> SUFFICES ASSUME NEW r \in Requests, issued'[r] # Absent
             PROVE  /\ At(r, "login", "loggedIn")'
                    /\ Vouches(issued[r].account, issued[r].authVersion,
                               Hash(job[r].password))'
  BY DEF TokensVouched
<1>1. TypeOK /\ JobsKept
  BY DEF AccountsInv
<1>2. CASE issued[r] # Absent
  <2>1. /\ At(r, "login", "loggedIn")
        /\ Vouches(issued[r].account, issued[r].authVersion, Hash(job[r].password))
    BY <1>2 DEF AccountsInv, TokensVouched
  <2>2. issued'[r] = issued[r] /\ job'[r] = job[r]
    BY <1>2, <2>1, JobStays, TokenStays DEF At
  <2>3. issued[r].account \in Emails /\ issued[r].authVersion \in Nat
    BY <1>1, <1>2 DEF TypeOK, Token
  <2>4. Vouches(issued[r].account, issued[r].authVersion, Hash(job[r].password))'
    BY <2>1, <2>2, <2>3, VouchesStay DEF Vouches, Hash
  <2>5. pc'[r] = "loggedIn"
    BY <1>1, <2>1 DEF Next, vars, TypeOK, Arrive, Register, LookUp, Create, CreateUnanswered,
       EmailTaken, Insert, Login, FindByEmail, IssueToken, Authenticate, TokenExpired, Change,
       FindById, VerifyPasswords, UpdatePassword, UpdateUnanswered, Write, Audit,
       StatementFails, Goes, At, Working
  <2> QED BY <2>1, <2>2, <2>4, <2>5 DEF At
<1>3. CASE issued[r] = Absent
  <2>1. IssueToken(r)
    BY <1>1, <1>3 DEF Next, vars, TypeOK, Arrive, Register, LookUp, Create, CreateUnanswered,
       EmailTaken, Insert, Login, FindByEmail, IssueToken, Authenticate, TokenExpired, Change,
       FindById, VerifyPasswords, UpdatePassword, UpdateUnanswered, Write, Audit, StatementFails
  <2>2. CompareHash(job[r].password, seen[r].hash)
    BY <1>3, <2>1 DEF IssueToken
  <2>3. Vouches(job[r].email, seen[r].authVersion, seen[r].hash)
    BY <2>1 DEF IssueToken, AccountsInv, ReadsVouched
  <2>4. issued'[r] = [account |-> job[r].email, authVersion |-> seen[r].authVersion]
    BY <1>1, <2>1, <2>2 DEF IssueToken, TypeOK
  <2>5. At(r, "login", "loggedIn")'
    BY <1>1, <2>1, <2>2 DEF IssueToken, Goes, At, TypeOK
  <2>6. accounts' = accounts /\ job' = job
    BY <2>1 DEF IssueToken
  <2> QED BY <2>2, <2>3, <2>4, <2>5, <2>6 DEF Vouches, CompareHash
<1> QED BY <1>2, <1>3

\* What a login has read goes on vouching for its account.
LEMMA ReadsStep ==
  ASSUME AccountsInv, [Next]_vars
  PROVE  ReadsVouched'
<1> SUFFICES ASSUME NEW r \in Requests, At(r, "login", "comparing")'
             PROVE  /\ seen'[r] # Absent
                    /\ Vouches(job[r].email, seen[r].authVersion, seen[r].hash)'
  BY DEF ReadsVouched
<1>1. TypeOK /\ JobsKept
  BY DEF AccountsInv
<1>2. CASE pc[r] = "comparing"
  <2>1. job'[r] = job[r] /\ seen'[r] = seen[r]
    BY <1>2, JobStays, WaitingStays DEF At
  <2>2. seen[r] # Absent /\ Vouches(job[r].email, seen[r].authVersion, seen[r].hash)
    BY <1>2, <2>1 DEF At, AccountsInv, ReadsVouched
  <2>3. job[r].email \in Emails /\ seen[r].authVersion \in Nat
    BY <1>1, <1>2, <2>1, <2>2, JobKinds DEF At, TypeOK, Account, Logins
  <2>4. Vouches(job[r].email, seen[r].authVersion, seen[r].hash)'
    BY <2>1, <2>2, <2>3, VouchesStay DEF Vouches
  <2> QED BY <2>1, <2>2, <2>4
<1>3. CASE pc[r] # "comparing"
  <2>1. FindByEmail(r)
    BY <1>1, <1>3 DEF Next, vars, TypeOK, Arrive, Register, LookUp, Create, CreateUnanswered,
       EmailTaken, Insert, Login, FindByEmail, IssueToken, Authenticate, TokenExpired, Change,
       FindById, VerifyPasswords, UpdatePassword, UpdateUnanswered, Write, Audit,
       StatementFails, Goes, At
  <2>2. job[r] \in Logins
    BY <1>1, <2>1, JobKinds DEF FindByEmail, At
  <2>3. accounts[job[r].email] \in Account
    BY <1>1, <2>1, <2>2 DEF FindByEmail, At, Goes, TypeOK, Logins
  <2>4. seen'[r] = accounts[job[r].email] /\ accounts' = accounts /\ job' = job
    BY <1>1, <2>1 DEF FindByEmail, TypeOK
  <2> QED BY <2>3, <2>4, AccountsAssumption DEF Vouches, Account
<1> QED BY <1>2, <1>3

\* A registered account stays, and no e-mail is registered twice.
LEMMA RegisteredStep ==
  ASSUME AccountsInv, [Next]_vars
  PROVE  RegisteredPresent' /\ RegisteredOnce'
<1>1. TypeOK /\ JobsKept
  BY DEF AccountsInv
<1>2. ASSUME NEW e \in Emails, accounts[e] # Absent
      PROVE  accounts'[e] # Absent
  <2>1. accounts[e].authVersion \in Nat
    BY <1>1, <1>2 DEF TypeOK, Account
  <2> QED BY <1>2, <2>1, VouchesStay DEF Vouches
<1>3. ASSUME NEW r \in Requests, pc'[r] = "created", pc[r] # "created"
      PROVE  Create(r) /\ accounts[job[r].email] = Absent /\ accounts'[job[r].email] # Absent
  <2>1. Create(r)
    BY <1>1, <1>3 DEF Next, vars, TypeOK, Arrive, Register, LookUp, Create, CreateUnanswered,
       EmailTaken, Insert, Login, FindByEmail, IssueToken, Authenticate, TokenExpired, Change,
       FindById, VerifyPasswords, UpdatePassword, UpdateUnanswered, Write, Audit,
       StatementFails, Goes, At
  <2>2. accounts[job[r].email] = Absent
    BY <1>1, <1>3, <2>1 DEF Create, Insert, Goes, TypeOK
  <2>3. job[r] \in Registrations
    BY <1>1, <2>1, JobKinds DEF Create, Insert, At
  <2>4. [hash |-> Hash(job[r].password), authVersion |-> 1] \in Account
    BY <2>3 DEF Registrations, Account
  <2> QED BY <1>1, <2>1, <2>2, <2>3, <2>4, AccountsAssumption DEF Create, Insert, TypeOK,
     Registrations
<1>4. ASSUME NEW r \in Requests, pc'[r] = "created"
      PROVE  /\ job'[r] = job[r] /\ job[r] \in Registrations
             /\ accounts'[job[r].email] # Absent
  <2>1. CASE pc[r] = "created"
    BY <1>1, <1>2, <2>1, JobStays, JobKinds DEF AccountsInv, RegisteredPresent, Registrations
  <2>2. CASE pc[r] # "created"
    BY <1>1, <1>3, <1>4, <2>2, JobKinds DEF Create, Insert, At
  <2> QED BY <2>1, <2>2
<1>5. RegisteredPresent'
  BY <1>4 DEF RegisteredPresent, Registrations
<1>6. ASSUME NEW r \in Requests, NEW s \in Requests, pc'[r] = "created", pc'[s] = "created",
             job'[r].email = job'[s].email, r # s
      PROVE  FALSE
  <2>1. CASE pc[r] = "created" /\ pc[s] = "created"
    BY <1>4, <1>6, <2>1 DEF AccountsInv, RegisteredOnce
  <2>2. CASE pc[r] # "created"
    <3>1. pc[s] = "created"
      BY <1>1, <1>3, <1>6, <2>2 DEF Create, Insert, Goes, TypeOK
    <3> QED BY <1>3, <1>4, <1>6, <2>2, <3>1 DEF AccountsInv, RegisteredPresent
  <2>3. CASE pc[s] # "created"
    <3>1. pc[r] = "created"
      BY <1>1, <1>3, <1>6, <2>3 DEF Create, Insert, Goes, TypeOK
    <3> QED BY <1>3, <1>4, <1>6, <2>3, <3>1 DEF AccountsInv, RegisteredPresent
  <2> QED BY <2>1, <2>2, <2>3
<1> QED BY <1>5, <1>6 DEF RegisteredOnce

\* A change of password presents the same token throughout.
LEMMA PresentedStays ==
  ASSUME AccountsInv, [Next]_vars, NEW r \in Requests, pc[r] # "idle",
         job[r].kind = "change"
  PROVE  /\ job'[r] = job[r]
         /\ issued'[job[r].token] = Presented(r)
         /\ OwnEmail(r)' = OwnEmail(r)
<1>1. job[r].token \in Requests /\ issued[job[r].token] # Absent
  BY JobKinds DEF AccountsInv, Changes, JobsKept
<1>2. job'[r] = job[r] /\ issued'[job[r].token] = issued[job[r].token]
  BY <1>1, JobStays, TokenStays
<1> QED BY <1>2 DEF OwnEmail, Presented

\* What a change of password has read vouches for the account until it writes.
LEMMA ChangeReadsStep ==
  ASSUME AccountsInv, [Next]_vars, NEW r \in Requests,
         At(r, "change", "verifying")' \/ At(r, "change", "updating")'
  PROVE  /\ seen'[r] # Absent
         /\ issued'[job'[r].token].authVersion <= seen'[r].authVersion
         /\ Vouches(OwnEmail(r), seen[r].authVersion, seen[r].hash)'
         /\ At(r, "change", "updating")' =>
              /\ CompareHash(job'[r].password, seen'[r].hash)
              /\ ~CompareHash(job'[r].newPassword, seen'[r].hash)
<1>1. TypeOK /\ JobsKept
  BY DEF AccountsInv
<1>2. CASE At(r, "change", "verifying") \/ At(r, "change", "updating")
  <2>1. /\ seen[r] # Absent /\ Presented(r).authVersion <= seen[r].authVersion
        /\ Vouches(OwnEmail(r), seen[r].authVersion, seen[r].hash)
        /\ At(r, "change", "updating") =>
             /\ CompareHash(job[r].password, seen[r].hash)
             /\ ~CompareHash(job[r].newPassword, seen[r].hash)
    BY <1>2 DEF AccountsInv, ChangesTraced
  <2>2. /\ job'[r] = job[r] /\ issued'[job[r].token] = Presented(r)
        /\ OwnEmail(r)' = OwnEmail(r)
    BY <1>2, PresentedStays DEF At
  <2>3. /\ seen'[r] = seen[r]
        /\ At(r, "change", "verifying") /\ pc'[r] = "updating" => VerifyPasswords(r)
        /\ At(r, "change", "updating") => pc'[r] # "verifying"
    BY <1>1, <1>2 DEF Next, vars, TypeOK, Arrive, Register, LookUp, Create, CreateUnanswered,
       EmailTaken, Insert, Login, FindByEmail, IssueToken, Authenticate, TokenExpired, Change,
       FindById, VerifyPasswords, UpdatePassword, UpdateUnanswered, Write, Audit,
       StatementFails, Goes, At
  <2>4. OwnEmail(r) \in Emails /\ seen[r].authVersion \in Nat
    BY <1>1, <1>2, <2>1, PresentedToken DEF At, TypeOK, Account
  <2>5. Vouches(OwnEmail(r), seen[r].authVersion, seen[r].hash)'
    BY <2>1, <2>2, <2>3, <2>4, VouchesStay DEF Vouches
  <2>6. ASSUME VerifyPasswords(r), At(r, "change", "updating")'
        PROVE  /\ CompareHash(job[r].password, seen[r].hash)
               /\ ~CompareHash(job[r].newPassword, seen[r].hash)
    BY <1>1, <2>6 DEF VerifyPasswords, At, Goes, TypeOK, CompareHash
  <2>7. At(r, "change", "updating")' =>
          /\ CompareHash(job[r].password, seen[r].hash)
          /\ ~CompareHash(job[r].newPassword, seen[r].hash)
    BY <1>2, <2>1, <2>2, <2>3, <2>6 DEF At
  <2> QED BY <2>1, <2>2, <2>3, <2>5, <2>7 DEF CompareHash, At
<1>3. CASE ~(At(r, "change", "verifying") \/ At(r, "change", "updating"))
  <2>1. FindById(r) /\ pc'[r] = "verifying"
    BY <1>1, <1>3, JobStays DEF Next, vars, TypeOK, Arrive, Register, LookUp, Create,
       CreateUnanswered, EmailTaken, Insert, Login, FindByEmail, IssueToken, Authenticate,
       TokenExpired, Change, FindById, VerifyPasswords, UpdatePassword, UpdateUnanswered, Write,
       Audit, StatementFails, Goes, At
  <2>2. /\ OwnEmail(r) \in Emails /\ job[r].token \in Requests
        /\ issued[job[r].token] # Absent
    BY <1>1, <2>1, PresentedToken DEF FindById, At, JobsKept
  <2>3. accounts[OwnEmail(r)] \in Account
    BY <1>1, <2>1, <2>2 DEF FindById, Goes, At, TypeOK
  <2>4. /\ seen'[r] = accounts[OwnEmail(r)]
        /\ accounts' = accounts /\ job' = job /\ issued' = issued
    BY <1>1, <2>1 DEF FindById, TypeOK
  <2>5. Presented(r).authVersion <= accounts[OwnEmail(r)].authVersion
    BY <2>2 DEF AccountsInv, TokensVouched, Vouches, OwnEmail, Presented
  <2>6. Vouches(OwnEmail(r), seen[r].authVersion, seen[r].hash)'
    BY <2>3, <2>4, AccountsAssumption DEF Vouches, Account, OwnEmail, Presented
  <2> QED BY <2>1, <2>3, <2>4, <2>5, <2>6, AccountsAssumption DEF At, Presented
<1> QED BY <1>2, <1>3

\* What a change of password has written goes on being accounted for.
LEMMA ChangeWritesStep ==
  ASSUME AccountsInv, [Next]_vars, NEW r \in Requests
  PROVE  /\ At(r, "change", "auditing")' => updated'[r] # Absent
         /\ updated'[r] # Absent =>
              /\ job'[r].kind = "change" /\ pc'[r] \in {"auditing", "changed", "failed"}
              /\ seen'[r] # Absent
              /\ issued'[job'[r].token].authVersion <= seen'[r].authVersion
              /\ seen'[r].authVersion < updated'[r].authVersion
              /\ CompareHash(job'[r].password, seen'[r].hash)
              /\ ~CompareHash(job'[r].newPassword, seen'[r].hash)
<1>1. TypeOK /\ JobsKept
  BY DEF AccountsInv
<1>2. CASE Write(r)
  <2>1. /\ At(r, "change", "updating")
        /\ Presented(r).authVersion <= seen[r].authVersion /\ seen[r] # Absent
        /\ Vouches(OwnEmail(r), seen[r].authVersion, seen[r].hash)
        /\ CompareHash(job[r].password, seen[r].hash)
        /\ ~CompareHash(job[r].newPassword, seen[r].hash)
    BY <1>2 DEF Write, AccountsInv, ChangesTraced
  <2>2. /\ updated'[r] = Replacement(r) /\ Replacement(r) # Absent
        /\ job' = job /\ seen' = seen /\ issued' = issued
    BY <1>1, <1>2, WriteEffect, AccountsAssumption DEF Write, TypeOK
  <2>3. seen[r].authVersion < Replacement(r).authVersion
    BY <1>1, <1>2, <2>1, WriteEffect DEF Vouches, TypeOK, Account
  <2>4. updated[r] = Absent
    BY <2>1 DEF At, AccountsInv, ChangesTraced
  <2>5. pc'[r] \in {"auditing", "failed"}
    BY <1>1, <2>1, <2>2, <2>4 DEF Next, vars, TypeOK, Arrive, Register, LookUp, Create,
       CreateUnanswered, EmailTaken, Insert, Login, FindByEmail, IssueToken, Authenticate,
       TokenExpired, Change, FindById, VerifyPasswords, UpdatePassword, UpdateUnanswered, Write,
       Audit, StatementFails, Goes, At
  <2> QED BY <2>1, <2>2, <2>3, <2>5 DEF At, Presented
<1>3. CASE ~Write(r)
  <2>1. updated'[r] = updated[r]
    BY <1>1, <1>3 DEF Next, vars, TypeOK, Arrive, Register, LookUp, Create, CreateUnanswered,
       EmailTaken, Insert, Login, FindByEmail, IssueToken, Authenticate, TokenExpired, Change,
       FindById, VerifyPasswords, UpdatePassword, UpdateUnanswered, Write, Audit, StatementFails
  <2>2. CASE updated[r] # Absent
    <3>1. /\ job[r].kind = "change" /\ pc[r] \in {"auditing", "changed", "failed"}
          /\ seen[r] # Absent
          /\ Presented(r).authVersion <= seen[r].authVersion
          /\ seen[r].authVersion < updated[r].authVersion
          /\ CompareHash(job[r].password, seen[r].hash)
          /\ ~CompareHash(job[r].newPassword, seen[r].hash)
      BY <2>2 DEF AccountsInv, ChangesTraced, ChangedByVerified
    <3>2. job'[r] = job[r] /\ issued'[job[r].token] = Presented(r)
      BY <3>1, PresentedStays
    <3>3. seen'[r] = seen[r] /\ pc'[r] \in {"auditing", "changed", "failed"}
      BY <1>1, <3>1 DEF Next, vars, TypeOK, Arrive, Register, LookUp, Create, CreateUnanswered,
         EmailTaken, Insert, Login, FindByEmail, IssueToken, Authenticate, TokenExpired, Change,
         FindById, VerifyPasswords, UpdatePassword, UpdateUnanswered, Write, Audit,
         StatementFails, Goes, At
    <3> QED BY <2>1, <2>2, <3>1, <3>2, <3>3 DEF CompareHash
  <2>3. CASE updated[r] = Absent
    <3>1. ~At(r, "change", "auditing")
      BY <2>3 DEF AccountsInv, ChangesTraced
    <3>2. ~At(r, "change", "auditing")'
      BY <1>1, <1>3, <3>1, JobStays DEF Next, vars, TypeOK, Arrive, Register, LookUp, Create,
         CreateUnanswered, EmailTaken, Insert, Login, FindByEmail, IssueToken, Authenticate,
         TokenExpired, Change, FindById, VerifyPasswords, UpdatePassword, UpdateUnanswered,
         Write, Audit, StatementFails, Goes, At
    <3> QED BY <2>1, <2>3, <3>2
  <2> QED BY <2>2, <2>3
<1> QED BY <1>2, <1>3

\* Every step keeps the invariant.
LEMMA InvStep == AccountsInv /\ [Next]_vars => AccountsInv'
<1> SUFFICES ASSUME AccountsInv, [Next]_vars PROVE AccountsInv'
  OBVIOUS
<1>1. ChangesTraced'
  BY ChangeReadsStep, ChangeWritesStep DEF ChangesTraced, Presented, At, CompareHash
<1>2. ChangedByVerified'
  BY ChangeWritesStep DEF ChangedByVerified, Presented, CompareHash
<1> QED BY <1>1, <1>2, TypeStep, JobsStep, TokensStep, ReadsStep, RegisteredStep
        DEF AccountsInv

-----------------------------------------------------------------------------
(* The versions of an account and the changes of its password.             *)

\* What VersionsNameChanges says of one account, whose changes are finitely many.
VersionsNamed(e) ==
  accounts[e] # Absent =>
    /\ IsFiniteSet(ChangesOf(e))
    /\ accounts[e].authVersion = 1 + Cardinality(ChangesOf(e))
    /\ {updated[r].authVersion : r \in ChangesOf(e)} = 2 .. accounts[e].authVersion
    /\ \A r \in ChangesOf(e) : updated[r].authVersion = accounts[e].authVersion =>
         CompareHash(job[r].newPassword, accounts[e].hash)

\* A change that has written is one of an account that is there, and goes on
\* being one of that account.
LEMMA ChangeKept ==
  ASSUME AccountsInv, [Next]_vars, NEW r \in Requests, updated[r] # Absent
  PROVE  /\ OwnEmail(r) \in Emails /\ accounts[OwnEmail(r)] # Absent
         /\ OwnEmail(r)' = OwnEmail(r) /\ job'[r] = job[r] /\ ~Write(r)
<1>1. /\ job[r].kind = "change" /\ pc[r] \in {"auditing", "changed", "failed"}
  BY DEF AccountsInv, ChangesTraced
<1>2. OwnEmail(r)' = OwnEmail(r) /\ job'[r] = job[r] /\ ~Write(r)
  BY <1>1, PresentedStays DEF Write, At
<1>3. OwnEmail(r) \in Emails /\ issued[job[r].token] # Absent /\ job[r].token \in Requests
  BY <1>1, PresentedToken DEF AccountsInv, JobsKept
<1>4. accounts[OwnEmail(r)] # Absent
  BY <1>3 DEF AccountsInv, TokensVouched, Vouches, OwnEmail, Presented
<1> QED BY <1>2, <1>3, <1>4

\* A step that writes nothing leaves every account its changes.
LEMMA ChangesSame ==
  ASSUME AccountsInv, [Next]_vars, UNCHANGED updated, NEW e
  PROVE  ChangesOf(e)' = ChangesOf(e)
<1>1. \A r \in Requests : updated[r] # Absent => OwnEmail(r)' = OwnEmail(r)
  BY ChangeKept
<1> QED BY <1>1 DEF ChangesOf

\* A write adds the one change to its account.
LEMMA ChangesGrow ==
  ASSUME AccountsInv, [Next]_vars, NEW w \in Requests, Write(w), NEW e
  PROVE  /\ w \notin ChangesOf(e)
         /\ ChangesOf(e)' = IF e = OwnEmail(w) THEN ChangesOf(e) \cup {w} ELSE ChangesOf(e)
         /\ updated'[w] = Replacement(w) /\ OwnEmail(w)' = OwnEmail(w) /\ job' = job
         /\ \A r \in Requests \ {w} : updated'[r] = updated[r]
<1>1. updated[w] = Absent /\ job' = job /\ issued' = issued
  BY DEF Write, At, AccountsInv, ChangesTraced
<1>2. \A r \in Requests : OwnEmail(r)' = OwnEmail(r)
  BY <1>1 DEF OwnEmail, Presented
<1>3. /\ updated'[w] = Replacement(w) /\ Replacement(w) # Absent
      /\ \A r \in Requests \ {w} : updated'[r] = updated[r]
  BY WriteEffect, AccountsAssumption DEF Write, AccountsInv, TypeOK
<1> QED BY <1>1, <1>2, <1>3 DEF ChangesOf

\* A write makes the next version, and names it.
LEMMA WriteVersions ==
  ASSUME AccountsInv, [Next]_vars, NEW w \in Requests, Write(w), NEW e \in Emails,
         VersionsNamed(e)
  PROVE  VersionsNamed(e)'
<1>1. /\ OwnEmail(w) \in Emails /\ accounts[OwnEmail(w)] \in Account
      /\ Replacement(w) \in Account
      /\ Replacement(w).authVersion = accounts[OwnEmail(w)].authVersion + 1
      /\ accounts' = [accounts EXCEPT ![OwnEmail(w)] = Replacement(w)]
      /\ accounts \in [Emails -> Account \cup {Absent}]
  BY WriteEffect DEF AccountsInv, TypeOK
<1>2. /\ w \notin ChangesOf(e)
      /\ ChangesOf(e)' = IF e = OwnEmail(w) THEN ChangesOf(e) \cup {w} ELSE ChangesOf(e)
      /\ updated'[w] = Replacement(w) /\ job' = job
      /\ \A r \in ChangesOf(e) : updated'[r] = updated[r]
  BY ChangesGrow DEF ChangesOf
<1>3. CASE e # OwnEmail(w)
  BY <1>1, <1>2, <1>3 DEF VersionsNamed, CompareHash
<1>4. CASE e = OwnEmail(w)
  <2> DEFINE old == ChangesOf(e)
             v == accounts[e].authVersion
             versions == {updated[r].authVersion : r \in old}
  <2>1. accounts[e] # Absent /\ accounts'[e] = Replacement(w) /\ v \in Nat \ {0}
    BY <1>1, <1>4, AccountsAssumption DEF Account
  <2>2. /\ IsFiniteSet(old) /\ v = 1 + Cardinality(old) /\ versions = 2 .. v
    BY <2>1 DEF VersionsNamed
  <2>3. ChangesOf(e)' = old \cup {w} /\ accounts'[e].authVersion = v + 1
        /\ updated'[w].authVersion = v + 1
    BY <1>1, <1>2, <1>4, <2>1
  <2>4. IsFiniteSet(old \cup {w}) /\ Cardinality(old \cup {w}) = Cardinality(old) + 1
    BY <1>2, <2>2, FS_AddElement
  <2>5. {updated'[r].authVersion : r \in old \cup {w}} = versions \cup {v + 1}
    BY <1>2, <2>3
  <2>6. versions \cup {v + 1} = 2 .. v + 1
    BY <2>1, <2>2
  <2>7. ASSUME NEW r \in old \cup {w}, updated'[r].authVersion = v + 1
        PROVE  CompareHash(job[r].newPassword, accounts'[e].hash)
    <3>1. r = w
      <4>1. r \in old => updated[r].authVersion \in 2 .. v
        BY <2>2
      <4> QED BY <1>2, <2>1, <2>7, <4>1
    <3> QED BY <2>1, <3>1 DEF Replacement, CompareHash
  <2>8. Cardinality(old) \in Nat
    BY <2>2, FS_CardinalityType
  <2> QED BY <1>2, <2>1, <2>2, <2>3, <2>4, <2>5, <2>6, <2>7, <2>8 DEF VersionsNamed, CompareHash
<1> QED BY <1>3, <1>4

\* An account that is created has the first version, and no change.
LEMMA CreateVersions ==
  ASSUME AccountsInv, [Next]_vars, NEW w \in Requests, Insert(w), NEW e \in Emails,
         VersionsNamed(e)
  PROVE  VersionsNamed(e)'
<1>1. updated' = updated /\ job' = job /\ issued' = issued
  BY DEF Insert
<1>2. ChangesOf(e)' = ChangesOf(e)
  BY <1>1, ChangesSame
<1>3. CASE accounts'[e] = accounts[e]
  BY <1>1, <1>2, <1>3 DEF VersionsNamed, CompareHash, ChangesOf
<1>4. CASE accounts'[e] # accounts[e]
  <2>1. accounts[e] = Absent /\ accounts'[e].authVersion = 1
    BY <1>4 DEF Insert, AccountsInv, TypeOK
  <2>2. ChangesOf(e) = {}
    BY <2>1, ChangeKept DEF ChangesOf
  <2>3. IsFiniteSet({}) /\ Cardinality({}) = 0
    BY FS_EmptySet
  <2>4. {updated'[r].authVersion : r \in {}} = 2 .. 1
    OBVIOUS
  <2> QED BY <1>2, <2>1, <2>2, <2>3, <2>4 DEF VersionsNamed
<1> QED BY <1>3, <1>4

\* Every step leaves the versions named.
LEMMA VersionsStep ==
  ASSUME AccountsInv, [Next]_vars, NEW e \in Emails, VersionsNamed(e)
  PROVE  VersionsNamed(e)'
<1>1. CASE UNCHANGED <<accounts, updated>>
  <2>1. ChangesOf(e)' = ChangesOf(e)
    BY <1>1, ChangesSame
  <2>2. \A r \in ChangesOf(e) : job'[r] = job[r] /\ updated'[r] = updated[r]
    BY <1>1, ChangeKept DEF ChangesOf
  <2> QED BY <1>1, <2>1, <2>2 DEF VersionsNamed, CompareHash
<1>2. \/ UNCHANGED <<accounts, updated>>
      \/ \E w \in Requests : Write(w) \/ Insert(w)
  BY DEF Next, vars, Arrive, Register, LookUp, Create, CreateUnanswered, EmailTaken, Login,
     FindByEmail, IssueToken, Authenticate, TokenExpired, Change, FindById, VerifyPasswords,
     UpdatePassword, UpdateUnanswered, Audit, StatementFails
<1> QED BY <1>1, <1>2, WriteVersions, CreateVersions

-----------------------------------------------------------------------------
(* The theorems.                                                           *)

\* The invariant holds of every history of the accounts, whatever requests
\* overlap: what is read and signed still vouches for the account.
THEOREM AccountsInvariant == Spec => []AccountsInv
<1>1. Init => AccountsInv
  BY InvInit
<1>2. AccountsInv /\ [Next]_vars => AccountsInv'
  BY InvStep
<1> QED BY <1>1, <1>2, PTL DEF Spec

\* No e-mail is registered twice and every password change was verified, of any
\* number of requests.
THEOREM AccountsSafe == Spec => [](RegisteredOnce /\ ChangedByVerified)
<1>1. AccountsInv => RegisteredOnce /\ ChangedByVerified
  BY DEF AccountsInv
<1> QED BY <1>1, AccountsInvariant, PTL

\* No request is admitted on a token obtained with another password than the
\* account has at that moment.
THEOREM NoStaleAdmission == Spec => AdmittedOnCurrentPassword
<1> DEFINE Admission ==
      \A r \in Requests :
        pc[r] = "arrived" /\ pc'[r] \in {"admitted", "finding"} =>
          CompareHash(job[job[r].token].password, accounts[OwnEmail(r)].hash)
<1>1. AccountsInv /\ [Next]_vars => [Admission]_vars
  <2> SUFFICES ASSUME AccountsInv, [Next]_vars, NEW r \in Requests,
                      pc[r] = "arrived", pc'[r] \in {"admitted", "finding"}
               PROVE  CompareHash(job[job[r].token].password, accounts[OwnEmail(r)].hash)
    OBVIOUS
  <2>1. TypeOK /\ JobsKept
    BY DEF AccountsInv
  <2>2. Authenticate(r) /\ Current(r)
    BY <2>1 DEF Next, vars, TypeOK, Arrive, Register, LookUp, Create, CreateUnanswered,
       EmailTaken, Insert, Login, FindByEmail, IssueToken, Authenticate, TokenExpired, Change,
       FindById, VerifyPasswords, UpdatePassword, UpdateUnanswered, Write, Audit,
       StatementFails, Goes, At
  <2>3. job[r].token \in Requests /\ issued[job[r].token] # Absent
    BY <2>1, <2>2, PresentedToken DEF Authenticate, JobsKept
  <2>4. Vouches(OwnEmail(r), Presented(r).authVersion, Hash(job[job[r].token].password))
    BY <2>3 DEF AccountsInv, TokensVouched, OwnEmail, Presented
  <2> QED BY <2>2, <2>4 DEF Current, Vouches, CompareHash
<1> QED BY <1>1, AccountsInvariant, PTL DEF Spec, AdmittedOnCurrentPassword
\* Each version of an account after the first was written by one change of its
\* password, none is skipped or written twice, and the password in force is that
\* of the change that wrote the current version.
THEOREM ChangesCounted == Spec => []VersionsNameChanges
<1> DEFINE Named == \A e \in Emails : VersionsNamed(e)
<1>1. Init => Named
  <2> SUFFICES ASSUME Init, NEW e \in Emails, accounts[e] # Absent
               PROVE  VersionsNamed(e)
    BY DEF VersionsNamed
  <2>1. ChangesOf(e) = {} /\ accounts[e].authVersion = 1
    BY AccountsAssumption DEF Init, ChangesOf
  <2>2. IsFiniteSet({}) /\ Cardinality({}) = 0
    BY FS_EmptySet
  <2>3. {updated[r].authVersion : r \in {}} = 2 .. 1
    OBVIOUS
  <2> QED BY <2>1, <2>2, <2>3 DEF VersionsNamed
<1>2. AccountsInv /\ Named /\ [Next]_vars => Named'
  BY VersionsStep
<1>3. Named => VersionsNameChanges
  BY DEF VersionsNamed, VersionsNameChanges
<1> QED BY <1>1, <1>2, <1>3, AccountsInvariant, PTL DEF Spec
-----------------------------------------------------------------------------
(* A browser tab beside the other clients.                                 *)

\* Nobody is signed in by an answer that names no token, and only a change of
\* password is answered as one.
AnswersSay ==
  \A r \in Requests :
    /\ pc[r] = "loggedIn" => issued[r] # Absent
    /\ pc[r] = "changed" => job[r].kind = "change"

\* What the tab has sent is under way or answered, on a token it had been given.
MailKept ==
  \A r \in Requests :
    /\ mail[r] # "none" => pc[r] # "idle"
    /\ mail[r] = "heard" => pc[r] \in Answered
    /\ mail[r] # "none" /\ job[r].kind \in {"change", "call"} =>
         job[r].token \in Requests /\ mail[job[r].token] = "heard"

TokenGiven == token # Absent => mail[token] = "heard"
FormWaits == \A r \in form : job[r].kind # "call"

TabInv ==
  AccountsInv /\ DeadNotPresented /\ AnswersSay /\ MailKept /\ TokenGiven /\ FormWaits

\* What no step of any client takes back: jobs, answers and tokens stay.
Onward ==
  /\ AccountsInv' /\ AnswersSay'
  /\ \A r \in Requests : pc[r] # "idle" => job'[r] = job[r] /\ pc'[r] # "idle"
  /\ \A r \in Requests : pc[r] \in Answered => pc'[r] = pc[r]
  /\ \A r \in Requests : issued[r] # Absent => issued'[r] # Absent

\* Who answers that a user is signed in, or that a password has changed.
LEMMA WhoAnswers ==
  ASSUME AccountsInv, [Next]_vars, NEW r \in Requests, pc'[r] # pc[r]
  PROVE  /\ pc'[r] = "loggedIn" => IssueToken(r)
         /\ pc'[r] = "changed" => Audit(r)
<1>1. TypeOK
  BY DEF AccountsInv
<1>2. PICK s \in Requests :
        \/ Arrive(s) \/ LookUp(s) \/ Create(s) \/ CreateUnanswered(s) \/ EmailTaken(s)
        \/ FindByEmail(s) \/ IssueToken(s)
        \/ Authenticate(s) \/ TokenExpired(s) \/ FindById(s) \/ VerifyPasswords(s)
        \/ UpdatePassword(s) \/ UpdateUnanswered(s) \/ Audit(s) \/ StatementFails(s)
  BY DEF Next, vars, Register, Login, Change
<1>3. ASSUME NEW to, Goes(s, to) PROVE pc'[r] = to /\ s = r
  BY <1>1, <1>3 DEF Goes, TypeOK
<1>4. CASE pc'[r] = "loggedIn"
  <2>1. ASSUME NEW to, Goes(s, to), to # "loggedIn" PROVE FALSE
    BY <1>3, <1>4, <2>1
  <2>2. IssueToken(s)
    BY <1>2, <2>1 DEF Arrive, LookUp, Create, CreateUnanswered, EmailTaken, Insert, FindByEmail,
       Authenticate, TokenExpired, FindById, VerifyPasswords, UpdatePassword, UpdateUnanswered,
       Audit, StatementFails
  <2> QED BY <1>3, <1>4, <2>2 DEF IssueToken
<1>5. CASE pc'[r] = "changed"
  <2>1. ASSUME NEW to, Goes(s, to), to # "changed" PROVE FALSE
    BY <1>3, <1>5, <2>1
  <2>2. Audit(s)
    BY <1>2, <2>1 DEF Arrive, LookUp, Create, CreateUnanswered, EmailTaken, Insert, FindByEmail,
       IssueToken, Authenticate, TokenExpired, FindById, VerifyPasswords, UpdatePassword,
       UpdateUnanswered, StatementFails
  <2> QED BY <1>3, <1>5, <2>2 DEF Audit
<1> QED BY <1>4, <1>5

\* Every step of the accounts goes onward.
LEMMA GoesOnward ==
  ASSUME AccountsInv, AnswersSay, [Next]_vars
  PROVE  Onward
<1>1. AccountsInv'
  BY InvStep
<1>2. TypeOK /\ JobsKept /\ TypeOK'
  BY <1>1 DEF AccountsInv
<1>3. ASSUME NEW r \in Requests
      PROVE  /\ pc[r] # "idle" => job'[r] = job[r] /\ pc'[r] # "idle"
             /\ issued[r] # Absent => issued'[r] # Absent
  BY JobStays, TokenStays
<1>4. ASSUME NEW r \in Requests, pc[r] \in Answered PROVE pc'[r] = pc[r]
  BY <1>2, <1>4 DEF Next, vars, TypeOK, Arrive, Register, LookUp, Create, CreateUnanswered,
     EmailTaken, Insert, Login, FindByEmail, IssueToken, Authenticate, TokenExpired, Change,
     FindById, VerifyPasswords, UpdatePassword, UpdateUnanswered, Write, Audit, StatementFails,
     Goes, At, Answered, Working
<1>5. ASSUME NEW r \in Requests, pc'[r] = "loggedIn" PROVE issued'[r] # Absent
  <2>1. CASE pc[r] = "loggedIn"
    BY <1>3, <2>1 DEF AnswersSay
  <2>2. CASE pc[r] # "loggedIn"
    <3>1. IssueToken(r)
      BY <1>5, <2>2, WhoAnswers
    <3>2. /\ issued'[r] = [account |-> job[r].email, authVersion |-> seen[r].authVersion]
          /\ job[r] \in Logins /\ seen[r] \in Account
      <4>1. At(r, "login", "comparing") /\ pc[r] # "idle"
        BY <3>1 DEF IssueToken, At
      <4>2. job[r] \in Logins
        BY <1>2, <4>1, JobKinds DEF At
      <4>3. seen[r] # Absent
        BY <4>1 DEF AccountsInv, ReadsVouched
      <4> QED BY <1>2, <1>5, <3>1, <4>2, <4>3 DEF IssueToken, Goes, TypeOK
    <3>3. issued'[r] \in Token
      BY <3>2 DEF Logins, Account, Token
    <3> QED BY <3>3, AccountsAssumption
  <2> QED BY <2>1, <2>2
<1>6. ASSUME NEW r \in Requests, pc'[r] = "changed" PROVE job'[r].kind = "change"
  <2>1. CASE pc[r] = "changed"
    BY <1>3, <2>1 DEF AnswersSay
  <2>2. CASE pc[r] # "changed"
    <3>1. Audit(r)
      BY <1>6, <2>2, WhoAnswers
    <3> QED BY <3>1 DEF Audit, At
  <2> QED BY <2>1, <2>2
<1> QED BY <1>1, <1>3, <1>4, <1>5, <1>6 DEF Onward, AnswersSay

\* What a page that is shown makes of the tab.
LEMMA PageShown ==
  ASSUME TabTypeOK, NEW to \in Pages, NEW now, NEW got, Shows(to, now, got)
  PROVE  /\ token' = now /\ route' \in Pages /\ form' \in {form \ got, {}}
         /\ route' \in Protected => now # Absent
         /\ route' # route => route' \in Protected \/ form' = {} \/ form' = form \ got
BY DEF Shows, TabTypeOK, Pages, Protected, Entrances

\* A tab that does nothing is not harmed by what others do.
LEMMA OthersKeep ==
  ASSUME TabInv, Onward, UNCHANGED tab
  PROVE  TabInv'
<1>1. UNCHANGED <<token, expired, route, form, mail, bare>>
  BY DEF tab
<1>2. MailKept' /\ TokenGiven'
  BY <1>1 DEF TabInv, Onward, MailKept, TokenGiven
<1>3. ASSUME NEW r \in form PROVE job'[r] = job[r] /\ r \in Requests
  BY <1>3 DEF TabInv, DeadNotPresented, TabTypeOK, MailKept, Onward
<1>4. FormWaits'
  BY <1>1, <1>3 DEF TabInv, FormWaits
<1>5. TabTypeOK'
  BY <1>1 DEF TabInv, DeadNotPresented, TabTypeOK
<1>6. ASSUME NEW r \in Requests, mail'[r] = "heard" PROVE job'[r] = job[r] /\ pc'[r] = pc[r]
  BY <1>1, <1>6 DEF TabInv, MailKept, Onward
<1>7. DeadNotPresented'
  BY <1>1, <1>5, <1>6 DEF TabInv, DeadNotPresented, TabTypeOK, Onward
<1> QED BY <1>2, <1>4, <1>7 DEF TabInv, Onward
\* A tab that sends a request: what it has to say is kept, and nothing is heard.
LEMMA SendsKeep ==
  ASSUME TabInv, Onward, NEW r \in Requests, pc[r] = "idle", pc'[r] # "idle",
         pc'[r] \notin Answered, job'[r] \in Jobs,
         job'[r].kind \in {"change", "call"} => token # Absent /\ job'[r].token = token,
         UNCHANGED <<token, expired, route, bare>>,
         \A s \in Requests \ {r} : mail'[s] = mail[s] \/ (mail[s] = "sent" /\ mail'[s] = "heard"
                                     /\ pc[s] = "created"),
         mail'[r] = "sent", mail' \in [Requests -> {"none", "sent", "heard", "lost"}],
         \/ form' = form /\ \A s \in form : mail'[s] = "sent"
         \/ form' = {r} /\ job'[r].kind # "call"
  PROVE  TabInv'
<1>1. mail[r] = "none"
  BY DEF TabInv, MailKept, DeadNotPresented, TabTypeOK
<1>2. ASSUME NEW s \in Requests, mail[s] = "heard" PROVE mail'[s] = "heard"
  BY <1>1, <1>2
<1>3. ASSUME NEW s \in Requests \ {r}, mail'[s] # "none"
      PROVE  /\ mail[s] # "none" /\ pc[s] # "idle" /\ job'[s] = job[s] /\ pc'[s] # "idle"
             /\ mail'[s] = "heard" => pc[s] \in Answered /\ pc'[s] = pc[s]
  <2>1. mail[s] # "none"
    BY <1>3
  <2>2. pc[s] # "idle" /\ job'[s] = job[s] /\ pc'[s] # "idle"
    BY <2>1 DEF TabInv, MailKept, Onward
  <2> QED BY <1>3, <2>1, <2>2 DEF TabInv, MailKept, Onward, Answered
<1>4. token # Absent => token \in Requests /\ mail[token] = "heard"
  BY DEF TabInv, TokenGiven, DeadNotPresented, TabTypeOK
<1>5. MailKept'
  BY <1>1, <1>2, <1>3, <1>4 DEF TabInv, MailKept
<1>6. TokenGiven'
  BY <1>2, <1>4 DEF TokenGiven
<1>7. TabTypeOK'
  BY DEF TabInv, DeadNotPresented, TabTypeOK
<1>8. FormWaits'
  <2>1. \A s \in form : s \in Requests
    BY DEF TabInv, DeadNotPresented, TabTypeOK
  <2> QED BY <1>1, <1>3, <2>1 DEF TabInv, FormWaits, DeadNotPresented
<1>9. DeadNotPresented'
  <2>1. ASSUME NEW s \in Requests, mail'[s] = "heard",
               \/ job'[s].kind = "call" /\ pc'[s] = "refused"
               \/ job'[s].kind = "change" /\ pc'[s] = "changed"
        PROVE  job'[s].token # token'
    <3>1. s # r
      BY <2>1
    <3>2. job'[s] = job[s] /\ pc'[s] = pc[s]
      BY <1>3, <2>1, <3>1
    <3>3. mail[s] = "heard"
      BY <2>1, <3>1, <3>2
    <3> QED BY <2>1, <3>2, <3>3 DEF TabInv, DeadNotPresented
  <2>2. token' # Absent => issued'[token'] # Absent /\ ~expired'
    BY <1>4 DEF TabInv, DeadNotPresented, Onward
  <2>3. route' \in Protected => token' # Absent
    BY DEF TabInv, DeadNotPresented
  <2>4. form' = {} \/ \E s \in Requests : form' = {s} /\ mail'[s] = "sent"
    BY DEF TabInv, DeadNotPresented
  <2> QED BY <1>7, <2>1, <2>2, <2>3, <2>4 DEF DeadNotPresented
<1> QED BY <1>5, <1>6, <1>8, <1>9 DEF TabInv, Onward

\* The tab hears or loses the answers to "got", or does something of its own: its
\* token goes, stays or is the one an answer names, and none is known to be dead.
TabMoves(got) ==
  /\ got \in SUBSET Requests
  /\ mail' \in [Requests -> {"none", "sent", "heard", "lost"}]
  /\ \A r \in Requests \ got : mail'[r] = mail[r]
  /\ \A r \in got : mail[r] = "sent" /\ mail'[r] \in {"heard", "lost"}
  /\ \A r \in got : mail'[r] = "heard" => pc[r] \in Answered
  /\ expired' \in BOOLEAN /\ bare' \in BOOLEAN /\ route' \in Pages
  /\ form' \in {form \ got, {}}
  /\ route' \in Protected => token' # Absent
  /\ \/ token' = Absent
     \/ /\ token' = token /\ expired' = expired
        /\ \A r \in got : mail'[r] = "heard" =>
             ~(\/ job[r].kind = "call" /\ pc[r] = "refused"
               \/ job[r].kind = "change" /\ pc[r] = "changed")
     \/ /\ token' \in got /\ got = {token'} /\ pc[token'] = "loggedIn" /\ ~expired'
        /\ mail'[token'] = "heard"

\* Such a step keeps the invariant, as no other client does anything.
LEMMA TabKeeps ==
  ASSUME TabInv, UNCHANGED vars, NEW got, TabMoves(got)
  PROVE  TabInv'
<1> USE DEF TabMoves
<1>1. UNCHANGED <<accounts, pc, job, seen, issued, updated, audits>>
  BY DEF vars
<1>2. AccountsInv'
  BY InvStep DEF TabInv
<1>3. AnswersSay'
  BY <1>1 DEF TabInv, AnswersSay
<1>4. \A r \in Requests : mail[r] = "heard" => r \notin got /\ mail'[r] = "heard"
  OBVIOUS
<1>5. MailKept'
  BY <1>1, <1>4 DEF TabInv, MailKept
<1>6. TabTypeOK' /\ form' \subseteq form \ got
  <2>1. token' \in Requests \cup {Absent}
    BY DEF TabInv, DeadNotPresented, TabTypeOK
  <2> QED BY <2>1 DEF TabInv, DeadNotPresented, TabTypeOK
<1>7. FormWaits'
  BY <1>1, <1>6 DEF TabInv, FormWaits
<1>8. form' = {} \/ \E r \in Requests : form' = {r} /\ mail'[r] = "sent"
  BY <1>6 DEF TabInv, DeadNotPresented
<1>9. token # Absent => token \in Requests /\ mail[token] = "heard" /\ issued[token] # Absent
  BY DEF TabInv, TokenGiven, DeadNotPresented, TabTypeOK
<1>10. TokenGiven' /\ (token' # Absent => issued'[token'] # Absent /\ ~expired')
  BY <1>1, <1>4, <1>9 DEF TabInv, TokenGiven, DeadNotPresented, AnswersSay
<1>11. ASSUME NEW r \in Requests, mail'[r] = "heard",
              \/ job[r].kind = "call" /\ pc[r] = "refused"
              \/ job[r].kind = "change" /\ pc[r] = "changed"
       PROVE  job[r].token # token'
  <2>1. mail[r] # "none" /\ job[r].token \in Requests /\ mail[job[r].token] = "heard"
    BY <1>11 DEF TabInv, MailKept
  <2>2. CASE token' = Absent
    BY <2>1, <2>2, TabAssumption
  <2>3. CASE token' \in got
    BY <1>4, <2>1, <2>3
  <2>4. CASE token' = token /\ r \notin got
    BY <1>11, <2>4 DEF TabInv, DeadNotPresented
  <2>5. CASE r \in got /\ token' # Absent /\ token' \notin got
    BY <1>11, <2>5
  <2> QED BY <2>2, <2>3, <2>4, <2>5
<1>12. DeadNotPresented'
  BY <1>1, <1>6, <1>8, <1>10, <1>11 DEF DeadNotPresented
<1> QED BY <1>2, <1>3, <1>5, <1>7, <1>10, <1>12 DEF TabInv
\* What comes of a request that arrives.
LEMMA Arrives ==
  ASSUME AccountsInv, AnswersSay, NEW r \in Requests, Arrive(r)
  PROVE  /\ Onward /\ pc[r] = "idle" /\ pc'[r] = "arrived" /\ job'[r] \in Jobs
<1>1. Next
  BY DEF Next
<1> QED BY <1>1, GoesOnward DEF Arrive, Goes, AccountsInv, TypeOK

\* The page sends a request.
LEMMA SubmitKeeps ==
  ASSUME TabInv, NEW r \in Requests, Submit(r) \/ Call(r)
  PROVE  TabInv'
<1>1. PICK kind \in {"login", "register", "change", "call"} :
        /\ Sends(r, kind) /\ UNCHANGED <<token, expired, route, bare>>
        /\ kind \in {"change", "call"} => token # Absent
        /\ IF kind = "call" THEN form' = form ELSE form' = {r}
  BY DEF Submit, Call
<1>2. /\ Onward /\ pc[r] = "idle" /\ pc'[r] = "arrived" /\ job'[r] \in Jobs
  BY <1>1, Arrives DEF Sends, TabInv
<1>3. /\ mail' = [mail EXCEPT ![r] = "sent"] /\ job'[r].kind = kind
      /\ mail \in [Requests -> {"none", "sent", "heard", "lost"}]
      /\ kind \in {"change", "call"} => job'[r].token = token
  BY <1>1 DEF Sends, TabInv, DeadNotPresented, TabTypeOK
<1>4. form' = form => \A s \in form : mail'[s] = "sent"
  BY <1>3 DEF TabInv, DeadNotPresented
<1>5. pc'[r] \notin Answered
  BY <1>2 DEF Answered
<1> QED BY <1>1, <1>2, <1>3, <1>4, <1>5, SendsKeep

\* Who has registered is signed in.
LEMMA RegisteredKeeps ==
  ASSUME TabInv, NEW r \in Requests, NEW s \in Requests, Registered(r, s)
  PROVE  TabInv'
<1>1. /\ Onward /\ pc[s] = "idle" /\ pc'[s] = "arrived" /\ job'[s] \in Jobs
  BY Arrives DEF Registered, TabInv
<1>2. /\ mail[r] = "sent" /\ pc[r] = "created" /\ r # s
      /\ mail' = [mail EXCEPT ![r] = "heard", ![s] = "sent"] /\ job'[s].kind = "login"
      /\ UNCHANGED <<token, expired, route, bare>>
      /\ form' = IF r \in form THEN {s} ELSE form
      /\ mail \in [Requests -> {"none", "sent", "heard", "lost"}]
  BY <1>1 DEF Registered, Waits, TabInv, DeadNotPresented, TabTypeOK
<1>3. r \notin form => \A u \in form : mail'[u] = "sent"
  BY <1>2 DEF TabInv, DeadNotPresented, TabTypeOK
<1>4. pc'[s] \notin Answered
  BY <1>1 DEF Answered
<1> QED BY <1>1, <1>2, <1>3, <1>4, SendsKeep

\* The answers the tab hears, or does not.
LEMMA HeardKeeps ==
  ASSUME TabInv, NEW r \in Requests,
         SignedIn(r) \/ PasswordChanged(r) \/ Refused(r) \/ Informed(r) \/ Unanswered(r)
  PROVE  TabInv'
<1> DEFINE got == {r}
           heard == IF Unanswered(r) THEN "lost" ELSE "heard"
<1>1. /\ TabTypeOK /\ mail[r] = "sent" /\ UNCHANGED vars
      /\ mail \in [Requests -> {"none", "sent", "heard", "lost"}]
      /\ expired \in BOOLEAN /\ bare \in BOOLEAN /\ route \in Pages
      /\ route \in Protected => token # Absent
  BY DEF SignedIn, PasswordChanged, Refused, Informed, Unanswered, Waits, TabInv,
         DeadNotPresented, TabTypeOK
<1>2. ~Unanswered(r) => Hears(r) /\ pc[r] \in Answered
  BY DEF SignedIn, PasswordChanged, Refused, Informed, Waits
<1>3. /\ mail'[r] = heard /\ \A s \in Requests \ got : mail'[s] = mail[s]
      /\ mail' \in [Requests -> {"none", "sent", "heard", "lost"}]
  BY <1>1, <1>2 DEF Hears, Unanswered
<1>4. CASE SignedIn(r)
  <2>1. pc[r] = "loggedIn" /\ ~expired' /\ Shows("/demo", r, got) /\ bare' = bare
        /\ mail'[r] = "heard"
    BY <1>1, <1>4 DEF SignedIn, Hears
  <2>2. "/demo" \in Pages
    BY DEF Pages, Protected
  <2>3. token' = r /\ route' \in Pages /\ form' \in {form \ got, {}}
        /\ (route' \in Protected => r # Absent) /\ expired' \in BOOLEAN
    BY <1>1, <1>4, <2>1, <2>2, PageShown DEF SignedIn
  <2>4. TabMoves(got)
    BY <1>1, <1>2, <1>3, <2>1, <2>3, TabAssumption DEF TabMoves, Answered
  <2> QED BY <1>1, <2>4, TabKeeps
<1>5. CASE PasswordChanged(r)
  <2>1. expired' = FALSE /\ Shows(route, Absent, got) /\ bare' = bare /\ pc[r] \in Answered
    BY <1>5 DEF PasswordChanged, Leaves, Waits
  <2>2. token' = Absent /\ route' \in Pages /\ form' \in {form \ got, {}}
        /\ route' \notin Protected
    BY <1>1, <2>1, PageShown
  <2>3. TabMoves(got)
    BY <1>1, <1>3, <2>1, <2>2 DEF TabMoves
  <2> QED BY <1>1, <2>3, TabKeeps
<1>6. CASE Refused(r)
  <2>1. /\ expired' = TRUE /\ Shows(route, Absent, {}) /\ bare' = bare /\ pc[r] \in Answered
        /\ job[r].kind = "call"
    BY <1>6 DEF Refused, Unauthorized, ExpiresSession, Waits
  <2> DEFINE none == {}
  <2>2. token' = Absent /\ route' \in Pages /\ form' \in {form \ none, {}}
        /\ route' \notin Protected
    <3>1. Shows(route, Absent, none)
      BY <2>1
    <3> HIDE DEF none
    <3> QED BY <1>1, <3>1, PageShown
  <2>3. form' \in {form \ got, {}}
    BY <2>1, <2>2 DEF TabInv, FormWaits
  <2>4. TabMoves(got)
    BY <1>1, <1>3, <2>1, <2>2, <2>3 DEF TabMoves
  <2> QED BY <1>1, <2>4, TabKeeps
<1>7. CASE Informed(r)
  <2>1. /\ form' = form \ got /\ UNCHANGED <<token, expired, route>> /\ pc[r] \in Answered
        /\ ~ExpiresSession(r) /\ pc[r] # "changed" /\ bare' \in BOOLEAN
    BY <1>1, <1>7 DEF Informed, Released, Waits
  <2>2. TabMoves(got)
    BY <1>1, <1>3, <2>1 DEF TabMoves, ExpiresSession
  <2> QED BY <1>1, <2>2, TabKeeps
<1>8. CASE Unanswered(r)
  <2>1. /\ form' = form \ got /\ UNCHANGED <<token, expired, route, bare>> /\ mail'[r] = "lost"
    BY <1>3, <1>8 DEF Unanswered, Released
  <2>2. TabMoves(got)
    BY <1>1, <1>3, <2>1 DEF TabMoves
  <2> QED BY <1>1, <2>2, TabKeeps
<1> QED BY <1>4, <1>5, <1>6, <1>7, <1>8

\* What the tab does of itself.
LEMMA AloneKeeps ==
  ASSUME TabInv, (\E to \in Pages : Visit(to)) \/ SignOut \/ BareRefused
  PROVE  TabInv'
<1>1. /\ TabTypeOK /\ UNCHANGED <<vars, mail>>
      /\ mail \in [Requests -> {"none", "sent", "heard", "lost"}]
      /\ expired \in BOOLEAN /\ bare \in BOOLEAN /\ route \in Pages
  BY DEF Visit, SignOut, BareRefused, TabInv, DeadNotPresented, TabTypeOK
<1> DEFINE none == {}
<1>2. PICK to \in Pages, now \in {token, Absent} :
        /\ Shows(to, now, none) /\ expired' \in BOOLEAN /\ bare' \in BOOLEAN
        /\ now = Absent \/ expired' = expired
  <2>1. CASE SignOut
    <3>1. "/" \in Pages
      BY DEF Pages
    <3>2. Shows("/", Absent, none) /\ expired' = FALSE /\ bare' = bare
      BY <2>1 DEF SignOut, Leaves
    <3> QED BY <1>1, <3>1, <3>2
  <2>2. CASE BareRefused
    BY <1>1, <2>2 DEF BareRefused, Unauthorized
  <2>3. CASE \E to \in Pages : Visit(to)
    BY <1>1, <2>3 DEF Visit
  <2> QED BY <2>1, <2>2, <2>3
<1>3. none \in SUBSET Requests /\ \A r : r \notin none
  OBVIOUS
<1> HIDE DEF none
<1>4. /\ token' = now /\ route' \in Pages /\ form' \in {form \ none, {}}
      /\ route' \in Protected => now # Absent
  BY <1>1, <1>2, PageShown
<1>5. TabMoves(none)
  BY <1>1, <1>2, <1>3, <1>4 DEF TabMoves
<1> QED BY <1>1, <1>5, TabKeeps

\* Every step of the tab and of the other clients keeps the invariant.
LEMMA TabStep == TabInv /\ [TabNext]_tabVars => TabInv'
<1> SUFFICES ASSUME TabInv, [TabNext]_tabVars PROVE TabInv'
  OBVIOUS
<1>1. CASE [Next]_vars /\ UNCHANGED tab
  BY <1>1, GoesOnward, OthersKeep DEF TabInv
<1>2. CASE UNCHANGED tabVars
  BY <1>1, <1>2 DEF tabVars
<1> QED BY <1>1, <1>2, SubmitKeeps, RegisteredKeeps, HeardKeeps, AloneKeeps DEF TabNext

\* A tab that has just been opened.
LEMMA TabStart == TabInit => TabInv
<1> SUFFICES ASSUME TabInit PROVE TabInv
  OBVIOUS
<1>1. AccountsInv
  BY InvInit DEF TabInit
<1>2. /\ token = Absent /\ expired = FALSE /\ bare = FALSE /\ route = "/" /\ form = {}
      /\ mail = [r \in Requests |-> "none"] /\ pc = [r \in Requests |-> "idle"]
  BY DEF TabInit, Init
<1> QED BY <1>1, <1>2 DEF TabInv, DeadNotPresented, TabTypeOK, AnswersSay, MailKept,
           TokenGiven, FormWaits, Pages, Protected

\* A tab never presents a token it knows to be dead, however late the answers of
\* other logins come, and shows a protected page with a token only.
THEOREM DeadTokensGone == TabSpec => []DeadNotPresented
<1>1. TabInit => TabInv
  BY TabStart
<1>2. TabInv => DeadNotPresented
  BY DEF TabInv
<1> QED BY <1>1, <1>2, TabStep, PTL DEF TabSpec

\* A tab is signed out by its user, by its own change of password, or because the
\* server refused a call: not by wrong credentials.
THEOREM SignOutHasCause == TabSpec => SignedOutForCause
<1> DEFINE Cause ==
      token # Absent /\ token' = Absent =>
        \/ SignOut
        \/ bare /\ ~bare'
        \/ \E r \in Requests :
             /\ mail[r] = "sent" /\ mail'[r] = "heard"
             /\ \/ job[r].kind = "call" /\ pc[r] = "refused"
                \/ job[r].kind = "change" /\ pc[r] = "changed"
<1>1. TabInv /\ [TabNext]_tabVars => Cause
  <2> SUFFICES ASSUME TabInv, [TabNext]_tabVars, token # Absent, token' = Absent
               PROVE  \/ SignOut
                      \/ bare /\ ~bare'
                      \/ \E r \in Requests :
                           /\ mail[r] = "sent" /\ mail'[r] = "heard"
                           /\ \/ job[r].kind = "call" /\ pc[r] = "refused"
                              \/ job[r].kind = "change" /\ pc[r] = "changed"
    OBVIOUS
  <2>1. ASSUME NEW r \in Requests, PasswordChanged(r) \/ Refused(r)
        PROVE  /\ mail[r] = "sent" /\ mail'[r] = "heard"
               /\ \/ job[r].kind = "call" /\ pc[r] = "refused"
                  \/ job[r].kind = "change" /\ pc[r] = "changed"
    <3>1. mail[r] = "sent" /\ mail'[r] = "heard"
      BY <2>1 DEF PasswordChanged, Refused, Waits, Hears, TabInv, DeadNotPresented, TabTypeOK
    <3>2. pc[r] = "changed" => job[r].kind = "change"
      BY DEF TabInv, AnswersSay
    <3> QED BY <2>1, <3>1, <3>2 DEF PasswordChanged, Refused, ExpiresSession
  <2>2. CASE BareRefused
    BY <2>2 DEF BareRefused
  <2>3. ASSUME NEW r \in Requests, SignedIn(r) PROVE FALSE
    BY <2>3, TabAssumption DEF SignedIn, Shows
  <2>4. token' = token \/ SignOut \/ BareRefused
        \/ \E r \in Requests : SignedIn(r) \/ PasswordChanged(r) \/ Refused(r)
    BY DEF TabNext, tabVars, tab, Visit, Shows, Submit, Call, Registered, Informed, Unanswered
  <2> QED BY <2>1, <2>2, <2>3, <2>4
<1>2. TabSpec => []TabInv
  BY TabStart, TabStep, PTL DEF TabSpec
<1> QED BY <1>1, <1>2, PTL DEF TabSpec, SignedOutForCause
=============================================================================
