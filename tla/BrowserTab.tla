----------------------------- MODULE BrowserTab -----------------------------
(***************************************************************************)
(* One tab of the web interface, signed in and out beside the other        *)
(* clients of Accounts: the token it keeps in memory, the page it shows,   *)
(* the one submission a form allows, and answers that come when the page   *)
(* that asked, or the token it asked with, is gone. Nothing is aborted: an *)
(* answer is always acted upon. The token is named, as in Accounts, by the *)
(* login that issued it.                                                   *)
(*                                                                         *)
(* React runs the guard of App as an effect of the render that a change of *)
(* state causes, before the next event; it belongs to the step here.       *)
(***************************************************************************)
EXTENDS Accounts

VARIABLES
  token,    \* tokenRef.current, and isAuthenticated with it
  expired,  \* sessionExpired
  route,    \* the page shown
  form,     \* the requests the form on that page waits for: submitting, pending
  mail,     \* request -> whether this tab sent it, and has or lost its answer
  bare      \* whether a request sent without a token waits for its answer
tab == <<token, expired, route, form, mail, bare>>
tabVars == <<vars, tab>>

ASSUME TabAssumption == Absent \notin Requests

Entrances == {"/entrar", "/cadastro"}   \* one component, whatever its mode
Protected == {"/demo", "/conta"}
Pages == {"/"} \cup Entrances \cup Protected

TabInit ==
  /\ Init
  /\ token = Absent /\ expired = FALSE /\ bare = FALSE
  /\ route = "/"
  /\ form = {}
  /\ mail = [r \in Requests |-> "none"]

Waits(r) == mail[r] = "sent" /\ pc[r] \in Answered

SamePage(to) == to = route \/ {to, route} \subseteq Entrances

\* The page shown when the token is "now" and the path is "to"; a form goes
\* with its page, and forgets what it has got the answer of.
Shows(to, now, got) ==
  LET page == IF to \in Protected /\ now = Absent THEN "/entrar" ELSE to
  IN  /\ token' = now
      /\ route' = page
      /\ form' = IF SamePage(page) THEN form \ got ELSE {}

\* A link, or the history of the browser.
Visit(to) ==
  /\ Shows(to, token, {})
  /\ route' # route
  /\ UNCHANGED <<vars, expired, mail, bare>>

\* signOut
Leaves(to, got) == expired' = FALSE /\ Shows(to, Absent, got)

SignOut ==
  /\ token # Absent
  /\ Leaves("/", {})
  /\ UNCHANGED <<vars, mail, bare>>

\* The tab sends r, with the token it has now if it is an authenticated request.
Sends(r, kind) ==
  /\ Arrive(r)
  /\ job'[r].kind = kind
  /\ kind \in {"change", "call"} => job'[r].token = token
  /\ mail' = [mail EXCEPT ![r] = "sent"]

Submit(r) ==
  /\ form = {}
  /\ \/ route \in Entrances /\ Sends(r, IF route = "/entrar" THEN "login" ELSE "register")
     \/ route = "/conta" /\ token # Absent /\ Sends(r, "change")
  /\ form' = {r}
  /\ UNCHANGED <<token, expired, route, bare>>

\* useJourney, whose pages send what they need.
Call(r) ==
  /\ route = "/demo" /\ token # Absent
  /\ Sends(r, "call")
  /\ UNCHANGED <<token, expired, route, form, bare>>

Hears(r) == mail' = [mail EXCEPT ![r] = "heard"]

\* The account exists: its owner is signed in with the same fields.
Registered(r, s) ==
  /\ Waits(r) /\ pc[r] = "created"
  /\ Arrive(s)
  /\ job'[s] = [kind |-> "login", email |-> job[r].email, password |-> job[r].password]
  /\ mail' = [mail EXCEPT ![r] = "heard", ![s] = "sent"]
  /\ form' = IF r \in form THEN {s} ELSE form
  /\ UNCHANGED <<token, expired, route, bare>>

\* signIn, then navigate('/demo'), from wherever the user has gone.
SignedIn(r) ==
  /\ Waits(r) /\ pc[r] = "loggedIn"
  /\ expired' = FALSE
  /\ Shows("/demo", r, {r})
  /\ Hears(r)
  /\ UNCHANGED <<vars, bare>>

PasswordChanged(r) ==
  /\ Waits(r) /\ pc[r] = "changed"
  /\ Leaves(route, {r})
  /\ Hears(r)
  /\ UNCHANGED <<vars, bare>>

\* onUnauthorized that only announces: the reference keeps the token.
Unauthorized_FaultyKeepsToken == UNCHANGED <<token, route, form>> /\ expired' = TRUE

\* onUnauthorized: whatever token is current goes.
Unauthorized == expired' = TRUE /\ Shows(route, Absent, {})

ExpiresSession_FaultyChangeToo(r) == job[r].kind \in {"call", "change"} /\ pc[r] = "refused"

\* A 401 to a request whose caller does not read it as wrong credentials.
ExpiresSession(r) == job[r].kind = "call" /\ pc[r] = "refused"

Refused(r) ==
  /\ Waits(r) /\ ExpiresSession(r)
  /\ Unauthorized
  /\ Hears(r)
  /\ UNCHANGED <<vars, bare>>

\* A failure is shown on the form that waited for it, if it is still there.
Released(r) == form' = form \ {r}

\* Any other answer; what goes on after a call is sent without a token if the
\* user has left meanwhile.
Informed(r) ==
  /\ Waits(r) /\ ~ExpiresSession(r)
  /\ pc[r] \notin {"created", "loggedIn", "changed"}
  /\ Released(r)
  /\ Hears(r)
  /\ bare' \in IF job[r].kind = "call" /\ token = Absent THEN {bare, TRUE} ELSE {bare}
  /\ UNCHANGED <<vars, token, expired, route>>

\* NetworkError, whether the request was served or not.
Unanswered(r) ==
  /\ mail[r] = "sent"
  /\ Released(r)
  /\ mail' = [mail EXCEPT ![r] = "lost"]
  /\ UNCHANGED <<vars, token, expired, route, bare>>

BareRefused ==
  /\ bare /\ bare' = FALSE
  /\ Unauthorized
  /\ UNCHANGED <<vars, mail>>

TabNext ==
  \/ Next /\ UNCHANGED tab
  \/ \E to \in Pages : Visit(to)
  \/ SignOut
  \/ BareRefused
  \/ \E r \in Requests :
       \/ Submit(r) \/ Call(r)
       \/ \E s \in Requests : Registered(r, s)
       \/ SignedIn(r) \/ PasswordChanged(r) \/ Refused(r) \/ Informed(r) \/ Unanswered(r)

TabSpec == TabInit /\ [][TabNext]_tabVars

-----------------------------------------------------------------------------
TabTypeOK ==
  /\ token \in Requests \cup {Absent}
  /\ expired \in BOOLEAN /\ bare \in BOOLEAN
  /\ route \in Pages
  /\ form \subseteq Requests
  /\ mail \in [Requests -> {"none", "sent", "heard", "lost"}]

\* A token this tab knows to be dead, because a call with it was answered 401 or
\* because its own change of password revoked it, is never what it presents,
\* however late the answers of other logins come; a protected page is shown with
\* a token only, and a form waits for at most one request, which is under way
\* (auth.tsx, onUnauthorized and signOut; pages.tsx, submitting).
DeadNotPresented ==
  /\ TabTypeOK
  /\ \A r \in Requests :
       /\ mail[r] = "heard"
       /\ \/ job[r].kind = "call" /\ pc[r] = "refused"
          \/ job[r].kind = "change" /\ pc[r] = "changed"
       => job[r].token # token
  /\ token # Absent => issued[token] # Absent /\ ~expired
  /\ route \in Protected => token # Absent
  /\ form = {} \/ \E r \in Requests : form = {r} /\ mail[r] = "sent"

\* A tab is signed out by its user, by its own successful change of password, or
\* because the server refused a call: not by wrong credentials, neither those
\* of a login nor the current password of a change (client.ts, authenticated and
\* unauthorizedExpiresSession).
SignedOutForCause ==
  [][token # Absent /\ token' = Absent =>
       \/ SignOut
       \/ bare /\ ~bare'
       \/ \E r \in Requests :
            /\ mail[r] = "sent" /\ mail'[r] = "heard"
            /\ \/ job[r].kind = "call" /\ pc[r] = "refused"
               \/ job[r].kind = "change" /\ pc[r] = "changed"]_tabVars
=============================================================================
