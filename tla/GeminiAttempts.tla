--------------------------- MODULE GeminiAttempts ---------------------------
(***************************************************************************)
(* GeminiAiProvider.generateContent behind AiBudgetGuard, and the          *)
(* telemetry row its caller leaves. Calls run concurrently; every await    *)
(* (reserve, provider, reconcile, delay, telemetry) is a step, between     *)
(* which the abort timer may fire, the day may turn and the process may    *)
(* crash. The day after, an operator runs scripts/reconcile-ai-usage.mjs,  *)
(* which compares the ledger with the telemetry.                           *)
(*                                                                         *)
(* An operator called X_Faulty... is X with a plausible mistake in it: no   *)
(* definition uses it, the mutation runs put it in X's place.              *)
(***************************************************************************)
EXTENDS AiLedger, Sequences, FiniteSetsExt

CONSTANTS
  MaxAttempts,  (* GEMINI_MAX_ATTEMPTS                                     *)
  Answers,      (* Bound: the outcomes the provider is given to choose.    *)
  NoRow         (* No telemetry row.                                       *)

(***************************************************************************)
(* The outcomes of a request: what generateContent tells apart. "error" is *)
(* a 5xx or network failure, "rejected" any other failure.                 *)
(***************************************************************************)
Outcomes == {"success", "rateLimited", "error", "rejected", "timeout"}

ASSUME AttemptsAssumption ==
  /\ Answers \subseteq Outcomes
  /\ MaxAttempts \in Accepted("GEMINI_MAX_ATTEMPTS")
  /\ NoRow \notin Nat
  /\ IsFiniteSet(Calls)

VARIABLES
  call,    (* Where each call stands.                                      *)
  today,   (* The current UTC day.                                         *)
  events,  (* The ai_call_events row of each call.                         *)
  report,  (* The run of the reconciliation script.                        *)
  faulty   (* History: a ledger statement failed or the process died.      *)

vars == <<ledgerVars, call, today, events, report, faulty>>

CallStates == {"idle", "reserving", "holding", "calling", "reconciling",
               "settling", "waiting", "recording", "ended"}

Request == [day : Days, outcome : Outcomes \cup {"open"}]

Call == [state : CallStates,
         attempts : 0 .. MaxAttempts,   (* Calls of onAttempt.             *)
         day : Days,                    (* Period of its reservation.      *)
         aborted : BOOLEAN,             (* controller.signal.aborted       *)
         requests : Seq(Request)]       (* Sent to the provider.           *)

Event == [day : Days, attempts : 0 .. MaxAttempts]

\* The day reported on (0 before), and the rows with an anomaly of requests.
Report == [period : Days \cup {0}, alarms : SUBSET Scopes]

TypeOK ==
  /\ LedgerTypeOK
  /\ call \in [Calls -> Call]
  /\ today \in Days
  /\ events \in [Calls -> Event \cup {NoRow}]
  /\ report \in Report
  /\ faulty \in BOOLEAN

\* Some calls never come.
Init ==
  /\ LedgerInit
  /\ \E coming \in SUBSET Calls :
       call = [c \in Calls |-> [state |-> IF c \in coming THEN "idle" ELSE "ended",
                                attempts |-> 0, day |-> 1, aborted |-> FALSE, requests |-> <<>>]]
  /\ today \in Days
  /\ events = [c \in Calls |-> NoRow]
  /\ report = [period |-> 0, alarms |-> {}]
  /\ faulty = FALSE

At(c, state) == call[c].state = state
Goto(c, state) == call' = [call EXCEPT ![c].state = state]

\* The end of an attempt clears its timer; the next has a new controller.
EndAttempt(c, state) ==
  call' = [call EXCEPT ![c] = [call[c] EXCEPT !.state = state, !.aborted = FALSE]]

LastRequest(c) == call[c].requests[Len(call[c].requests)]

\* onAttempt, and the period of the reservation, before its first statement.
BeginsAttempt(c) ==
  call' = [call EXCEPT ![c] = [call[c] EXCEPT !.state = "reserving",
                                              !.attempts = @ + 1, !.day = today]]

-----------------------------------------------------------------------------
Start(c) ==
  /\ At(c, "idle")
  /\ BeginsAttempt(c)
  /\ UNCHANGED <<ledgerVars, today, events, report, faulty>>

\* The operator has disabled the provider, or the model has no price.
Disabled(c) ==
  /\ At(c, "idle")
  /\ Goto(c, "recording")
  /\ UNCHANGED <<ledgerVars, today, events, report, faulty>>

ReserveGlobal(c) ==
  /\ At(c, "reserving")
  /\ WithinCap(<<Global, call[c].day>>)
  /\ LockRow(c, <<Global, call[c].day>>)
  /\ Goto(c, "holding")
  /\ UNCHANGED <<today, events, report, faulty>>

RefuseGlobal(c) ==
  /\ At(c, "reserving")
  /\ RowFree(c, <<Global, call[c].day>>)
  /\ ~WithinCap(<<Global, call[c].day>>)
  /\ Goto(c, "recording")
  /\ UNCHANGED <<ledgerVars, today, events, report, faulty>>

UserRow(c) == <<CallerOf[c], call[c].day>>

\* The second upsert and COMMIT, then the request is sent under a fresh timer.
ReserveUser(c) ==
  /\ At(c, "holding")
  /\ RowFree(c, UserRow(c))
  /\ WithinCap(UserRow(c))
  /\ CommitReservation(c, CallerOf[c], call[c].day)
  /\ call' = [call EXCEPT ![c] = [call[c] EXCEPT !.state = "calling",
       !.requests = Append(@, [day |-> call[c].day, outcome |-> "open"])]]
  /\ UNCHANGED <<today, events, report, faulty>>

RefuseUser(c) ==
  /\ At(c, "holding")
  /\ RowFree(c, UserRow(c))
  /\ ~WithinCap(UserRow(c))
  /\ Rollback(c)
  /\ Goto(c, "recording")
  /\ UNCHANGED <<today, events, report, faulty>>

ReservationFails_FaultyFailsOpen(c) ==
  /\ At(c, "reserving")
  /\ call' = [call EXCEPT ![c] = [call[c] EXCEPT !.state = "calling",
       !.requests = Append(@, [day |-> call[c].day, outcome |-> "open"])]]
  /\ UNCHANGED <<ledgerVars, today, events, report>>
  /\ faulty' = TRUE

\* Fail closed: without an answer from the ledger nothing is sent. The
\* reservation may have been committed all the same.
ReservationFails(c) ==
  /\ \/ At(c, "reserving") /\ UNCHANGED ledgerVars
     \/ At(c, "holding") /\ Rollback(c)
     \/ /\ At(c, "holding")
        /\ RowFree(c, UserRow(c))
        /\ WithinCap(UserRow(c))
        /\ CommitReservation(c, CallerOf[c], call[c].day)
  /\ Goto(c, "recording")
  /\ UNCHANGED <<today, events, report>>
  /\ faulty' = TRUE

\* setTimeout(() => controller.abort()), armed until the attempt is over.
TimerFires(c) ==
  /\ call[c].state \in {"calling", "reconciling", "settling"}
  /\ ~call[c].aborted
  /\ call' = [call EXCEPT ![c].aborted = TRUE]
  /\ UNCHANGED <<ledgerVars, today, events, report, faulty>>

\* An aborted request rejects as such, whatever the provider would have said.
ProviderAnswers(c, outcome) ==
  /\ At(c, "calling")
  /\ call[c].aborted => outcome = "timeout"
  /\ call' = [call EXCEPT ![c] = [call[c] EXCEPT !.state = "reconciling",
       !.requests[Len(call[c].requests)].outcome = outcome]]
  /\ UNCHANGED <<ledgerVars, today, events, report, faulty>>

\* canRetry: controller.signal.aborted is read after reconcileAttempt.
CanRetry(c) ==
  \/ call[c].aborted
  \/ LastRequest(c).outcome \in {"timeout", "error"}

AfterAttempt(c) ==
  IF LastRequest(c).outcome # "success" /\ CanRetry(c) /\ call[c].attempts < MaxAttempts
  THEN "waiting" ELSE "recording"

ReconcileGlobal_FaultyUserFirst(c) ==
  /\ At(c, "reconciling")
  /\ LockRow(c, UserRow(c))
  /\ Goto(c, "settling")
  /\ UNCHANGED <<today, events, report, faulty>>

\* The first UPDATE of reconcileRequest, in the order of the reservation's.
ReconcileGlobal(c) ==
  /\ At(c, "reconciling")
  /\ LockRow(c, <<Global, call[c].day>>)
  /\ Goto(c, "settling")
  /\ UNCHANGED <<today, events, report, faulty>>

ReconcileUser_FaultyCurrentDay(c) ==
  /\ At(c, "settling")
  /\ CommitReconciliation(c, CallerOf[c], today)
  /\ EndAttempt(c, AfterAttempt(c))
  /\ UNCHANGED <<today, events, report, faulty>>

ReconcileUser(c) ==
  /\ At(c, "settling")
  /\ CommitReconciliation(c, CallerOf[c], call[c].day)
  /\ EndAttempt(c, AfterAttempt(c))
  /\ UNCHANGED <<today, events, report, faulty>>

\* Best effort: the reservation stays behind, unless only the answer to COMMIT is
\* lost, and the call goes on.
ReconcileFails(c) ==
  /\ \/ At(c, "reconciling") /\ UNCHANGED ledgerVars
     \/ At(c, "settling") /\ Rollback(c)
     \/ At(c, "settling") /\ CommitReconciliation(c, CallerOf[c], call[c].day)
  /\ EndAttempt(c, AfterAttempt(c))
  /\ UNCHANGED <<today, events, report>>
  /\ faulty' = TRUE

Retry(c) ==
  /\ At(c, "waiting")
  /\ BeginsAttempt(c)
  /\ UNCHANGED <<ledgerVars, today, events, report, faulty>>

\* One row for all attempts, dated when it is inserted.
TelemetryRow(c) == [day |-> today, attempts |-> call[c].attempts]

Record(c) ==
  /\ At(c, "recording")
  /\ events' = [events EXCEPT ![c] = TelemetryRow(c)]
  /\ Goto(c, "ended")
  /\ UNCHANGED <<ledgerVars, today, report, faulty>>

\* Best effort: the row is lost, the call goes on.
RecordFails(c) ==
  /\ At(c, "recording")
  /\ Goto(c, "ended")
  /\ UNCHANGED <<ledgerVars, today, events, report, faulty>>

MidnightUtc ==
  /\ today < LastDay
  /\ today' = today + 1
  /\ UNCHANGED <<ledgerVars, call, events, report, faulty>>

-----------------------------------------------------------------------------
(* The script: the rows of yesterday, and the telemetry of each. No row    *)
(* is dated yesterday any more, so its queries are one step.               *)

InScope(c, scope) == scope = Global \/ CallerOf[c] = scope

EventsOf(scope, day) ==
  {c \in Calls : InScope(c, scope) /\ events[c] # NoRow /\ events[c].day = day}

AttemptsIn(scope, day) == MapThenSumSet(LAMBDA c : events[c].attempts, EventsOf(scope, day))

Tolerance(spent) == LET rounded == (spent + 19) \div 20 IN IF rounded > 1 THEN rounded ELSE 1

\* classifyRequests
Anomaly_FaultyNoTolerance(row, attempts) == row.reserved # 0 \/ attempts # row.spent

Anomaly(row, attempts) ==
  \/ row.reserved # 0
  \/ attempts - row.spent > Tolerance(row.spent)
  \/ row.spent - attempts > Tolerance(row.spent)

\* A row is there from the first reservation on; without any there is no report.
ReconcilePeriod ==
  /\ report.period = 0 /\ today > 1
  /\ LET period == today - 1
         rows   == {scope \in Scopes : Charged(<<scope, period>>) # 0} IN
     /\ rows # {}
     /\ report' = [period |-> period, alarms |->
          {scope \in rows : Anomaly(ledger[<<scope, period>>], AttemptsIn(scope, period))}]
  /\ UNCHANGED <<ledgerVars, call, today, events, faulty>>

-----------------------------------------------------------------------------
Running(c) == call[c].state \notin {"idle", "ended"}

\* The process dies with its calls; PostgreSQL rolls open transactions back.
Crash ==
  /\ \E c \in Calls : Running(c)
  /\ call' = [c \in Calls |->
       IF Running(c) THEN [call[c] EXCEPT !.state = "ended", !.aborted = FALSE] ELSE call[c]]
  /\ held' = [c \in Calls |-> {}]
  /\ UNCHANGED <<ledger, today, events, report>>
  /\ faulty' = TRUE

\* No call is left: the server stays up.
Finished ==
  /\ \A c \in Calls : At(c, "ended")
  /\ UNCHANGED vars

Progress(c) ==
  \/ ReserveGlobal(c) \/ RefuseGlobal(c)
  \/ ReserveUser(c) \/ RefuseUser(c)
  \/ ReconcileGlobal(c) \/ ReconcileUser(c)
  \/ Retry(c) \/ Record(c)

Next ==
  \/ \E c \in Calls :
       \/ Start(c) \/ Disabled(c)
       \/ Progress(c)
       \/ ReservationFails(c) \/ ReconcileFails(c) \/ RecordFails(c)
       \/ TimerFires(c)
       \/ \E outcome \in Answers \cup {"timeout"} : ProviderAnswers(c, outcome)
  \/ MidnightUtc
  \/ ReconcilePeriod
  \/ Crash
  \/ Finished

Spec == Init /\ [][Next]_vars

(***************************************************************************)
(* The event loop takes what is ready, timers fire, and an aborted request *)
(* rejects. The provider owes no answer, nobody owes a call, and neither   *)
(* the database nor the process is assumed to fail or not to.              *)
(***************************************************************************)
Fairness ==
  /\ \A c \in Calls : /\ WF_vars(Progress(c))
                      /\ WF_vars(TimerFires(c))
                      /\ WF_vars(call[c].aborted /\ ProviderAnswers(c, "timeout"))

FairSpec == Spec /\ Fairness

-----------------------------------------------------------------------------
\* Requests sent under the reservations of a row.
SentUnder(row) ==
  {sent \in Calls \X (1 .. MaxAttempts) :
     LET requests == call[sent[1]].requests IN
     /\ InScope(sent[1], row[1])
     /\ sent[2] <= Len(requests)
     /\ requests[sent[2]].day = row[2]}

\* Attempts that still have their reservation to reconcile.
OpenUnder(row) ==
  {c \in Calls : /\ InScope(c, row[1])
                 /\ call[c].state \in {"calling", "reconciling", "settling"}
                 /\ call[c].day = row[2]}

\* With enforcement on, concurrent calls never carry a day past a cap.
CapsHold == Enforced => \A row \in Rows : Charged(row) <= Cap(row[1])

\* A row is locked by one transaction, a reservation or a reconciliation between its
\* two statements, and there is room for the increment of a reservation.
LocksExclusive ==
  \A c \in Calls :
    /\ held[c] = IF call[c].state \in {"holding", "settling"}
                 THEN {<<Global, call[c].day>>} ELSE {}
    /\ \A d \in Calls \ {c} : held[c] \cap held[d] = {}
    /\ At(c, "holding") => WithinCap(<<Global, call[c].day>>)

\* A call has sent a request for each attempt, but for the one the ledger has not
\* let pass; it begins no more than it is allowed, and while it has a reservation
\* its last request is that reservation's.
Counted(a) ==
  LET sent == Len(a.requests) IN
  /\ a.attempts \in {sent, sent + 1}
  /\ a.state \in {"reserving", "holding"} => a.attempts = sent + 1
  /\ a.state \in {"calling", "reconciling", "settling"} =>
       a.attempts = sent /\ sent > 0 /\ a.requests[sent].day = a.day
  /\ a.state = "waiting" => a.attempts = sent /\ sent < MaxAttempts
  /\ a.state = "idle" => a.attempts = 0

AttemptsCounted == \A c \in Calls : Counted(call[c])

(***************************************************************************)
(* No day is charged past a cap, the global one or a user's, whatever      *)
(* crashes, retries or is refused; with what keeps it so, the row locks of *)
(* open reservations, and what keeps a call within its attempts.           *)
(***************************************************************************)
BudgetInv == TypeOK /\ CapsHold /\ LocksExclusive /\ AttemptsCounted

(***************************************************************************)
(* A reservation is released once, and where it was made: a row has one    *)
(* for each attempt still open, and exactly those if nothing failed, so    *)
(* that what the reconciliation script calls a leak is one.                *)
(***************************************************************************)
ReservationsMatchAttempts ==
  \A row \in Rows :
    /\ Cardinality(OpenUnder(row)) <= ledger[row].reserved
    /\ ~faulty => Cardinality(OpenUnder(row)) = ledger[row].reserved

(***************************************************************************)
(* What an anomaly in the report means: a reservation that leaked or       *)
(* something else that failed, two calls refused in the middle of a retry, *)
(* or, what the script does not name, a call over midnight: a day it is    *)
(* charged to is not the one its row tells of, if it ever has a row.       *)
(***************************************************************************)
LastRefused(c) == call[c].attempts > Len(call[c].requests)

ToldOn(c, day) == events[c] # NoRow /\ events[c].day = day

Straddles(c, day) ==
  \E i \in 1 .. Len(call[c].requests) :
    LET charged == call[c].requests[i].day IN
    \/ charged = day /\ ~ToldOn(c, day)
    \/ charged # day /\ ToldOn(c, day)

ReportsExplained ==
  \A scope \in report.alarms :
    \/ faulty
    \/ \E c \in Calls : InScope(c, scope) /\ Straddles(c, report.period)
    \/ Cardinality({c \in EventsOf(scope, report.period) : LastRefused(c)}) > 1

\* Every call that starts ends: no lock, timer or retry keeps it for ever. Reservations
\* and reconciliations take the two rows in one order, so this needs no detection of
\* deadlocks (the order of the statements in reserveRequest and reconcileRequest).
CallsEnd == \A c \in Calls : Running(c) ~> ~Running(c)

(***************************************************************************)
(* gemini-ai.provider.ts:129 says that 429 is never repeated: a request    *)
(* the provider refused with 429 is the last of its call.                  *)
(***************************************************************************)
RateLimitNeverRetried ==
  \A c \in Calls : \A i \in 1 .. Len(call[c].requests) - 1 :
    call[c].requests[i].outcome # "rateLimited"

-----------------------------------------------------------------------------
\* The ledger and its calls implement the daily budget.
Budget == INSTANCE AiBudget WITH
  charged <- [user \in Users |-> [day \in Days |-> Charged(<<user, day>>)]],
  total   <- [day \in Days |-> Charged(<<Global, day>>)],
  sent    <- [user \in Users |-> [day \in Days |-> Cardinality(SentUnder(<<user, day>>))]]

ImplementsBudget == Budget!BudgetSpec

=============================================================================
