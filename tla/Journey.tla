------------------------------ MODULE Journey ------------------------------
(***************************************************************************)
(* The page that shows a demonstration: its session and the two lists of   *)
(* the session's stock (useJourney.ts).  Each procedure of the page is a   *)
(* task that sends requests and goes on when an answer comes; answers come *)
(* in any order, or not at all, and another tab changes the same session.  *)
(*                                                                         *)
(* The server's sessions are numbered as they succeed each other, and a    *)
(* stock is the number of changes made to it, by uploads and by decisions. *)
(* An upload changes the stock of the session shown, a decision that of    *)
(* the suggestion shown: they are not always the same stock.               *)
(*                                                                         *)
(* An operator called X_Faulty... is X with a plausible mistake in it: no  *)
(* definition uses it, the mutation runs put it in X's place.              *)
(***************************************************************************)
EXTENDS Naturals, Sequences

CONSTANTS
  Tasks,        \* procedures that may run on the page
  First,        \* the task that runs when the page is shown
  MaxSessions,  \* bound: sessions the server creates
  MaxChanges    \* bound: changes to one stock

ASSUME JourneyAssumption ==
  First \in Tasks /\ MaxSessions \in Nat \ {0} /\ MaxChanges \in Nat \ {0}

VARIABLES
  active,   \* server: the active session, 0 if there is none
  changes,  \* server: session -> changes made to its stock
  orphans,  \* requests the server may still get, though their task gave them up
  task,     \* where each task is
  page,     \* what the page shows, apart from the lists
  lists,    \* what it shows of the stock
  inFlight, \* inFlight.current
  cursor,   \* nextCursor.current is not null
  \* History:
  own,      \* what requests of this page have done to the server
  excuses   \* why the page may be behind its own requests

server == <<active, changes>>
history == <<own, excuses>>
vars == <<server, orphans, task, page, lists, inFlight, cursor, history>>

Sessions == 1 .. MaxSessions
Changing == {"upload", "decide"}
Exclusive == {"prepare", "restart"} \cup Changing
Kinds == {"initial", "reload", "more"} \cup Exclusive

\* asking: the request of the task itself; rereading: currentSession after a
\* failure; listing: loadStock; relisting: loadStock of refresh and of resync.
Places == {"idle", "asking", "listing", "rereading", "relisting", "done"}

\* An answer the task has not looked at.  Of a list: the stock and its changes.
Replies == [status : {"ok"}, session : Sessions]
           \cup [status : {"none", "notFound", "conflict", "error"}, session : {0}]
NoReply == [status |-> "none", session |-> 0]
Listed == [stock : Sessions, changes : 0 .. MaxChanges, part : {1, 2}]
None == [stock |-> 0, changes |-> 0, part |-> 1]

\* on: the session the procedure was started for; of: what its request is about.
Task == [kind : Kinds, at : Places, on : 0 .. MaxSessions, of : 0 .. MaxSessions, reply : Replies,
         products : Listed \cup {None}, suggestions : Listed \cup {None}]

Excuses == {"overlap", "readFailed", "late", "unanswered"}

TypeOK ==
  /\ active \in 0 .. MaxSessions
  /\ changes \in [Sessions -> 0 .. MaxChanges]
  /\ orphans \subseteq [by : Tasks, kind : Exclusive, of : 0 .. MaxSessions]
  /\ task \in [Tasks -> Task]
  /\ page \in [known : BOOLEAN, session : 0 .. MaxSessions,
               busy : {"no", "working", "refreshing"}]
  /\ lists \in [products : Seq(Listed), suggestions : Listed \cup {None}, more : BOOLEAN]
  /\ inFlight \in BOOLEAN /\ cursor \in BOOLEAN
  /\ own \in [active : 0 .. MaxSessions, changes : [Sessions -> 0 .. MaxChanges]]
  /\ excuses \subseteq Excuses

NoLists == [products |-> <<>>, suggestions |-> None, more |-> FALSE]

Idle(kind) == [kind |-> kind, at |-> "idle", on |-> 0, of |-> 0, reply |-> NoReply,
               products |-> None, suggestions |-> None]

Init ==
  /\ active \in {0, 1}
  /\ changes \in {[s \in Sessions |-> 0], [s \in Sessions |-> IF s = active THEN 1 ELSE 0]}
  /\ orphans = {}
  /\ task = [t \in Tasks |->
       IF t = First THEN [Idle("initial") EXCEPT !.at = "asking"] ELSE Idle("more")]
  /\ page = [known |-> FALSE, session |-> 0, busy |-> "no"]
  /\ lists = NoLists
  /\ inFlight = FALSE /\ cursor = FALSE
  /\ own = [active |-> 0, changes |-> [s \in Sessions |-> 0]]
  /\ excuses = {}

At(t, place) == task[t].at = place
Running(t) == task[t].at \notin {"idle", "done"}
Quiet == \A t \in Tasks : ~Running(t)

-----------------------------------------------------------------------------
(* The server.                                                             *)

\* A request of this page is carried out: what it did is its own.
Apply(kind, of) ==
  \/ /\ kind = "prepare" /\ active = 0
     /\ active' = 1 /\ own' = [own EXCEPT !.active = 1]
     /\ UNCHANGED changes
  \/ /\ kind = "restart" /\ of = active /\ active < MaxSessions
     /\ active' = active + 1 /\ own' = [own EXCEPT !.active = active + 1]
     /\ UNCHANGED changes
  \/ /\ kind \in Changing /\ changes[of] < MaxChanges
     /\ changes' = [changes EXCEPT ![of] = @ + 1]
     /\ own' = [own EXCEPT !.changes[of] = changes[of] + 1]
     /\ UNCHANGED active

\* What an answer without effect says: the session there is, or a refusal.
Found(kind, of) ==
  CASE kind = "restart" /\ of < active    -> {[status |-> "ok", session |-> of + 1]}
    [] kind = "prepare" /\ active > 0     -> {[status |-> "ok", session |-> active]}
    [] kind \in Changing                  -> {[status |-> "conflict", session |-> 0]}
    [] OTHER                              -> {}

Result(kind, of) == [status |-> "ok", session |-> IF kind \in Changing THEN of ELSE active']
Error == [status |-> "error", session |-> 0]

\* The answer comes with the effect, or an error answers for it all the same.
Serve(t) ==
  /\ At(t, "asking") /\ task[t].kind \in Exclusive /\ task[t].reply = NoReply
  /\ \/ /\ Apply(task[t].kind, task[t].of)
        /\ \/ /\ task' = [task EXCEPT ![t].reply = Result(task[t].kind, task[t].of)]
              /\ UNCHANGED excuses
           \/ /\ task' = [task EXCEPT ![t].reply = Error]
              /\ excuses' = excuses \cup {"unanswered"}
     \/ /\ \E reply \in Found(task[t].kind, task[t].of) \cup {Error} :
             task' = [task EXCEPT ![t].reply = reply]
        /\ UNCHANGED <<server, history>>
  /\ UNCHANGED <<orphans, page, lists, inFlight, cursor>>

ServeOrphan ==
  /\ \E request \in orphans :
       /\ Apply(request.kind, request.of)
       /\ orphans' = orphans \ {request}
  /\ excuses' = excuses \cup {"late"}
  /\ UNCHANGED <<task, page, lists, inFlight, cursor>>

OtherTab ==
  /\ \/ active = 0 /\ active' = 1 /\ UNCHANGED changes
     \/ active \in 1 .. MaxSessions - 1 /\ active' = active + 1 /\ UNCHANGED changes
     \/ /\ active > 0 /\ changes[active] < MaxChanges
        /\ changes' = [changes EXCEPT ![active] = @ + 1]
        /\ UNCHANGED active
  /\ UNCHANGED <<orphans, task, page, lists, inFlight, cursor, history>>

\* GET /demo/sessions/current.
AsksCurrent(t) == At(t, "rereading") \/ (At(t, "asking") /\ task[t].kind = "initial")

ServeCurrent(t) ==
  /\ AsksCurrent(t) /\ task[t].reply = NoReply
  /\ \E reply \in {Error, [status |-> IF active = 0 THEN "notFound" ELSE "ok",
                           session |-> active]} :
       task' = [task EXCEPT ![t].reply = reply]
  /\ UNCHANGED <<server, orphans, page, lists, inFlight, cursor, history>>

AsksLists(t) == task[t].at \in {"listing", "relisting"}
AsksPart(t) == At(t, "asking") /\ task[t].kind = "more"

Answered(stock, part) == [stock |-> stock, changes |-> changes[stock], part |-> part]

ServeProducts(t) ==
  /\ AsksLists(t) \/ AsksPart(t)
  /\ task[t].products = None
  /\ task' = [task EXCEPT ![t].products =
       Answered(task[t].on, IF AsksPart(t) THEN 2 ELSE 1)]
  /\ UNCHANGED <<server, orphans, page, lists, inFlight, cursor, history>>

ServeSuggestions(t) ==
  /\ AsksLists(t)
  /\ task[t].suggestions = None
  /\ task' = [task EXCEPT ![t].suggestions = Answered(task[t].on, 1)]
  /\ UNCHANGED <<server, orphans, page, lists, inFlight, cursor, history>>

-----------------------------------------------------------------------------
(* The page starts a procedure, where a panel offers it.                   *)

\* SessionPanel: preparing while there is no session, then restarting it.
OffersSession(kind, of) ==
  /\ kind \in {"prepare", "restart"} /\ of = page.session
  /\ kind = "prepare" <=> page.session = 0

\* UploadPanel sends a file to the stock of the session shown.
OffersUpload(kind, of) == kind = "upload" /\ of = page.session

\* ReviewPanel offers what is listed as pending, whatever stock it belongs to; a
\* stock has suggestions once an invoice has changed it.
OffersDecision(kind, of) ==
  kind = "decide" /\ lists.suggestions.changes > 0 /\ of = lists.suggestions.stock

\* JourneyPage shows the last three panels when it shows a session.
Offers(kind, of) ==
  \/ page.known /\ OffersSession(kind, of)
  \/ page.session # 0 /\ (OffersUpload(kind, of) \/ OffersDecision(kind, of))

\* StockPanel: refreshing, and the next page of a list that has one.
OffersRefresh == page.session # 0 /\ page.busy # "refreshing"
OffersMore == page.session # 0 /\ lists.more

Starts(t, kind, place, of) ==
  /\ At(t, "idle")
  /\ task' = [task EXCEPT ![t] =
       [Idle(kind) EXCEPT !.at = place, !.on = page.session, !.of = of]]
  /\ excuses' = IF Quiet THEN excuses ELSE excuses \cup {"overlap"}
  /\ UNCHANGED <<server, own, orphans, lists, cursor>>

\* One operation at a time, as far as the buttons tell.
BeginExclusive_FaultyByButtons(t, kind) ==
  \E of \in 0 .. MaxSessions :
    /\ page.busy = "no" /\ Offers(kind, of)
    /\ inFlight' = TRUE
    /\ page' = [page EXCEPT !.busy = "working"]
    /\ Starts(t, kind, "asking", of)

\* exclusive: the buttons are enabled, and no operation has the reference.
BeginExclusive(t, kind) ==
  \E of \in 0 .. MaxSessions :
    /\ page.busy = "no" /\ Offers(kind, of)
    /\ ~inFlight /\ inFlight' = TRUE
    /\ page' = [page EXCEPT !.busy = "working"]
    /\ Starts(t, kind, "asking", of)

Reload(t) ==
  /\ OffersRefresh
  /\ page' = [page EXCEPT !.busy = "refreshing"]
  /\ Starts(t, "reload", "relisting", page.session)
  /\ UNCHANGED inFlight

LoadMoreProducts(t) ==
  /\ OffersMore /\ cursor
  /\ Starts(t, "more", "asking", page.session)
  /\ UNCHANGED <<page, inFlight>>

-----------------------------------------------------------------------------
(* A procedure goes on with an answer.  `shown` is the page it has patched. *)

Goes(t, place, on) ==
  task' = [task EXCEPT ![t] = [Idle(task[t].kind) EXCEPT !.at = place, !.on = on]]

\* reload does not say that it is done.
Leaves_FaultyRefreshing(t, shown) ==
  /\ task' = [task EXCEPT ![t] = [Idle(task[t].kind) EXCEPT !.at = "done"]]
  /\ IF task[t].kind \in Exclusive
     THEN inFlight' = FALSE /\ page' = [shown EXCEPT !.busy = "no"]
     ELSE inFlight' = inFlight /\ page' = shown

\* The end of exclusive and of reload gives the buttons back.
Leaves(t, shown) ==
  /\ task' = [task EXCEPT ![t] = [Idle(task[t].kind) EXCEPT !.at = "done"]]
  /\ inFlight' = IF task[t].kind \in Exclusive THEN FALSE ELSE inFlight
  /\ page' = IF task[t].kind \in Exclusive \cup {"reload"}
             THEN [shown EXCEPT !.busy = "no"] ELSE shown

\* initial, prepare and restart show the session they are given.
TakeSession(t) ==
  /\ At(t, "asking") /\ task[t].kind \in {"initial", "prepare", "restart"}
  /\ task[t].reply.status = "ok"
  /\ page' = [page EXCEPT !.known = TRUE, !.session = task[t].reply.session]
  /\ lists' = IF task[t].kind = "initial" THEN lists ELSE NoLists
  /\ Goes(t, "listing", task[t].reply.session)
  /\ UNCHANGED <<server, history, orphans, inFlight, cursor>>

TakeChange(t) ==
  /\ At(t, "asking") /\ task[t].kind \in Changing
  /\ task[t].reply.status = "ok"
  /\ Goes(t, "listing", task[t].on)
  /\ UNCHANGED <<server, history, orphans, page, lists, inFlight, cursor>>

\* resyncSession: the session is shown at once, its lists when they come.
TakeCurrent(t) ==
  /\ At(t, "rereading")
  /\ task[t].reply.status = "ok"
  /\ page' = [page EXCEPT !.session = task[t].reply.session]
  /\ Goes(t, "relisting", task[t].reply.session)
  /\ UNCHANGED <<server, history, orphans, lists, inFlight, cursor>>

\* loadStock, whatever the page shows by now; a changed stock has a second page.
TakeLists(t) ==
  /\ AsksLists(t)
  /\ task[t].products # None /\ task[t].suggestions # None
  /\ cursor' = (task[t].products.changes > 0)
  /\ lists' = [products |-> <<task[t].products>>, suggestions |-> task[t].suggestions,
               more |-> task[t].products.changes > 0]
  /\ Leaves(t, page)
  /\ UNCHANGED <<server, history, orphans>>

TakePart(t) ==
  /\ AsksPart(t)
  /\ task[t].products # None
  /\ cursor' = FALSE
  /\ lists' = [lists EXCEPT !.products = Append(@, task[t].products), !.more = FALSE]
  /\ Leaves(t, page)
  /\ UNCHANGED <<server, history, orphans>>

-----------------------------------------------------------------------------
(* A procedure goes on with a failure: network, notFound, conflict, other. *)

Meets(t, failure) ==
  \/ failure = "network"
  \/ failure = "other" /\ (task[t].reply.status = "error" \/ AsksLists(t) \/ AsksPart(t))
  \/ failure \in {"conflict", "notFound"} /\ task[t].reply.status = failure

\* No answer is taken for no effect.
Rereads_FaultyConflictOnly(failure) == failure = "conflict"

\* describeFailure: which failures may have changed the state.
Rereads(failure) == failure \in {"network", "conflict"}

\* fail, except where the failure is swallowed.
Unbusy == [page EXCEPT !.busy = "no"]

\* A request without an answer may still be on its way.
GivesUp(t, failure) ==
  \/ UNCHANGED orphans
  \/ /\ failure = "network" /\ task[t].reply = NoReply
     /\ orphans' = orphans \cup {[by |-> t, kind |-> task[t].kind, of |-> task[t].of]}

\* The operation itself fails, or the lists after it.
OperationFails(t, failure) ==
  /\ Meets(t, failure)
  /\ task[t].kind \in Exclusive /\ task[t].at \in {"asking", "listing"}
  /\ IF Rereads(failure)
     THEN /\ Goes(t, IF task[t].kind \in Changing THEN "relisting" ELSE "rereading", task[t].on)
          /\ page' = Unbusy
          /\ UNCHANGED <<inFlight, excuses>>
     ELSE /\ Leaves(t, Unbusy)
          /\ excuses' = excuses \cup (IF At(t, "listing") THEN {"readFailed"} ELSE {})
  /\ IF At(t, "asking") THEN GivesUp(t, failure) ELSE UNCHANGED orphans
  /\ UNCHANGED <<server, own, lists, cursor>>

\* The first load shows no session, also when it had shown one.
InitialFails(t, failure) ==
  /\ Meets(t, failure)
  /\ task[t].kind = "initial" /\ Running(t)
  /\ Leaves(t, [known |-> TRUE, session |-> 0,
                busy |-> IF failure = "notFound" THEN page.busy ELSE "no"])
  /\ excuses' = IF failure = "notFound" THEN excuses ELSE excuses \cup {"readFailed"}
  /\ UNCHANGED <<server, own, orphans, lists, cursor>>

\* The rereading fails: nothing is known, or that there is no session.
RereadFails(t, failure) ==
  /\ Meets(t, failure)
  /\ At(t, "rereading") \/ (At(t, "relisting") /\ task[t].kind \in Exclusive)
  /\ IF failure = "notFound"
     THEN /\ Leaves(t, [page EXCEPT !.session = 0])
          /\ lists' = [lists EXCEPT !.products = <<>>, !.suggestions = None]
          /\ UNCHANGED excuses
     ELSE /\ Leaves(t, page)
          /\ excuses' = excuses \cup {"readFailed"}
          /\ UNCHANGED lists
  /\ UNCHANGED <<server, own, orphans, cursor>>

ReadFails(t, failure) ==
  /\ Meets(t, failure)
  /\ task[t].kind \in {"reload", "more"} /\ Running(t)
  /\ Leaves(t, Unbusy)
  /\ excuses' = excuses \cup {"readFailed"}
  /\ UNCHANGED <<server, own, orphans, lists, cursor>>

-----------------------------------------------------------------------------
Click(t) == (\E kind \in Exclusive : BeginExclusive(t, kind)) \/ Reload(t) \/ LoadMoreProducts(t)

ServerStep(t) == Serve(t) \/ ServeCurrent(t) \/ ServeProducts(t) \/ ServeSuggestions(t)

Take(t) == TakeSession(t) \/ TakeChange(t) \/ TakeCurrent(t) \/ TakeLists(t) \/ TakePart(t)

Fail(t) ==
  \E failure \in {"network", "notFound", "conflict", "other"} :
    \/ OperationFails(t, failure) \/ InitialFails(t, failure)
    \/ RereadFails(t, failure) \/ ReadFails(t, failure)

\* The page is left alone.
Rests == Quiet /\ UNCHANGED vars

Next ==
  \/ \E t \in Tasks : Click(t) \/ ServerStep(t) \/ Take(t) \/ Fail(t)
  \/ ServeOrphan \/ OtherTab \/ Rests

Spec == Init /\ [][Next]_vars

-----------------------------------------------------------------------------
\* Never do two operations that change the server run on one page, although
\* failures and reloads give the buttons back early (exclusive).
OneMutation ==
  \A t, u \in Tasks :
    t # u /\ task[t].kind \in Exclusive /\ task[u].kind \in Exclusive => ~(Running(t) /\ Running(u))

\* The reference tells which operation runs, and the buttons which procedure.
FlightTold ==
  /\ inFlight <=> \E t \in Tasks : task[t].kind \in Exclusive /\ Running(t)
  /\ page.busy = "working" => inFlight
  /\ page.busy = "refreshing" => \E t \in Tasks : task[t].kind = "reload" /\ Running(t)

\* When all is quiet the page shows at least what its own requests have done,
\* answered or not: whoever reads after a failure reads enough.  Excused are
\* procedures that overlap, reads that failed, an effect that came after the
\* failure was reported, and one that was answered with an error.
OwnWritesShown ==
  Quiet /\ excuses = {} =>
    /\ page.session >= own.active
    /\ page.session # 0 =>
         /\ lists.products # <<>>
         /\ \A list \in {lists.products[1], lists.suggestions} :
              /\ list.stock = page.session
              /\ list.changes >= own.changes[page.session]

\* No order of answers and failures leaves the page blocked: when all is quiet
\* the buttons are enabled and the next operation is let in (exclusive, reload).
Unblocked == Quiet => page.busy = "no" /\ ~inFlight

\* panels.tsx:62 says that after a restart the stock of before is not shown here
\* any more: even if no read fails, the lists are those of the session shown.
ListsBelong ==
  Quiet /\ page.session # 0 /\ "readFailed" \notin excuses =>
    /\ \A i \in DOMAIN lists.products : lists.products[i].stock = page.session
    /\ lists.suggestions.stock \in {0, page.session}
=============================================================================
