--------------------------- MODULE JourneyProofs ---------------------------
(***************************************************************************)
(* One operation at a time, and a page that is never left blocked, for any *)
(* number of procedures, sessions and changes.                             *)
(***************************************************************************)
EXTENDS Journey, TLAPS

\* Whoever asks for lists, or to change a stock, names a session.
Named ==
  /\ \A t \in Tasks :
       \/ task[t].at \in {"listing", "relisting"}
       \/ At(t, "asking") /\ task[t].kind \in Changing \cup {"more", "restart"}
       => task[t].on \in Sessions
  /\ \A t \in Tasks :
       At(t, "asking") /\ task[t].kind \in Changing => task[t].of \in Sessions
  /\ \A request \in orphans : request.kind \in Changing => request.of \in Sessions

\* The requests given up, as TypeOK and Named know them.
Orphans == {request \in [by : Tasks, kind : Exclusive, of : 0 .. MaxSessions] :
              request.kind \in Changing => request.of \in Sessions}

ExclusionInv == TypeOK /\ Named /\ OneMutation /\ FlightTold

\* A task that starts, goes on or leaves has nothing answered yet.
LEMMA FreshTask ==
  ASSUME NEW kind \in Kinds, NEW place \in Places, NEW on \in 0 .. MaxSessions,
         NEW of \in 0 .. MaxSessions
  PROVE  /\ [Idle(kind) EXCEPT !.at = place, !.on = on, !.of = of] \in Task
         /\ [Idle(kind) EXCEPT !.at = place, !.on = on] \in Task
         /\ [Idle(kind) EXCEPT !.at = place, !.on = on].kind = kind
         /\ [Idle(kind) EXCEPT !.at = place, !.on = on].at = place
         /\ [Idle(kind) EXCEPT !.at = place] \in Task
         /\ [Idle(kind) EXCEPT !.at = place].kind = kind
         /\ [Idle(kind) EXCEPT !.at = place].at = place
         /\ Idle(kind) \in Task
<1>1. NoReply \in Replies /\ 0 \in 0 .. MaxSessions
  BY JourneyAssumption DEF NoReply, Replies
<1>2. Idle(kind) \in Task
  BY <1>1 DEF Idle, Task, Places
<1> QED
  BY <1>1, <1>2 DEF Idle, Task

\* Init establishes the invariant: the first load is no operation.
LEMMA InitExclusion == Init => ExclusionInv
<1> SUFFICES ASSUME Init PROVE ExclusionInv
  OBVIOUS
<1> USE JourneyAssumption
<1>1. task \in [Tasks -> Task]
  <2>1. /\ 0 \in 0 .. MaxSessions
        /\ "more" \in Kinds /\ "initial" \in Kinds /\ "asking" \in Places
    BY DEF Kinds, Places
  <2>2. Idle("more") \in Task /\ [Idle("initial") EXCEPT !.at = "asking"] \in Task
    BY <2>1, FreshTask
  <2> QED
    BY <2>2 DEF Init
<1>2. TypeOK
  <2>1. changes \in [Sessions -> 0 .. MaxChanges]
    BY DEF Init
  <2>2. NoLists \in [products : Seq(Listed), suggestions : Listed \cup {None}, more : BOOLEAN]
    BY DEF NoLists
  <2>3. own \in [active : 0 .. MaxSessions, changes : [Sessions -> 0 .. MaxChanges]]
    BY DEF Init
  <2>4. page \in [known : BOOLEAN, session : 0 .. MaxSessions,
                  busy : {"no", "working", "refreshing"}]
    BY DEF Init
  <2>5. lists = NoLists /\ active \in 0 .. MaxSessions /\ orphans = {} /\ excuses = {}
    BY DEF Init
  <2>6. inFlight \in BOOLEAN /\ cursor \in BOOLEAN
    BY DEF Init
  <2> QED
    BY <1>1, <2>1, <2>2, <2>3, <2>4, <2>5, <2>6 DEF TypeOK
<1>3. OneMutation /\ FlightTold /\ Named
  BY DEF Init, OneMutation, FlightTold, Named, Running, At, Idle, Exclusive, Changing
<1> QED
  BY <1>2, <1>3 DEF ExclusionInv

-----------------------------------------------------------------------------
(* Exclusion.                                                              *)

\* A step of the server, or of a task that neither begins nor ends, keeps it; it
\* may give the buttons back.
LEMMA GoingOn ==
  ASSUME OneMutation, FlightTold, inFlight' = inFlight,
         page'.busy \in {page.busy, "no"},
         \A u \in Tasks : task'[u].kind = task[u].kind /\ (Running(u)' <=> Running(u))
  PROVE  OneMutation' /\ FlightTold'
<1>1. OneMutation'
  BY DEF OneMutation
<1>2. FlightTold'
  BY DEF FlightTold
<1> QED
  BY <1>1, <1>2

\* Nor does the end of a task break it: what it told about itself it takes back.
LEMMA Leaving ==
  ASSUME TypeOK, OneMutation, FlightTold, NEW t \in Tasks, Running(t), NEW shown,
         shown \in [known : BOOLEAN, session : 0 .. MaxSessions,
                    busy : {"no", "working", "refreshing"}],
         shown.busy \in {page.busy, "no"}, Leaves(t, shown)
  PROVE  OneMutation' /\ FlightTold'
<1>1. /\ \A u \in Tasks : task'[u].kind = task[u].kind
      /\ \A u \in Tasks \ {t} : task'[u] = task[u]
      /\ ~Running(t)'
  BY DEF TypeOK, Task, Leaves, Running, Idle
<1>2. \A u \in Tasks \ {t} : Running(u)' <=> Running(u)
  BY <1>1 DEF Running
<1>3. OneMutation'
  BY <1>1, <1>2 DEF OneMutation
<1>4. CASE task[t].kind \in Exclusive
  <2>1. \A u \in Tasks : ~(task'[u].kind \in Exclusive /\ Running(u)')
    BY <1>1, <1>2, <1>4 DEF OneMutation
  <2>2. inFlight' = FALSE /\ page'.busy = "no"
    BY <1>4 DEF Leaves
  <2> QED
    BY <1>3, <2>1, <2>2 DEF FlightTold
<1>5. CASE task[t].kind \notin Exclusive
  <2>1. inFlight' = inFlight
    BY <1>5 DEF Leaves
  <2>2. CASE task[t].kind = "reload"
    <3>1. page'.busy = "no"
      BY <2>2 DEF Leaves
    <3> QED
      BY <1>1, <1>2, <1>3, <1>5, <2>1, <3>1 DEF FlightTold
  <2>3. CASE task[t].kind # "reload"
    <3>1. page' = shown
      BY <1>5, <2>3 DEF Leaves
    <3> QED
      BY <1>1, <1>2, <1>3, <1>5, <2>1, <2>3, <3>1 DEF FlightTold
  <2> QED
    BY <2>2, <2>3
<1> QED
  BY <1>4, <1>5

\* A task that goes on is the same task, and it runs.
LEMMA GoesRuns ==
  ASSUME TypeOK, NEW t \in Tasks, Running(t),
         NEW place \in {"listing", "relisting", "rereading"}, NEW on, Goes(t, place, on)
  PROVE  \A u \in Tasks : task'[u].kind = task[u].kind /\ (Running(u)' <=> Running(u))
<1>1. task'[t].kind = task[t].kind /\ task'[t].at = place
  BY DEF TypeOK, Task, Goes, Idle
<1>2. \A u \in Tasks \ {t} : task'[u] = task[u]
  BY DEF TypeOK, Goes
<1> QED
  BY <1>1, <1>2 DEF Running

\* An answer that arrives starts and ends nothing.
LEMMA Answering ==
  ASSUME TypeOK, NEW t \in Tasks, NEW r,
         \/ task' = [task EXCEPT ![t].reply = r]
         \/ task' = [task EXCEPT ![t].products = r]
         \/ task' = [task EXCEPT ![t].suggestions = r]
  PROVE  \A u \in Tasks : task'[u].kind = task[u].kind /\ (Running(u)' <=> Running(u))
<1>1. task'[t].kind = task[t].kind /\ task'[t].at = task[t].at
  BY DEF TypeOK, Task
<1>2. \A u \in Tasks \ {t} : task'[u] = task[u]
  BY DEF TypeOK
<1> QED
  BY <1>1, <1>2 DEF Running

\* The first step of a procedure: an exclusive one found nobody in its way.
LEMMA Starting ==
  ASSUME TypeOK, OneMutation, FlightTold, NEW t \in Tasks, Click(t)
  PROVE  OneMutation' /\ FlightTold'
<1>1. ASSUME NEW kind \in Kinds, NEW place \in {"asking", "relisting"},
             NEW of, Starts(t, kind, place, of)
      PROVE  /\ task'[t].kind = kind /\ Running(t)'
             /\ \A u \in Tasks \ {t} : task'[u] = task[u] /\ (Running(u)' <=> Running(u))
             /\ ~Running(t)
  BY <1>1 DEF TypeOK, Task, Starts, Idle, Running, At
<1>2. ASSUME NEW kind \in Exclusive, BeginExclusive(t, kind) PROVE OneMutation' /\ FlightTold'
  <2>1. kind \in Kinds /\ \E of : Starts(t, kind, "asking", of)
    BY <1>2 DEF BeginExclusive, Kinds
  <2>2. ~inFlight /\ inFlight' /\ page'.busy = "working"
    BY <1>2 DEF BeginExclusive, TypeOK
  <2> QED
    BY <1>1, <2>1, <2>2 DEF OneMutation, FlightTold
<1>3. CASE Reload(t)
  <2>1. Starts(t, "reload", "relisting", page.session) /\ "reload" \in Kinds
    BY <1>3 DEF Reload, Kinds
  <2>2. inFlight' = inFlight /\ page'.busy = "refreshing"
    BY <1>3 DEF Reload, TypeOK
  <2> QED
    BY <1>1, <2>1, <2>2 DEF OneMutation, FlightTold, Exclusive, Changing
<1>4. CASE LoadMoreProducts(t)
  <2>1. Starts(t, "more", "asking", page.session) /\ "more" \in Kinds
    BY <1>4 DEF LoadMoreProducts, Kinds
  <2>2. inFlight' = inFlight /\ page' = page
    BY <1>4 DEF LoadMoreProducts
  <2> QED
    BY <1>1, <2>1, <2>2 DEF OneMutation, FlightTold, Exclusive, Changing
<1> QED
  BY <1>2, <1>3, <1>4 DEF Click

-----------------------------------------------------------------------------
(* Types.                                                                  *)

Pages == [known : BOOLEAN, session : 0 .. MaxSessions, busy : {"no", "working", "refreshing"}]

ListsShown == [products : Seq(Listed), suggestions : Listed \cup {None}, more : BOOLEAN]

\* A task that goes on or leaves has its type.
LEMMA MovesTyped ==
  ASSUME TypeOK, NEW t \in Tasks
  PROVE  /\ \A place \in Places, on \in 0 .. MaxSessions :
              Goes(t, place, on) => task' \in [Tasks -> Task]
         /\ \A shown \in Pages : Leaves(t, shown) =>
              task' \in [Tasks -> Task] /\ inFlight' \in BOOLEAN /\ page' \in Pages
<1>1. task[t].kind \in Kinds
  BY DEF TypeOK, Task
<1>2. ASSUME NEW place \in Places, NEW on \in 0 .. MaxSessions, Goes(t, place, on)
      PROVE  task' \in [Tasks -> Task]
  BY <1>1, <1>2, FreshTask DEF TypeOK, Goes
<1>3. ASSUME NEW shown \in Pages, Leaves(t, shown)
      PROVE  task' \in [Tasks -> Task] /\ inFlight' \in BOOLEAN /\ page' \in Pages
  <2>1. "done" \in Places /\ 0 \in 0 .. MaxSessions
    BY JourneyAssumption DEF Places
  <2>2. [Idle(task[t].kind) EXCEPT !.at = "done"] \in Task
    BY <1>1, <2>1, FreshTask
  <2>3. task' \in [Tasks -> Task]
    BY <1>3, <2>2 DEF TypeOK, Leaves
  <2>4. inFlight' \in BOOLEAN /\ page' \in Pages
    BY <1>3 DEF TypeOK, Leaves, Pages
  <2> QED
    BY <2>3, <2>4
<1> QED
  BY <1>2, <1>3

\* The server's part of the state, whoever's request is carried out.
LEMMA ApplyTyped ==
  ASSUME TypeOK, NEW kind, NEW of \in 0 .. MaxSessions, kind \in Changing => of \in Sessions,
         Apply(kind, of)
  PROVE  /\ active' \in 0 .. MaxSessions
         /\ changes' \in [Sessions -> 0 .. MaxChanges]
         /\ own' \in [active : 0 .. MaxSessions, changes : [Sessions -> 0 .. MaxChanges]]
<1> USE JourneyAssumption DEF TypeOK, Sessions
<1>1. CASE kind = "prepare" /\ active = 0 /\ active' = 1 /\ own' = [own EXCEPT !.active = 1]
           /\ UNCHANGED changes
  BY <1>1
<1>2. CASE /\ kind = "restart" /\ of = active /\ active < MaxSessions
           /\ active' = active + 1 /\ own' = [own EXCEPT !.active = active + 1]
           /\ UNCHANGED changes
  BY <1>2
<1>3. CASE /\ kind \in Changing /\ changes[of] < MaxChanges
           /\ changes' = [changes EXCEPT ![of] = @ + 1]
           /\ own' = [own EXCEPT !.changes[of] = changes[of] + 1]
           /\ UNCHANGED active
  <2>1. changes[of] + 1 \in 0 .. MaxChanges
    BY <1>3
  <2> QED
    BY <1>3, <2>1
<1> QED
  BY <1>1, <1>2, <1>3 DEF Apply

\* Where a task goes, it names a session if it has to.
LEMMA GoesNamed ==
  ASSUME TypeOK, Named, orphans' \subseteq Orphans, NEW t \in Tasks,
         NEW place \in {"listing", "relisting", "rereading"}, NEW on,
         place # "rereading" => on \in Sessions, Goes(t, place, on)
  PROVE  Named'
<1>1. task'[t].at = place /\ task'[t].on = on
  BY DEF TypeOK, Task, Goes, Idle
<1>2. \A u \in Tasks \ {t} : task'[u] = task[u]
  BY DEF TypeOK, Goes
<1> QED
  BY <1>1, <1>2 DEF Named, At, Orphans

\* A task that leaves asks for nothing.
LEMMA LeavesNamed ==
  ASSUME TypeOK, Named, orphans' \subseteq Orphans, NEW t \in Tasks, NEW shown, Leaves(t, shown)
  PROVE  Named'
<1>1. task'[t].at = "done"
  BY DEF TypeOK, Task, Leaves, Idle
<1>2. \A u \in Tasks \ {t} : task'[u] = task[u]
  BY DEF TypeOK, Leaves
<1> QED
  BY <1>1, <1>2 DEF Named, At, Orphans

\* An answer changes nothing of what was asked.
LEMMA AnswerNamed ==
  ASSUME TypeOK, Named, orphans' = orphans, NEW t \in Tasks, NEW r,
         \/ task' = [task EXCEPT ![t].reply = r]
         \/ task' = [task EXCEPT ![t].products = r]
         \/ task' = [task EXCEPT ![t].suggestions = r]
  PROVE  Named'
<1>1. /\ task'[t].at = task[t].at /\ task'[t].kind = task[t].kind
      /\ task'[t].on = task[t].on /\ task'[t].of = task[t].of
  BY DEF TypeOK, Task
<1>2. \A u \in Tasks \ {t} : task'[u] = task[u]
  BY DEF TypeOK
<1> QED
  BY <1>1, <1>2 DEF Named, At

-----------------------------------------------------------------------------
(* One lemma for each group of actions.                                    *)

\* The page starts a procedure.
LEMMA ClickKeeps ==
  ASSUME ExclusionInv, NEW t \in Tasks, Click(t)
  PROVE  ExclusionInv'
<1> USE DEF ExclusionInv
<1>1. OneMutation' /\ FlightTold'
  BY Starting
<1>2. ASSUME NEW kind \in Kinds, NEW place \in {"asking", "relisting"},
             NEW of \in 0 .. MaxSessions, Starts(t, kind, place, of),
             page.session \in Sessions \/ (kind = "prepare" /\ place = "asking"),
             kind \in Changing => of \in Sessions
      PROVE  task' \in [Tasks -> Task] /\ Named' /\ excuses' \subseteq Excuses
  <2>1. place \in Places /\ page.session \in 0 .. MaxSessions
    BY DEF Places, TypeOK
  <2>2. [Idle(kind) EXCEPT !.at = place, !.on = page.session, !.of = of] \in Task
    BY <2>1, FreshTask
  <2>3. task' \in [Tasks -> Task]
    BY <1>2, <2>2 DEF Starts, TypeOK
  <2>4. /\ task'[t].at = place /\ task'[t].kind = kind
        /\ task'[t].on = page.session /\ task'[t].of = of
    BY <1>2 DEF Starts, TypeOK, Task, Idle
  <2>5. \A u \in Tasks \ {t} : task'[u] = task[u]
    BY <1>2 DEF Starts, TypeOK
  <2>6. Named'
    BY <1>2, <2>4, <2>5 DEF Named, At, Starts, Changing
  <2> QED
    BY <1>2, <2>3, <2>6 DEF Starts, TypeOK, Excuses
<1>3. ASSUME NEW kind \in Kinds, NEW place \in {"asking", "relisting"},
             NEW of \in 0 .. MaxSessions, Starts(t, kind, place, of),
             page.session \in Sessions \/ (kind = "prepare" /\ place = "asking"),
             kind \in Changing => of \in Sessions,
             page' \in Pages, inFlight' \in BOOLEAN
      PROVE  TypeOK' /\ Named'
  BY <1>2, <1>3 DEF Starts, TypeOK, Pages, server
<1>4. page.session # 0 => page.session \in Sessions
  BY JourneyAssumption DEF TypeOK, Sessions
<1>5. ASSUME NEW kind \in Exclusive, BeginExclusive(t, kind) PROVE TypeOK' /\ Named'
  <2>1. page' \in Pages /\ inFlight' \in BOOLEAN
    BY <1>5 DEF BeginExclusive, Pages, TypeOK
  <2>2. PICK of \in 0 .. MaxSessions : Offers(kind, of) /\ Starts(t, kind, "asking", of)
    BY <1>5 DEF BeginExclusive
  <2>3. lists.suggestions.changes > 0 => lists.suggestions.stock \in Sessions
    BY DEF TypeOK, Listed, None
  <2>4. page.session \in Sessions \/ kind = "prepare"
    BY <1>4, <2>2 DEF Offers, OffersSession
  <2>5. kind \in Changing => of \in Sessions
    BY <1>4, <2>2, <2>3 DEF Offers, OffersSession, OffersUpload, OffersDecision, Changing
  <2>6. kind \in Kinds
    BY <1>5 DEF Kinds
  <2> QED
    BY <1>3, <2>1, <2>2, <2>4, <2>5, <2>6
<1>6. ASSUME Reload(t) PROVE TypeOK' /\ Named'
  <2>1. page' \in Pages /\ inFlight' \in BOOLEAN
    BY <1>6 DEF Reload, Pages, TypeOK
  <2>2. /\ Starts(t, "reload", "relisting", page.session)
        /\ "reload" \in Kinds /\ "reload" \notin Changing /\ page.session \in Sessions
    BY <1>4, <1>6 DEF Reload, OffersRefresh, Kinds, Changing
  <2> QED
    BY <1>3, <2>1, <2>2 DEF Sessions
<1>7. ASSUME LoadMoreProducts(t) PROVE TypeOK' /\ Named'
  <2>1. page' \in Pages /\ inFlight' \in BOOLEAN
    BY <1>7 DEF LoadMoreProducts, Pages, TypeOK
  <2>2. /\ Starts(t, "more", "asking", page.session)
        /\ "more" \in Kinds /\ "more" \notin Changing /\ page.session \in Sessions
    BY <1>4, <1>7 DEF LoadMoreProducts, OffersMore, Kinds, Changing
  <2> QED
    BY <1>3, <2>1, <2>2 DEF Sessions
<1>8. TypeOK' /\ Named'
  BY <1>5, <1>6, <1>7 DEF Click
<1> QED
  BY <1>1, <1>8

\* The server answers, carries out a request, or changes for another reason.
LEMMA ServerKeeps ==
  ASSUME ExclusionInv, ServeOrphan \/ OtherTab \/ \E t \in Tasks : ServerStep(t)
  PROVE  ExclusionInv'
<1> USE JourneyAssumption DEF ExclusionInv
<1>1. ASSUME NEW t \in Tasks, NEW r \in Replies, task' = [task EXCEPT ![t].reply = r],
             UNCHANGED <<orphans, page, lists, inFlight, cursor>>,
             active' \in 0 .. MaxSessions,
             changes' \in [Sessions -> 0 .. MaxChanges],
             own' \in [active : 0 .. MaxSessions, changes : [Sessions -> 0 .. MaxChanges]],
             excuses' \subseteq Excuses
      PROVE  ExclusionInv'
  <2>1. task' \in [Tasks -> Task]
    <3>1. [task[t] EXCEPT !.reply = r] \in Task
      BY DEF TypeOK, Task
    <3> QED
      BY <1>1, <3>1 DEF TypeOK
  <2>2. TypeOK'
    BY <1>1, <2>1 DEF TypeOK
  <2>3. \A u \in Tasks : task'[u].kind = task[u].kind /\ (Running(u)' <=> Running(u))
    BY <1>1, Answering
  <2>4. page'.busy \in {page.busy, "no"} /\ inFlight' = inFlight /\ orphans' = orphans
    BY <1>1
  <2>5. OneMutation' /\ FlightTold'
    BY <2>3, <2>4, GoingOn
  <2>6. Named'
    BY <1>1, <2>4, AnswerNamed
  <2> QED
    BY <2>2, <2>5, <2>6
<1>2. ASSUME NEW t \in Tasks, Serve(t) PROVE ExclusionInv'
  <2>1. /\ task[t].of \in 0 .. MaxSessions
        /\ task[t].kind \in Changing => task[t].of \in Sessions
    BY <1>2 DEF Serve, TypeOK, Task, Named, At
  <2>2. Error \in Replies /\ Found(task[t].kind, task[t].of) \subseteq Replies
    <3>1. CASE task[t].kind = "restart" /\ task[t].of < active
      BY <2>1, <3>1 DEF Found, Replies, Error, Sessions, TypeOK
    <3>2. CASE task[t].kind = "prepare" /\ active > 0
      BY <3>2 DEF Found, Replies, Error, Sessions, TypeOK
    <3>3. CASE task[t].kind \in Changing
      BY <3>3 DEF Found, Replies, Error, Changing
    <3>4. CASE /\ ~(task[t].kind = "restart" /\ task[t].of < active)
               /\ ~(task[t].kind = "prepare" /\ active > 0)
               /\ task[t].kind \notin Changing
      BY <3>4 DEF Found, Replies, Error
    <3> QED
      BY <3>1, <3>2, <3>3, <3>4
  <2>3. UNCHANGED <<orphans, page, lists, inFlight, cursor>>
    BY <1>2 DEF Serve
  <2>4. CASE Apply(task[t].kind, task[t].of)
             /\ \/ /\ task' = [task EXCEPT ![t].reply = Result(task[t].kind, task[t].of)]
                   /\ UNCHANGED excuses
                \/ /\ task' = [task EXCEPT ![t].reply = Error]
                   /\ excuses' = excuses \cup {"unanswered"}
    <3>1. /\ active' \in 0 .. MaxSessions
          /\ changes' \in [Sessions -> 0 .. MaxChanges]
          /\ own' \in [active : 0 .. MaxSessions, changes : [Sessions -> 0 .. MaxChanges]]
      BY <2>1, <2>4, ApplyTyped
    <3>2. Result(task[t].kind, task[t].of) \in Replies
      BY <2>1, <2>4, <3>1 DEF Result, Replies, Apply, Sessions, TypeOK, Changing
    <3>3. excuses' \subseteq Excuses
      BY <2>4 DEF TypeOK, Excuses
    <3> QED
      BY <1>1, <2>2, <2>3, <2>4, <3>1, <3>2, <3>3
  <2>5. CASE /\ \E reply \in Found(task[t].kind, task[t].of) \cup {Error} :
                  task' = [task EXCEPT ![t].reply = reply]
             /\ UNCHANGED <<server, history>>
    <3>1. /\ active' \in 0 .. MaxSessions
          /\ changes' \in [Sessions -> 0 .. MaxChanges]
          /\ own' \in [active : 0 .. MaxSessions, changes : [Sessions -> 0 .. MaxChanges]]
          /\ excuses' \subseteq Excuses
      BY <2>5 DEF server, history, TypeOK
    <3> QED
      BY <1>1, <2>2, <2>3, <2>5, <3>1
  <2> QED
    BY <1>2, <2>4, <2>5 DEF Serve
<1>3. ASSUME NEW t \in Tasks, ServeCurrent(t) PROVE ExclusionInv'
  <2>1. \A reply \in {Error, [status |-> IF active = 0 THEN "notFound" ELSE "ok",
                              session |-> active]} : reply \in Replies
    BY DEF Error, Replies, Sessions, TypeOK
  <2>2. /\ active' \in 0 .. MaxSessions
        /\ changes' \in [Sessions -> 0 .. MaxChanges]
        /\ own' \in [active : 0 .. MaxSessions, changes : [Sessions -> 0 .. MaxChanges]]
        /\ excuses' \subseteq Excuses
        /\ UNCHANGED <<orphans, page, lists, inFlight, cursor>>
    BY <1>3 DEF ServeCurrent, server, history, TypeOK
  <2> QED
    BY <1>1, <1>3, <2>1, <2>2 DEF ServeCurrent
<1>4. ASSUME NEW t \in Tasks, ServeProducts(t) \/ ServeSuggestions(t) PROVE ExclusionInv'
  <2>1. task[t].on \in Sessions
    BY <1>4 DEF ServeProducts, ServeSuggestions, AsksLists, AsksPart, Named, At
  <2>2. PICK r \in Listed : \/ task' = [task EXCEPT ![t].products = r]
                            \/ task' = [task EXCEPT ![t].suggestions = r]
    <3>1. \A part \in {1, 2} : Answered(task[t].on, part) \in Listed
      BY <2>1 DEF Answered, Listed, TypeOK
    <3> QED
      BY <1>4, <3>1 DEF ServeProducts, ServeSuggestions
  <2>3. task' \in [Tasks -> Task]
    <3>1. [task[t] EXCEPT !.products = r] \in Task /\ [task[t] EXCEPT !.suggestions = r] \in Task
      BY DEF TypeOK, Task
    <3> QED
      BY <2>2, <3>1 DEF TypeOK
  <2>4. UNCHANGED <<server, orphans, page, lists, inFlight, cursor, history>>
    BY <1>4 DEF ServeProducts, ServeSuggestions
  <2>5. TypeOK'
    BY <2>3, <2>4 DEF TypeOK, server, history
  <2>6. \A u \in Tasks : task'[u].kind = task[u].kind /\ (Running(u)' <=> Running(u))
    BY <2>2, Answering
  <2>7. page'.busy \in {page.busy, "no"} /\ inFlight' = inFlight /\ orphans' = orphans
    BY <2>4
  <2>8. OneMutation' /\ FlightTold'
    BY <2>6, <2>7, GoingOn
  <2>9. Named'
    BY <2>2, <2>7, AnswerNamed
  <2> QED
    BY <2>5, <2>8, <2>9
<1>5. ASSUME UNCHANGED <<task, page, lists, inFlight, cursor>>, orphans' \subseteq orphans,
             active' \in 0 .. MaxSessions,
             changes' \in [Sessions -> 0 .. MaxChanges],
             own' \in [active : 0 .. MaxSessions, changes : [Sessions -> 0 .. MaxChanges]],
             excuses' \subseteq Excuses
      PROVE  ExclusionInv'
  <2>1. TypeOK'
    BY <1>5 DEF TypeOK
  <2>2. Named'
    BY <1>5 DEF Named, At
  <2>3. OneMutation' /\ FlightTold'
    BY <1>5 DEF OneMutation, FlightTold, Running
  <2> QED
    BY <2>1, <2>2, <2>3
<1>6. CASE ServeOrphan
  <2>1. PICK request \in orphans :
          Apply(request.kind, request.of) /\ orphans' = orphans \ {request}
    BY <1>6 DEF ServeOrphan
  <2>2. request.of \in 0 .. MaxSessions /\ (request.kind \in Changing => request.of \in Sessions)
    BY DEF TypeOK, Named
  <2>3. /\ active' \in 0 .. MaxSessions
        /\ changes' \in [Sessions -> 0 .. MaxChanges]
        /\ own' \in [active : 0 .. MaxSessions, changes : [Sessions -> 0 .. MaxChanges]]
    BY <2>1, <2>2, ApplyTyped
  <2>4. /\ UNCHANGED <<task, page, lists, inFlight, cursor>>
        /\ excuses' \subseteq Excuses /\ orphans' \subseteq orphans
    BY <1>6, <2>1 DEF ServeOrphan, TypeOK, Excuses
  <2> QED
    BY <1>5, <2>3, <2>4
<1>7. CASE OtherTab
  <2>1. /\ active' \in 0 .. MaxSessions
        /\ changes' \in [Sessions -> 0 .. MaxChanges]
    <3>1. CASE active' \in {1, active + 1} /\ active < MaxSessions /\ UNCHANGED changes
      BY <3>1 DEF TypeOK
    <3>2. CASE /\ active > 0 /\ changes[active] < MaxChanges /\ UNCHANGED active
               /\ changes' = [changes EXCEPT ![active] = @ + 1]
      <4>1. active \in Sessions
        BY <3>2 DEF TypeOK, Sessions
      <4>2. changes[active] + 1 \in 0 .. MaxChanges
        BY <3>2, <4>1 DEF TypeOK
      <4> QED
        BY <3>2, <4>2 DEF TypeOK
    <3> QED
      BY <1>7, <3>1, <3>2 DEF OtherTab, TypeOK
  <2>2. UNCHANGED <<orphans, task, page, lists, inFlight, cursor, history>>
    BY <1>7 DEF OtherTab
  <2>3. own' \in [active : 0 .. MaxSessions, changes : [Sessions -> 0 .. MaxChanges]]
        /\ excuses' \subseteq Excuses
    BY <2>2 DEF history, TypeOK
  <2> QED
    BY <1>5, <2>1, <2>2, <2>3
<1> HIDE DEF ExclusionInv
<1> QED
  BY <1>2, <1>3, <1>4, <1>6, <1>7 DEF ServerStep

\* A task that goes on keeps the invariant, given the page it shows.
LEMMA GoesKeeps ==
  ASSUME ExclusionInv, NEW t \in Tasks, Running(t),
         NEW place \in {"listing", "relisting", "rereading"}, NEW on \in 0 .. MaxSessions,
         place # "rereading" => on \in Sessions, Goes(t, place, on),
         page' \in Pages, page'.busy \in {page.busy, "no"}, lists' \in ListsShown,
         orphans' \subseteq Orphans, UNCHANGED <<server, own, excuses, inFlight, cursor>>
  PROVE  ExclusionInv'
<1> USE DEF ExclusionInv
<1>1. task' \in [Tasks -> Task]
  BY MovesTyped DEF Places
<1>2. TypeOK'
  BY <1>1 DEF TypeOK, Pages, ListsShown, Orphans, server
<1>3. orphans' \subseteq Orphans /\ inFlight' = inFlight
  OBVIOUS
<1>4. Named'
  BY <1>3, GoesNamed
<1>5. \A u \in Tasks : task'[u].kind = task[u].kind /\ (Running(u)' <=> Running(u))
  BY GoesRuns
<1>6. OneMutation' /\ FlightTold'
  BY <1>3, <1>5, GoingOn
<1> QED
  BY <1>2, <1>4, <1>6

\* So does one that leaves.
LEMMA LeavesKeeps ==
  ASSUME ExclusionInv, NEW t \in Tasks, Running(t), NEW shown \in Pages,
         shown.busy \in {page.busy, "no"}, Leaves(t, shown), lists' \in ListsShown,
         cursor' \in BOOLEAN, excuses' \subseteq Excuses,
         orphans' \subseteq Orphans, UNCHANGED <<server, own>>
  PROVE  ExclusionInv'
<1> USE DEF ExclusionInv
<1>1. task' \in [Tasks -> Task] /\ inFlight' \in BOOLEAN /\ page' \in Pages
  BY MovesTyped
<1>2. TypeOK'
  BY <1>1 DEF TypeOK, Pages, ListsShown, Orphans, server
<1>3. orphans' \subseteq Orphans
  OBVIOUS
<1>4. Named'
  BY <1>3, LeavesNamed
<1>5. OneMutation' /\ FlightTold'
  BY Leaving DEF Pages
<1> QED
  BY <1>2, <1>4, <1>5

\* A procedure goes on with an answer.
LEMMA TakeKeeps ==
  ASSUME ExclusionInv, NEW t \in Tasks, Take(t)
  PROVE  ExclusionInv'
<1>1. page \in Pages /\ lists \in ListsShown /\ task[t] \in Task /\ cursor \in BOOLEAN
      /\ excuses \subseteq Excuses /\ orphans \subseteq Orphans
  BY DEF ExclusionInv, TypeOK, Named, Pages, ListsShown, Orphans
<1>2. CASE TakeSession(t)
  <2>1. task[t].reply.session \in Sessions /\ Running(t)
    BY <1>1, <1>2 DEF TakeSession, Task, Replies, At, Running
  <2>2. task[t].reply.session \in 0 .. MaxSessions
    BY <2>1 DEF Sessions
  <2>3. page' \in Pages /\ page'.busy = page.busy
    BY <1>1, <1>2, <2>2 DEF TakeSession, Pages
  <2>4. lists' \in ListsShown
    BY <1>1, <1>2 DEF TakeSession, NoLists, ListsShown
  <2>5. Goes(t, "listing", task[t].reply.session)
        /\ UNCHANGED <<server, own, excuses, orphans, inFlight, cursor>>
    BY <1>2 DEF TakeSession, history
  <2> QED
    BY <1>1, <2>1, <2>2, <2>3, <2>4, <2>5, GoesKeeps
<1>3. CASE TakeChange(t)
  <2>1. task[t].on \in Sessions /\ Running(t)
    BY <1>3 DEF TakeChange, ExclusionInv, Named, At, Running
  <2>2. task[t].on \in 0 .. MaxSessions
    BY <2>1 DEF Sessions
  <2>3. /\ Goes(t, "listing", task[t].on) /\ page' = page /\ lists' = lists
        /\ UNCHANGED <<server, own, excuses, orphans, inFlight, cursor>>
    BY <1>3 DEF TakeChange, history
  <2> QED
    BY <1>1, <2>1, <2>2, <2>3, GoesKeeps
<1>4. CASE TakeCurrent(t)
  <2>1. task[t].reply.session \in Sessions /\ Running(t)
    BY <1>1, <1>4 DEF TakeCurrent, Task, Replies, At, Running
  <2>2. task[t].reply.session \in 0 .. MaxSessions
    BY <2>1 DEF Sessions
  <2>3. page' \in Pages /\ page'.busy = page.busy
    BY <1>1, <1>4, <2>2 DEF TakeCurrent, Pages
  <2>4. /\ Goes(t, "relisting", task[t].reply.session) /\ lists' = lists
        /\ UNCHANGED <<server, own, excuses, orphans, inFlight, cursor>>
    BY <1>4 DEF TakeCurrent, history
  <2> QED
    BY <1>1, <2>1, <2>2, <2>3, <2>4, GoesKeeps
<1>5. CASE TakeLists(t)
  <2>1. task[t].products \in Listed /\ task[t].suggestions \in Listed
    BY <1>1, <1>5 DEF TakeLists, Task
  <2>2. lists' \in ListsShown /\ cursor' \in BOOLEAN
    BY <1>5, <2>1 DEF TakeLists, ListsShown
  <2>3. Running(t) /\ Leaves(t, page) /\ UNCHANGED <<server, own, excuses, orphans>>
    BY <1>5 DEF TakeLists, AsksLists, Running, history
  <2> QED
    BY <1>1, <2>2, <2>3, LeavesKeeps
<1>6. CASE TakePart(t)
  <2>1. task[t].products \in Listed
    BY <1>1, <1>6 DEF TakePart, Task
  <2>2. lists' \in ListsShown /\ cursor' \in BOOLEAN
    <3>1. lists.products \in Seq(Listed)
      BY <1>1 DEF ListsShown
    <3> DEFINE longer == Append(lists.products, task[t].products)
    <3>2. longer \in Seq(Listed)
      BY <2>1, <3>1
    <3>3. lists' = [lists EXCEPT !.products = longer, !.more = FALSE] /\ cursor' = FALSE
      BY <1>6 DEF TakePart
    <3> HIDE DEF longer
    <3> QED
      BY <1>1, <3>2, <3>3 DEF ListsShown
  <2>3. Running(t) /\ Leaves(t, page) /\ UNCHANGED <<server, own, excuses, orphans>>
    BY <1>6 DEF TakePart, AsksPart, At, Running, history
  <2> QED
    BY <1>1, <2>2, <2>3, LeavesKeeps
<1> QED
  BY <1>2, <1>3, <1>4, <1>5, <1>6 DEF Take

\* A procedure goes on with a failure.
LEMMA FailKeeps ==
  ASSUME ExclusionInv, NEW t \in Tasks, Fail(t)
  PROVE  ExclusionInv'
<1>1. /\ page \in Pages /\ lists \in ListsShown /\ task[t] \in Task /\ cursor \in BOOLEAN
      /\ excuses \subseteq Excuses /\ orphans \subseteq Orphans
  BY DEF ExclusionInv, TypeOK, Named, Pages, ListsShown, Orphans
<1>2. /\ Unbusy \in Pages /\ Unbusy.busy = "no"
      /\ \A e \in Excuses : excuses \cup {e} \subseteq Excuses
  BY <1>1 DEF Unbusy, Pages
<1>3. PICK failure \in {"network", "notFound", "conflict", "other"} :
        \/ OperationFails(t, failure) \/ InitialFails(t, failure)
        \/ RereadFails(t, failure) \/ ReadFails(t, failure)
  BY DEF Fail
<1>4. CASE OperationFails(t, failure)
  <2>1. Running(t) /\ lists' = lists /\ cursor' = cursor /\ server' = server /\ own' = own
    BY <1>4 DEF OperationFails, Running
  <2>2. /\ task[t].kind \in Changing => task[t].on \in Sessions
        /\ At(t, "asking") /\ task[t].kind \in Changing => task[t].of \in Sessions
        /\ task[t].on \in 0 .. MaxSessions /\ task[t].of \in 0 .. MaxSessions
        /\ task[t].kind \in Exclusive
    BY <1>1, <1>4 DEF OperationFails, ExclusionInv, Named, At, Task
  <2>3. orphans' \subseteq Orphans
    <3>1. CASE At(t, "asking")
      <4>1. [by |-> t, kind |-> task[t].kind, of |-> task[t].of] \in Orphans
        BY <2>2, <3>1 DEF Orphans
      <4> QED
        BY <1>1, <1>4, <3>1, <4>1 DEF OperationFails, GivesUp
    <3>2. CASE ~At(t, "asking")
      BY <1>1, <1>4, <3>2 DEF OperationFails
    <3> QED
      BY <3>1, <3>2
  <2>4. CASE Rereads(failure)
    <3>1. PICK place \in {"relisting", "rereading"} :
            /\ Goes(t, place, task[t].on)
            /\ place = IF task[t].kind \in Changing THEN "relisting" ELSE "rereading"
      BY <1>4, <2>4 DEF OperationFails
    <3>2. page' = Unbusy /\ UNCHANGED <<inFlight, excuses>>
      BY <1>4, <2>4 DEF OperationFails
    <3>3. place # "rereading" => task[t].on \in Sessions
      BY <2>2, <3>1
    <3>4. page' \in Pages /\ page'.busy \in {page.busy, "no"} /\ lists' \in ListsShown
      BY <1>1, <1>2, <2>1, <3>2
    <3> QED
      BY <2>1, <2>2, <2>3, <3>1, <3>2, <3>3, <3>4, GoesKeeps
  <2>5. CASE ~Rereads(failure)
    <3>1. Leaves(t, Unbusy) /\ excuses' \subseteq Excuses
      BY <1>1, <1>4, <2>5 DEF OperationFails, Excuses
    <3>2. lists' \in ListsShown /\ cursor' \in BOOLEAN
      BY <1>1, <2>1
    <3> QED
      BY <1>2, <2>1, <2>3, <3>1, <3>2, LeavesKeeps
  <2> QED
    BY <2>4, <2>5
<1>5. CASE InitialFails(t, failure)
  <2> DEFINE shown == [known |-> TRUE, session |-> 0,
                       busy |-> IF failure = "notFound" THEN page.busy ELSE "no"]
  <2>1. shown \in Pages /\ shown.busy \in {page.busy, "no"}
    BY <1>1, JourneyAssumption DEF Pages
  <2>2. /\ Running(t) /\ Leaves(t, shown) /\ lists' \in ListsShown /\ cursor' \in BOOLEAN
        /\ excuses' \subseteq Excuses /\ orphans' \subseteq Orphans /\ UNCHANGED <<server, own>>
    BY <1>1, <1>5 DEF InitialFails, Excuses
  <2> HIDE DEF shown
  <2> QED
    BY <2>1, <2>2, LeavesKeeps
<1>6. CASE RereadFails(t, failure)
  <2>1. PICK shown \in Pages : Leaves(t, shown) /\ shown.busy = page.busy
    <3>1. [page EXCEPT !.session = 0] \in Pages /\ [page EXCEPT !.session = 0].busy = page.busy
      BY <1>1, JourneyAssumption DEF Pages
    <3> QED
      BY <1>1, <1>6, <3>1 DEF RereadFails
  <2>2. lists' \in ListsShown
    <3> DEFINE none == <<>>
    <3>1. none \in Seq(Listed)
      OBVIOUS
    <3>2. lists' \in {lists, [lists EXCEPT !.products = none, !.suggestions = None]}
      BY <1>6 DEF RereadFails
    <3> HIDE DEF none
    <3> QED
      BY <1>1, <3>1, <3>2 DEF ListsShown
  <2>3. /\ Running(t) /\ cursor' \in BOOLEAN
        /\ excuses' \subseteq Excuses /\ orphans' \subseteq Orphans /\ UNCHANGED <<server, own>>
    BY <1>1, <1>6 DEF RereadFails, Excuses, At, Running
  <2> QED
    BY <2>1, <2>2, <2>3, LeavesKeeps
<1>7. CASE ReadFails(t, failure)
  <2>1. /\ Running(t) /\ Leaves(t, Unbusy) /\ lists' \in ListsShown /\ cursor' \in BOOLEAN
        /\ excuses' \subseteq Excuses /\ orphans' \subseteq Orphans /\ UNCHANGED <<server, own>>
    BY <1>1, <1>7 DEF ReadFails, Excuses
  <2> QED
    BY <1>2, <2>1, LeavesKeeps
<1> QED
  BY <1>3, <1>4, <1>5, <1>6, <1>7

-----------------------------------------------------------------------------
(* The theorems.                                                           *)

\* Every step of the page, of the server and of the other tab keeps the invariant.
LEMMA NextExclusion == ExclusionInv /\ [Next]_vars => ExclusionInv'
<1> SUFFICES ASSUME ExclusionInv, [Next]_vars PROVE ExclusionInv'
  OBVIOUS
<1>1. ASSUME NEW t \in Tasks, Click(t) \/ ServerStep(t) \/ Take(t) \/ Fail(t)
      PROVE  ExclusionInv'
  BY <1>1, ClickKeeps, ServerKeeps, TakeKeeps, FailKeeps
<1>2. CASE ServeOrphan \/ OtherTab
  BY <1>2, ServerKeeps
<1>3. CASE UNCHANGED vars
  <2>1. UNCHANGED <<active, changes, orphans, task, page, lists, inFlight, cursor, own, excuses>>
    BY <1>3 DEF vars, server, history
  <2>2. TypeOK' /\ Named'
    BY <2>1 DEF ExclusionInv, TypeOK, Named, At
  <2>3. OneMutation' /\ FlightTold'
    BY <2>1 DEF ExclusionInv, OneMutation, FlightTold, Running
  <2> QED
    BY <2>2, <2>3 DEF ExclusionInv
<1> QED
  BY <1>1, <1>2, <1>3 DEF Next, Rests

\* The invariant holds in every state: the page's reference tells exactly whether
\* an operation runs, and its buttons are off only while a procedure runs.
THEOREM ExclusionInvariant == Spec => []ExclusionInv
<1>1. Init => ExclusionInv
  BY InitExclusion
<1>2. ExclusionInv /\ [Next]_vars => ExclusionInv'
  BY NextExclusion
<1> QED
  BY <1>1, <1>2, PTL DEF Spec

\* Whatever the answers, their order and their loss, two operations of a page never
\* overlap (exclusive).
THEOREM OneOperation == Spec => []OneMutation
<1>1. ExclusionInv => OneMutation
  BY DEF ExclusionInv
<1> QED
  BY <1>1, ExclusionInvariant, PTL

\* And a page whose procedures have all ended takes the next one: every end of
\* exclusive and of reload, also by a failure, gives back what the start took.
THEOREM NeverBlocked == Spec => []Unblocked
<1>1. ExclusionInv => Unblocked
  BY DEF ExclusionInv, FlightTold, Unblocked, Quiet, TypeOK
<1> QED
  BY <1>1, ExclusionInvariant, PTL
-----------------------------------------------------------------------------
(* What the page shows of its own requests.                                *)

\* The server is never behind what this page's requests have done to it.
ServerAhead ==
  /\ own.active <= active
  /\ \A s \in Sessions : own.changes[s] <= changes[s]

\* A list that shows all of them.
ListCurrent(list) == list.stock = page.session /\ list.changes >= own.changes[page.session]

Shown ==
  /\ page.session >= own.active
  /\ page.session # 0 =>
       /\ lists.products # <<>>
       /\ ListCurrent(lists.products[1]) /\ ListCurrent(lists.suggestions)

\* What a procedure that runs alone has of the page, and of the answers it has
\* got: from each place it can end or go on to a page that shows all.
Expects(t) ==
  LET told == task[t].reply IN
  /\ task[t].kind = "initial" =>
       /\ task[t].at \in {"asking", "listing"}
       /\ own.active = 0 /\ \A s \in Sessions : own.changes[s] = 0
  /\ task[t].kind = "more" => At(t, "asking") /\ page.session # 0 /\ Shown
  /\ task[t].kind = "reload" => At(t, "relisting")
  /\ At(t, "asking") /\ task[t].kind \in Exclusive =>
       /\ task[t].on = page.session /\ task[t].of = page.session
       /\ task[t].kind \in Changing => page.session >= own.active
       /\ IF told.status = "ok" THEN told.session >= own.active ELSE Shown
  /\ At(t, "rereading") =>
       /\ task[t].kind \in Exclusive
       /\ told.status = "ok" => told.session >= own.active
       /\ told.status = "notFound" => own.active = 0
  /\ task[t].at \in {"listing", "relisting"} =>
       /\ told = NoReply
       /\ task[t].on = page.session /\ page.session >= own.active
       /\ \A answer \in {task[t].products, task[t].suggestions} :
            answer # None => ListCurrent(answer)

\* As long as nothing excuses the page, one procedure runs at a time.
Calm ==
  /\ \A t, u \in Tasks : Running(t) /\ Running(u) => t = u
  /\ Quiet => Shown
  /\ \A t \in Tasks : Running(t) => Expects(t)

WritesInv == ExclusionInv /\ ServerAhead /\ (excuses = {} => Calm)

\* A task that has just come to a place, for a session, and has no answer yet.
Fresh(new, kind, place, on) ==
  /\ new.kind = kind /\ new.at = place /\ new.on = on
  /\ new.reply = NoReply /\ new.products = None /\ new.suggestions = None

\* The one procedure that runs goes on as expected, or ends on a page that shows
\* all.
LEMMA AloneCalm ==
  ASSUME TypeOK, NEW t \in Tasks, \A u \in Tasks \ {t} : ~Running(u),
         NEW new, task' = [task EXCEPT ![t] = new],
         IF Running(t)' THEN Expects(t)' ELSE Shown'
  PROVE  Calm'
<1>1. \A u \in Tasks \ {t} : task'[u] = task[u]
  BY DEF TypeOK
<1>2. \A u \in Tasks \ {t} : ~Running(u)'
  BY <1>1 DEF Running
<1>3. \A u, v \in Tasks : Running(u)' /\ Running(v)' => u = v
  BY <1>2
<1>4. Quiet' => Shown'
  BY DEF Quiet
<1>5. \A u \in Tasks : Running(u)' => Expects(u)'
  BY <1>2
<1> QED BY <1>3, <1>4, <1>5 DEF Calm

\* The requests of a page are part of what the server does.
LEMMA AheadKept ==
  ASSUME TypeOK, Named, ServerAhead, [Next]_vars
  PROVE  ServerAhead'
<1>1. ASSUME NEW kind, NEW of \in 0 .. MaxSessions, kind \in Changing => of \in Sessions,
             Apply(kind, of)
      PROVE  ServerAhead'
  <2>1. CASE kind = "prepare" /\ active' = 1 /\ own' = [own EXCEPT !.active = 1] /\ UNCHANGED changes
    BY <2>1 DEF ServerAhead, TypeOK
  <2>2. CASE active' = active + 1 /\ own' = [own EXCEPT !.active = active + 1] /\ UNCHANGED changes
    BY <2>2 DEF ServerAhead, TypeOK
  <2>3. CASE /\ kind \in Changing /\ UNCHANGED active
             /\ changes' = [changes EXCEPT ![of] = @ + 1]
             /\ own' = [own EXCEPT !.changes[of] = changes[of] + 1]
    <3>1. of \in Sessions /\ changes' = [changes EXCEPT ![of] = changes[of] + 1]
      BY <1>1, <2>3 DEF TypeOK
    <3>2. own'.active = own.active
          /\ \A s \in Sessions : own'.changes[s] = IF s = of THEN changes[of] + 1 ELSE own.changes[s]
      BY <2>3, <3>1 DEF TypeOK
    <3>3. \A s \in Sessions : changes'[s] = IF s = of THEN changes[of] + 1 ELSE changes[s]
      BY <3>1 DEF TypeOK
    <3>4. changes[of] \in Nat
      BY <3>1 DEF TypeOK
    <3> QED BY <2>3, <3>1, <3>2, <3>3, <3>4 DEF ServerAhead
  <2> QED BY <1>1, <2>1, <2>2, <2>3 DEF Apply
<1>2. ASSUME UNCHANGED own, active' >= active, \A s \in Sessions : changes'[s] >= changes[s],
             active' \in Nat, \A s \in Sessions : changes'[s] \in Nat
      PROVE  ServerAhead'
  BY <1>2 DEF ServerAhead, TypeOK
<1>3. CASE UNCHANGED <<active, changes, own>>
  BY <1>3 DEF ServerAhead
<1>4. CASE OtherTab
  <2>1. UNCHANGED own
    BY <1>4 DEF OtherTab, history
  <2>2. CASE UNCHANGED changes
    BY <1>2, <1>4, <2>1, <2>2 DEF OtherTab, TypeOK
  <2>3. CASE changes' = [changes EXCEPT ![active] = @ + 1] /\ active > 0 /\ UNCHANGED active
    <3>1. active \in Sessions
      BY <2>3 DEF TypeOK, Sessions
    <3>2. \A s \in Sessions : changes'[s] = IF s = active THEN changes[s] + 1 ELSE changes[s]
      BY <2>3, <3>1 DEF TypeOK
    <3>3. \A s \in Sessions : changes[s] \in Nat
      BY DEF TypeOK
    <3>4. active \in Nat
      BY DEF TypeOK
    <3> QED BY <1>2, <2>1, <2>3, <3>2, <3>3, <3>4
  <2> QED BY <1>4, <2>2, <2>3 DEF OtherTab
<1>5. CASE ServeOrphan
  <2>1. PICK request \in orphans : Apply(request.kind, request.of)
    BY <1>5 DEF ServeOrphan
  <2> QED BY <1>1, <2>1 DEF TypeOK, Named
<1>6. ASSUME NEW t \in Tasks, Serve(t) PROVE ServerAhead'
  <2>1. CASE Apply(task[t].kind, task[t].of)
    BY <1>1, <1>6, <2>1 DEF Serve, TypeOK, Named, Task
  <2>2. CASE UNCHANGED <<server, history>>
    BY <1>3, <2>2 DEF server, history
  <2> QED BY <1>6, <2>1, <2>2 DEF Serve
<1>7. \/ UNCHANGED <<active, changes, own>> \/ OtherTab \/ ServeOrphan
      \/ \E t \in Tasks : Serve(t)
  <2>1. ASSUME NEW t \in Tasks, Click(t) PROVE UNCHANGED <<active, changes, own>>
    BY <2>1 DEF Click, BeginExclusive, Reload, LoadMoreProducts, Starts, server
  <2>2. ASSUME NEW t \in Tasks, ServerStep(t), ~Serve(t) PROVE UNCHANGED <<active, changes, own>>
    BY <2>2 DEF ServerStep, ServeCurrent, ServeProducts, ServeSuggestions, server, history
  <2>3. ASSUME NEW t \in Tasks, Take(t) PROVE UNCHANGED <<active, changes, own>>
    BY <2>3 DEF Take, TakeSession, TakeChange, TakeCurrent, TakeLists, TakePart, server, history
  <2>4. ASSUME NEW t \in Tasks, Fail(t) PROVE UNCHANGED <<active, changes, own>>
    BY <2>4 DEF Fail, OperationFails, InitialFails, RereadFails, ReadFails, server
  <2>5. CASE UNCHANGED vars \/ Rests
    BY <2>5 DEF Rests, vars, server, history
  <2> QED BY <2>1, <2>2, <2>3, <2>4, <2>5 DEF Next
<1> QED BY <1>3, <1>4, <1>5, <1>6, <1>7
\* Nothing that excuses the page is ever taken back.
LEMMA CalmBefore ==
  ASSUME [Next]_vars, excuses' = {}
  PROVE  excuses = {}
<1>1. ASSUME NEW t \in Tasks, Click(t) PROVE excuses \subseteq excuses'
  BY <1>1 DEF Click, BeginExclusive, Reload, LoadMoreProducts, Starts
<1>2. ASSUME NEW t \in Tasks, ServerStep(t) PROVE excuses \subseteq excuses'
  BY <1>2 DEF ServerStep, Serve, ServeCurrent, ServeProducts, ServeSuggestions, history
<1>3. ASSUME NEW t \in Tasks, Take(t) PROVE excuses \subseteq excuses'
  BY <1>3 DEF Take, TakeSession, TakeChange, TakeCurrent, TakeLists, TakePart, history
<1>4. ASSUME NEW t \in Tasks, Fail(t) PROVE excuses \subseteq excuses'
  BY <1>4 DEF Fail, OperationFails, InitialFails, RereadFails, ReadFails
<1>5. CASE UNCHANGED vars \/ Rests \/ ServeOrphan \/ OtherTab
  BY <1>5 DEF Rests, ServeOrphan, OtherTab, vars, history
<1> QED BY <1>1, <1>2, <1>3, <1>4, <1>5 DEF Next

\* A procedure starts on a page that shows all.
LEMMA ClickCalm ==
  ASSUME WritesInv, NEW t \in Tasks, Click(t), excuses' = {}
  PROVE  Calm'
<1>1. /\ Quiet /\ Shown /\ At(t, "idle") /\ TypeOK
      /\ \A u \in Tasks \ {t} : ~Running(u)
  <2>1. Quiet /\ excuses = {} /\ At(t, "idle")
    BY DEF Click, BeginExclusive, Reload, LoadMoreProducts, Starts
  <2> QED BY <2>1 DEF WritesInv, ExclusionInv, Calm, Quiet
<1>2. PICK kind \in Kinds, place \in {"asking", "relisting"}, of \in 0 .. MaxSessions :
        /\ Starts(t, kind, place, of)
        /\ page'.session = page.session
        /\ kind = "reload" => place = "relisting" /\ page.session # 0
        /\ kind = "more" => place = "asking" /\ page.session # 0
        /\ kind \in Exclusive => place = "asking" /\ Offers(kind, of)
        /\ kind # "initial"
  <2>1. page.session \in 0 .. MaxSessions
    BY <1>1 DEF TypeOK
  <2>2. CASE Reload(t)
    <3>1. page'.session = page.session /\ Starts(t, "reload", "relisting", page.session)
          /\ page.session # 0
      BY <1>1, <2>2 DEF Reload, OffersRefresh, TypeOK
    <3> QED BY <2>1, <3>1 DEF Kinds, Exclusive, Changing
  <2>3. CASE LoadMoreProducts(t)
    <3>1. page' = page /\ Starts(t, "more", "asking", page.session) /\ page.session # 0
      BY <2>3 DEF LoadMoreProducts, OffersMore
    <3> QED BY <2>1, <3>1 DEF Kinds, Exclusive, Changing
  <2>4. ASSUME NEW kind \in Exclusive, BeginExclusive(t, kind)
        PROVE  \E of \in 0 .. MaxSessions :
                 Starts(t, kind, "asking", of) /\ page'.session = page.session /\ Offers(kind, of)
    BY <1>1, <2>4 DEF BeginExclusive, TypeOK
  <2>5. \A kind \in Exclusive : kind \in Kinds /\ kind \notin {"reload", "more", "initial"}
    BY DEF Kinds, Exclusive, Changing
  <2> QED BY <2>2, <2>3, <2>4, <2>5 DEF Click
<1> DEFINE new == [Idle(kind) EXCEPT !.at = place, !.on = page.session, !.of = of]
<1>3. /\ task' = [task EXCEPT ![t] = new] /\ UNCHANGED <<lists, own>>
      /\ Fresh(new, kind, place, page.session) /\ new.of = of
  <2>1. task' = [task EXCEPT ![t] = new] /\ UNCHANGED <<lists, own>>
    BY <1>2 DEF Starts
  <2>2. Fresh(new, kind, place, page.session) /\ new.of = of
    BY DEF Idle, Fresh
  <2> QED BY <2>1, <2>2
<1> HIDE DEF new
<1>4. task'[t] = new
  BY <1>1, <1>3 DEF TypeOK
<1>5. Shown'
  BY <1>1, <1>2, <1>3 DEF Shown, ListCurrent
<1>6. kind \in Exclusive => of = page.session
  BY <1>1, <1>2 DEF Offers, OffersSession, OffersUpload, OffersDecision, Shown, ListCurrent
<1>7. kind \in Exclusive => kind \notin {"reload", "more", "initial"}
  BY DEF Exclusive, Changing
<1>8. page.session >= own.active
  BY <1>1 DEF Shown
<1>9. Expects(t)'
  BY <1>2, <1>3, <1>4, <1>5, <1>6, <1>7, <1>8 DEF Expects, Fresh, At, NoReply
<1> QED BY <1>1, <1>3, <1>5, <1>9, AloneCalm

\* What is known of the one procedure that runs.
LEMMA RunsAlone ==
  ASSUME WritesInv, NEW t \in Tasks, Running(t), excuses = {}
  PROVE  /\ Expects(t) /\ TypeOK /\ \A u \in Tasks \ {t} : ~Running(u)
         /\ task[t] \in Task
BY DEF WritesInv, ExclusionInv, Calm, TypeOK

\* An answer that says what there is, or what the request has done.
GoodReply(t, reply) ==
  \/ /\ own' = own
     /\ \/ reply.status = "ok" /\ reply.session >= own.active
        \/ reply.status \in {"conflict", "error"}
        \/ reply.status = "notFound" /\ own.active = 0
  \/ /\ At(t, "asking") /\ task[t].kind \in Exclusive
     /\ reply.status = "ok" /\ reply.session >= own'.active
     /\ task[t].kind \in Changing => own'.active = own.active

\* An answer to the request of a procedure itself.
LEMMA ReplyCalm ==
  ASSUME WritesInv, NEW t \in Tasks, excuses = {}, Running(t), task[t].reply = NoReply,
         task[t].at \in {"asking", "rereading"}, task[t].kind # "more",
         NEW reply, task' = [task EXCEPT ![t].reply = reply], UNCHANGED <<page, lists>>,
         GoodReply(t, reply)
  PROVE  Calm'
<1>1. /\ Expects(t) /\ TypeOK /\ \A u \in Tasks \ {t} : ~Running(u)
      /\ task[t] \in Task
  BY RunsAlone
<1> DEFINE new == [task[t] EXCEPT !.reply = reply]
<1>2. /\ task' = [task EXCEPT ![t] = new]
      /\ new.kind = task[t].kind /\ new.at = task[t].at /\ new.on = task[t].on
      /\ new.of = task[t].of /\ new.reply = reply
  BY <1>1 DEF TypeOK, Task
<1> HIDE DEF new
<1>3. task'[t] = new
  BY <1>1, <1>2 DEF TypeOK
<1>4. own' = own => (Shown' <=> Shown)
  BY DEF Shown, ListCurrent
<1>5. Running(t)'
  BY <1>2, <1>3 DEF Running
<1>6. task[t].reply.status = "none"
  BY DEF NoReply
<1>7. task[t].kind = "reload" => At(t, "relisting")
  BY <1>1 DEF Expects
<1>8. ASSUME At(t, "rereading") PROVE Expects(t)'
  <2>1. own' = own /\ task[t].kind \in Exclusive /\ task[t].kind \notin {"initial", "reload"}
    BY <1>1, <1>8 DEF Expects, At, GoodReply, Exclusive, Changing
  <2>2. reply.status = "ok" => reply.session >= own.active
    BY <1>8 DEF GoodReply, At
  <2>3. reply.status = "notFound" => own.active = 0
    BY <1>8 DEF GoodReply, At
  <2> QED BY <1>2, <1>3, <1>8, <2>1, <2>2, <2>3 DEF Expects, At
<1>9. ASSUME At(t, "asking") PROVE Expects(t)'
  <2>1. task[t].kind = "initial" =>
          /\ own' = own /\ own.active = 0 /\ \A s \in Sessions : own.changes[s] = 0
    BY <1>1 DEF Expects, GoodReply, Exclusive, Changing
  <2>2. task[t].kind \in Exclusive =>
          /\ task[t].on = page.session /\ task[t].of = page.session
          /\ task[t].kind \in Changing => page.session >= own'.active
          /\ IF reply.status = "ok" THEN reply.session >= own'.active ELSE Shown'
    BY <1>1, <1>4, <1>6, <1>9 DEF Expects, GoodReply
  <2> QED BY <1>2, <1>3, <1>7, <1>9, <2>1, <2>2 DEF Expects, At
<1>10. Expects(t)'
  BY <1>8, <1>9 DEF At
<1> QED BY <1>1, <1>2, <1>5, <1>10, AloneCalm

\* A request of the one procedure that runs is served.
LEMMA ServeCalm ==
  ASSUME WritesInv, NEW t \in Tasks, Serve(t), excuses = {}, excuses' = {}
  PROVE  Calm'
<1> DEFINE of == task[t].of
           kind == task[t].kind
<1>1. /\ At(t, "asking") /\ kind \in Exclusive /\ task[t].reply = NoReply /\ Running(t)
      /\ UNCHANGED <<page, lists>> /\ kind # "more" /\ task[t].at = "asking"
  BY DEF Serve, At, Running, Exclusive, Changing
<1>2. /\ Expects(t) /\ TypeOK /\ ServerAhead /\ task[t] \in Task
  BY <1>1, RunsAlone DEF WritesInv
<1>3. /\ of = page.session /\ of >= own.active /\ own.active <= active
      /\ own.active \in Nat /\ active \in Nat /\ of \in Nat
  <2>1. Shown /\ of = page.session
    BY <1>1, <1>2 DEF Expects, NoReply
  <2> QED BY <1>2, <2>1 DEF Shown, TypeOK, Task, ServerAhead
<1>4. CASE Apply(kind, of) /\ task' = [task EXCEPT ![t].reply = Result(kind, of)]
  <2> DEFINE reply == Result(kind, of)
  <2>1. /\ reply.status = "ok"
        /\ reply.session = IF kind \in Changing THEN of ELSE active'
    BY DEF Result
  <2>2. kind = "prepare" /\ active' = 1 /\ own' = [own EXCEPT !.active = 1] => GoodReply(t, reply)
    BY <1>1, <1>2, <2>1 DEF GoodReply, TypeOK, Changing
  <2>3. kind = "restart" /\ active' = active + 1 /\ own' = [own EXCEPT !.active = active + 1]
          => GoodReply(t, reply)
    BY <1>1, <1>2, <1>3, <2>1 DEF GoodReply, TypeOK, Changing
  <2>4. kind \in Changing /\ own' = [own EXCEPT !.changes[of] = changes[of] + 1]
          => GoodReply(t, reply)
    <3>1. own' = [own EXCEPT !.changes[of] = changes[of] + 1] => own'.active = own.active
      BY <1>2 DEF TypeOK
    <3> HIDE DEF reply
    <3> QED BY <1>1, <1>3, <2>1, <3>1 DEF GoodReply
  <2>5. GoodReply(t, reply)
    <3> HIDE DEF reply
    <3> QED BY <1>4, <2>2, <2>3, <2>4 DEF Apply
  <2> HIDE DEF reply
  <2>6. task' = [task EXCEPT ![t].reply = reply]
    BY <1>4 DEF reply
  <2> QED BY <1>1, <2>5, <2>6, ReplyCalm
<1>5. ASSUME NEW reply \in Found(kind, of) \cup {Error}, task' = [task EXCEPT ![t].reply = reply],
             UNCHANGED <<server, history>>
      PROVE  Calm'
  <2>1. \/ reply.status = "ok" /\ reply.session >= own.active
       \/ reply.status \in {"conflict", "error"}
    BY <1>3 DEF Found, Error
  <2>2. GoodReply(t, reply)
    BY <1>5, <2>1 DEF GoodReply, history
  <2> QED BY <1>1, <1>5, <2>2, ReplyCalm
<1> QED BY <1>4, <1>5 DEF Serve

\* So is the reading of the session.
LEMMA CurrentCalm ==
  ASSUME WritesInv, NEW t \in Tasks, ServeCurrent(t), excuses = {}
  PROVE  Calm'
<1>1. /\ task[t].at \in {"asking", "rereading"} /\ task[t].kind # "more" /\ Running(t)
      /\ task[t].reply = NoReply /\ UNCHANGED <<page, lists, own>>
  <2>1. At(t, "rereading") => task[t].kind \in Exclusive
    BY RunsAlone DEF Expects, At, Running
  <2> QED BY <2>1 DEF ServeCurrent, AsksCurrent, At, Running, Exclusive, Changing, history
<1>2. PICK reply \in {Error, [status |-> IF active = 0 THEN "notFound" ELSE "ok",
                              session |-> active]} :
        task' = [task EXCEPT ![t].reply = reply]
  BY DEF ServeCurrent
<1>3. own.active <= active /\ own.active \in Nat /\ active \in Nat
  BY DEF WritesInv, ExclusionInv, ServerAhead, TypeOK
<1>4. GoodReply(t, reply)
  BY <1>1, <1>3 DEF GoodReply, Error
<1> QED BY <1>1, <1>2, <1>4, ReplyCalm

\* A list read while the procedure runs shows all that its page has done.
LEMMA ListsCalm ==
  ASSUME WritesInv, NEW t \in Tasks, ServeProducts(t) \/ ServeSuggestions(t), excuses = {}
  PROVE  Calm'
<1>1. /\ Running(t) /\ UNCHANGED <<page, lists, own>>
      /\ task[t].at \in {"listing", "relisting"} \/ (At(t, "asking") /\ task[t].kind = "more")
  BY DEF ServeProducts, ServeSuggestions, AsksLists, AsksPart, At, Running, history
<1>2. /\ Expects(t) /\ TypeOK /\ \A u \in Tasks \ {t} : ~Running(u)
      /\ task[t] \in Task /\ ServerAhead /\ Named
  BY <1>1, RunsAlone DEF WritesInv, ExclusionInv
<1>3. PICK answer, new :
        /\ \E part \in {1, 2} : answer = Answered(task[t].on, part)
        /\ \/ new = [task[t] EXCEPT !.products = answer]
           \/ new = [task[t] EXCEPT !.suggestions = answer]
        /\ task' = [task EXCEPT ![t] = new]
  <2>1. CASE ServeProducts(t)
    BY <1>2, <2>1 DEF ServeProducts, TypeOK
  <2>2. CASE ServeSuggestions(t)
    BY <1>2, <2>2 DEF ServeSuggestions, TypeOK
  <2> QED BY <2>1, <2>2
<1>4. /\ new.kind = task[t].kind /\ new.at = task[t].at /\ new.on = task[t].on
      /\ new.of = task[t].of /\ new.reply = task[t].reply
      /\ new.products \in {task[t].products, answer}
      /\ new.suggestions \in {task[t].suggestions, answer}
  BY <1>2, <1>3 DEF Task
<1>5. task'[t] = new
  BY <1>2, <1>3 DEF TypeOK
<1>6. Shown' <=> Shown
  BY <1>1 DEF Shown, ListCurrent
<1>7. task[t].at \in {"listing", "relisting"} => ListCurrent(answer)
  <2>1. SUFFICES ASSUME task[t].at \in {"listing", "relisting"} PROVE ListCurrent(answer)
    OBVIOUS
  <2>2. task[t].on = page.session /\ task[t].on \in Sessions
    BY <1>2, <2>1 DEF Expects, Named
  <2>3. answer.stock = task[t].on /\ answer.changes = changes[task[t].on]
    BY <1>3 DEF Answered
  <2>4. changes[task[t].on] \in Nat /\ own.changes[task[t].on] \in Nat
    BY <1>2, <2>2 DEF TypeOK
  <2> QED BY <1>2, <2>2, <2>3, <2>4 DEF ListCurrent, ServerAhead
<1>8. \A list : ListCurrent(list) => list.stock = page'.session
                                     /\ list.changes >= own'.changes[page'.session]
  BY <1>1 DEF ListCurrent
<1>9. Running(t)'
  BY <1>1, <1>4, <1>5 DEF Running, At
<1>10. Expects(t)'
  BY <1>1, <1>2, <1>4, <1>5, <1>6, <1>7, <1>8 DEF Expects, At, ListCurrent
<1> QED BY <1>2, <1>3, <1>9, <1>10, AloneCalm
\* A procedure that goes on to read what it needs, of the session shown.
LEMMA GoesCalm ==
  ASSUME WritesInv, NEW t \in Tasks, Running(t), excuses = {},
         NEW place \in {"listing", "relisting", "rereading"}, NEW on, Goes(t, place, on),
         UNCHANGED own,
         place # "rereading" => on = page'.session /\ page'.session >= own.active,
         task[t].kind \in Exclusive \/ (task[t].kind = "initial" /\ place = "listing")
  PROVE  Calm'
<1>1. /\ Expects(t) /\ TypeOK /\ \A u \in Tasks \ {t} : ~Running(u)
  BY RunsAlone
<1> DEFINE new == [Idle(task[t].kind) EXCEPT !.at = place, !.on = on]
<1>2. task' = [task EXCEPT ![t] = new] /\ Fresh(new, task[t].kind, place, on)
  BY DEF Goes, Idle, Fresh
<1> HIDE DEF new
<1>3. task'[t] = new
  BY <1>1, <1>2 DEF TypeOK
<1>4. Running(t)'
  BY <1>2, <1>3 DEF Running, Fresh
<1>5. task[t].kind \in Exclusive => task[t].kind \notin {"initial", "more", "reload"}
  BY DEF Exclusive, Changing
<1>6. task[t].kind = "initial" => own.active = 0 /\ \A s \in Sessions : own.changes[s] = 0
  BY <1>1 DEF Expects
<1>7. NoReply.status = "none"
  BY DEF NoReply
<1>8. Expects(t)'
  BY <1>2, <1>3, <1>5, <1>6, <1>7 DEF Expects, At, Fresh
<1> QED BY <1>1, <1>2, <1>4, <1>8, AloneCalm

\* And one that ends on a page that shows all.
LEMMA LeavesCalm ==
  ASSUME WritesInv, NEW t \in Tasks, Running(t), excuses = {}, NEW shown, Leaves(t, shown), Shown'
  PROVE  Calm'
<1>1. /\ TypeOK /\ \A u \in Tasks \ {t} : ~Running(u)
  BY RunsAlone
<1> DEFINE new == [Idle(task[t].kind) EXCEPT !.at = "done"]
<1>2. task' = [task EXCEPT ![t] = new] /\ new.at = "done"
  BY DEF Leaves, Idle
<1> HIDE DEF new
<1>3. ~Running(t)'
  BY <1>1, <1>2 DEF TypeOK, Running
<1> QED BY <1>1, <1>2, <1>3, AloneCalm

\* What leaving does to the page is about its buttons.
LEMMA LeftSession ==
  ASSUME NEW t, NEW shown \in Pages, Leaves(t, shown)
  PROVE  page'.session = shown.session
BY DEF Leaves, Pages

\* The one procedure that runs goes on with an answer.
LEMMA TakeCalm ==
  ASSUME WritesInv, NEW t \in Tasks, Take(t), excuses = {}
  PROVE  Calm'
<1>1. Running(t) /\ UNCHANGED own
  BY DEF Take, TakeSession, TakeChange, TakeCurrent, TakeLists, TakePart, AsksLists, AsksPart,
         At, Running, history
<1>2. /\ Expects(t) /\ TypeOK /\ Named /\ task[t] \in Task /\ page \in Pages
  BY <1>1, RunsAlone DEF WritesInv, ExclusionInv, TypeOK, Pages
<1>3. CASE TakeSession(t)
  <2>1. /\ Goes(t, "listing", task[t].reply.session) /\ At(t, "asking")
        /\ task[t].kind \in {"initial", "prepare", "restart"} /\ task[t].reply.status = "ok"
        /\ page'.session = task[t].reply.session
    BY <1>2, <1>3 DEF TakeSession, Pages
  <2>2. task[t].reply.session >= own.active
    <3>1. CASE task[t].kind = "initial"
      <4>1. task[t].reply.session \in Nat
        BY <1>2 DEF Task, Replies, Sessions
      <4> QED BY <1>2, <3>1, <4>1 DEF Expects
    <3>2. CASE task[t].kind \in Exclusive
      BY <1>2, <2>1, <3>2 DEF Expects
    <3> QED BY <2>1, <3>1, <3>2 DEF Exclusive
  <2> QED BY <1>1, <2>1, <2>2, GoesCalm DEF Exclusive
<1>4. CASE TakeChange(t)
  <2>1. /\ Goes(t, "listing", task[t].on) /\ At(t, "asking")
        /\ task[t].kind \in Changing /\ task[t].kind \in Exclusive /\ page' = page
    BY <1>4 DEF TakeChange, Exclusive
  <2>2. task[t].on = page'.session /\ page'.session >= own.active
    BY <1>2, <2>1 DEF Expects
  <2> QED BY <1>1, <2>1, <2>2, GoesCalm
<1>5. CASE TakeCurrent(t)
  <2>1. /\ Goes(t, "relisting", task[t].reply.session) /\ At(t, "rereading")
        /\ task[t].reply.status = "ok" /\ page'.session = task[t].reply.session
    BY <1>2, <1>5 DEF TakeCurrent, Pages
  <2>2. task[t].reply.session >= own.active /\ task[t].kind \in Exclusive
    BY <1>2, <2>1 DEF Expects
  <2> QED BY <1>1, <2>1, <2>2, GoesCalm
<1>6. CASE TakeLists(t)
  <2> DEFINE products == task[t].products
             suggestions == task[t].suggestions
             some == <<products>>
  <2>1. /\ task[t].at \in {"listing", "relisting"} /\ products # None /\ suggestions # None
        /\ Leaves(t, page)
        /\ lists' = [products |-> some, suggestions |-> suggestions, more |-> products.changes > 0]
    BY <1>6 DEF TakeLists, AsksLists
  <2>2. /\ page.session >= own.active
        /\ ListCurrent(products) /\ ListCurrent(suggestions)
    BY <1>2, <2>1 DEF Expects
  <2>3. some # <<>> /\ some[1] = products
    OBVIOUS
  <2>4. page'.session = page.session
    BY <1>2, <2>1, LeftSession
  <2>5. lists'.products = some /\ lists'.suggestions = suggestions
    BY <2>1
  <2> HIDE DEF some, products, suggestions
  <2>6. Shown'
    BY <1>1, <2>2, <2>3, <2>4, <2>5 DEF Shown, ListCurrent
  <2> QED BY <1>1, <2>1, <2>6, LeavesCalm
<1>7. CASE TakePart(t)
  <2> DEFINE longer == Append(lists.products, task[t].products)
  <2>1. /\ task[t].kind = "more" /\ task[t].products # None /\ Leaves(t, page)
        /\ lists' = [lists EXCEPT !.products = longer, !.more = FALSE]
    BY <1>7 DEF TakePart, AsksPart
  <2>2. Shown /\ page.session # 0
    BY <1>2, <2>1 DEF Expects
  <2>3. longer # <<>> /\ longer[1] = lists.products[1]
    <3>1. lists.products \in Seq(Listed) /\ lists.products # <<>> /\ task[t].products \in Listed
      BY <1>2, <2>1, <2>2 DEF TypeOK, Task, Shown
    <3> QED BY <3>1
  <2> HIDE DEF longer
  <2>4. lists'.products = longer /\ lists'.suggestions = lists.suggestions
    BY <1>2, <2>1 DEF TypeOK
  <2>5. page'.session = page.session
    BY <1>2, <2>1, LeftSession
  <2>6. Shown'
    BY <1>1, <2>2, <2>3, <2>4, <2>5 DEF Shown, ListCurrent
  <2> QED BY <1>1, <2>1, <2>6, LeavesCalm
<1> QED BY <1>3, <1>4, <1>5, <1>6, <1>7 DEF Take
\* Or with a failure that excuses nothing.
LEMMA FailCalm ==
  ASSUME WritesInv, NEW t \in Tasks, Fail(t), excuses = {}, excuses' = {}
  PROVE  Calm'
<1>1. Running(t) /\ UNCHANGED own
  BY DEF Fail, OperationFails, InitialFails, RereadFails, ReadFails, At, Running
<1>2. /\ Expects(t) /\ TypeOK /\ Named /\ task[t] \in Task /\ page \in Pages
  BY <1>1, RunsAlone DEF WritesInv, ExclusionInv, TypeOK, Pages
<1>3. Unbusy \in Pages /\ Unbusy.session = page.session
  BY <1>2 DEF Unbusy, Pages
<1>4. PICK failure \in {"network", "notFound", "conflict", "other"} :
        \/ OperationFails(t, failure) \/ InitialFails(t, failure)
        \/ RereadFails(t, failure) \/ ReadFails(t, failure)
  BY DEF Fail
<1>5. page'.session = page.session /\ lists' = lists /\ Shown => Shown'
  BY <1>1 DEF Shown, ListCurrent
<1>6. page'.session = 0 /\ own.active = 0 => Shown'
  BY <1>1 DEF Shown
<1>7. CASE OperationFails(t, failure)
  <2>1. /\ task[t].kind \in Exclusive /\ task[t].at \in {"asking", "listing"} /\ lists' = lists
        /\ Meets(t, failure)
    BY <1>7 DEF OperationFails
  <2>2. CASE Rereads(failure)
    <3>1. /\ page' = Unbusy
          /\ Goes(t, IF task[t].kind \in Changing THEN "relisting" ELSE "rereading", task[t].on)
      BY <1>7, <2>2 DEF OperationFails
    <3>2. CASE task[t].kind \in Changing
      <4>1. Goes(t, "relisting", task[t].on)
        BY <3>1, <3>2
      <4>2. task[t].on = page'.session /\ page'.session >= own.active
        BY <1>2, <1>3, <2>1, <3>1, <3>2 DEF Expects, At
      <4> QED BY <1>1, <2>1, <4>1, <4>2, GoesCalm
    <3>3. CASE task[t].kind \notin Changing
      <4>1. Goes(t, "rereading", task[t].on)
        BY <3>1, <3>3
      <4> QED BY <1>1, <2>1, <4>1, GoesCalm
    <3> QED BY <3>2, <3>3
  <2>3. CASE ~Rereads(failure)
    <3>1. Leaves(t, Unbusy) /\ ~At(t, "listing")
      BY <1>7, <2>3 DEF OperationFails
    <3>2. task[t].reply.status # "ok" /\ At(t, "asking")
      BY <2>1, <2>3, <3>1 DEF Rereads, Meets, At, AsksLists, AsksPart, Exclusive, Changing
    <3>3. Shown
      BY <1>2, <2>1, <3>2 DEF Expects
    <3>4. page'.session = page.session
      BY <1>3, <3>1, LeftSession
    <3> QED BY <1>1, <1>5, <2>1, <3>1, <3>3, <3>4, LeavesCalm
  <2> QED BY <2>2, <2>3
<1>8. CASE InitialFails(t, failure)
  <2> DEFINE shown == [known |-> TRUE, session |-> 0,
                       busy |-> IF failure = "notFound" THEN page.busy ELSE "no"]
  <2>1. Leaves(t, shown) /\ own.active = 0
    BY <1>2, <1>8 DEF InitialFails, Expects
  <2>2. shown \in Pages /\ shown.session = 0
    BY <1>2, JourneyAssumption DEF Pages
  <2> HIDE DEF shown
  <2>3. page'.session = 0
    BY <2>1, <2>2, LeftSession
  <2> QED BY <1>1, <1>6, <2>1, <2>3, LeavesCalm
<1>9. CASE RereadFails(t, failure)
  <2>1. failure = "notFound" /\ task[t].reply.status = "notFound"
    BY <1>9 DEF RereadFails, Meets
  <2>2. own.active = 0
    BY <1>2, <1>9, <2>1 DEF RereadFails, Expects, At, NoReply
  <2> DEFINE shown == [page EXCEPT !.session = 0]
  <2>3. Leaves(t, shown)
    BY <1>9, <2>1 DEF RereadFails
  <2>4. shown \in Pages /\ shown.session = 0
    BY <1>2, JourneyAssumption DEF Pages
  <2> HIDE DEF shown
  <2>5. page'.session = 0
    BY <2>3, <2>4, LeftSession
  <2> QED BY <1>1, <1>6, <2>2, <2>3, <2>5, LeavesCalm
<1>10. CASE ReadFails(t, failure)
  BY <1>10 DEF ReadFails
<1> QED BY <1>4, <1>7, <1>8, <1>9, <1>10

\* Every step keeps it.
LEMMA WritesStep == WritesInv /\ [Next]_vars => WritesInv'
<1> SUFFICES ASSUME WritesInv, [Next]_vars PROVE WritesInv'
  OBVIOUS
<1>1. ExclusionInv' /\ ServerAhead'
  BY NextExclusion, AheadKept DEF WritesInv, ExclusionInv
<1>2. ASSUME excuses' = {} PROVE Calm'
  <2>1. excuses = {} /\ Calm
    BY <1>2, CalmBefore DEF WritesInv
  <2>2. ASSUME NEW t \in Tasks, ServerStep(t) PROVE Calm'
    BY <1>2, <2>1, <2>2, ServeCalm, CurrentCalm, ListsCalm DEF ServerStep
  <2>3. CASE UNCHANGED <<task, page, lists, own>>
    BY <2>1, <2>3 DEF Calm, Quiet, Running, Shown, ListCurrent, Expects, At
  <2>4. CASE UNCHANGED vars \/ Rests \/ OtherTab
    BY <2>3, <2>4 DEF Rests, OtherTab, vars, server, history
  <2>5. ~ServeOrphan
    BY <1>2 DEF ServeOrphan
  <2> QED BY <1>2, <2>1, <2>2, <2>4, <2>5, ClickCalm, TakeCalm, FailCalm DEF Next
<1> QED BY <1>1, <1>2 DEF WritesInv

\* A page at rest shows at least what its own requests have done, answered or not:
\* whoever reads after a failure reads enough (useJourney.ts, fail and resync).
THEOREM OwnWritesAreShown == Spec => []OwnWritesShown
<1>1. Init => WritesInv
  <2> SUFFICES ASSUME Init PROVE WritesInv
    OBVIOUS
  <2>1. ExclusionInv
    BY InitExclusion
  <2>2. ServerAhead
    BY JourneyAssumption DEF Init, ServerAhead
  <2>3. \A t \in Tasks : Running(t) => t = First
    BY DEF Init, Running, Idle
  <2>4. Running(First) /\ First \in Tasks
    BY JourneyAssumption DEF Init, Running, Idle
  <2>5. Expects(First)
    BY <2>4 DEF Init, Expects, At, Idle, Exclusive, Changing, NoReply
  <2> QED BY <2>1, <2>2, <2>3, <2>4, <2>5 DEF WritesInv, Calm, Quiet
<1>2. WritesInv => OwnWritesShown
  <2> SUFFICES ASSUME WritesInv, Quiet, excuses = {}
               PROVE  Shown
    BY DEF OwnWritesShown, Shown, ListCurrent
  <2> QED BY DEF WritesInv, Calm
<1> QED BY <1>1, <1>2, WritesStep, PTL DEF Spec
=============================================================================
