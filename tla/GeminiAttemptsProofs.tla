------------------------ MODULE GeminiAttemptsProofs ------------------------
(***************************************************************************)
(* Proofs about GeminiAttempts for every value of its constants.           *)
(***************************************************************************)
EXTENDS GeminiAttempts, SequenceTheorems, FiniteSetTheorems, WellFoundedInduction, TLAPS

\* The limits a started process runs with are numbers (createEnv).
LEMMA LimitsTyped ==
  /\ MaxAttempts \in Nat \ {0}
  /\ GlobalCap \in Nat /\ UserCap \in Nat
  /\ LastDay \in Nat \ {0}
  /\ \A scope : Cap(scope) \in Nat
<1>1. MaxAttempts \in 1 .. 2
  BY AttemptsAssumption DEF Accepted, Numbers, Within
<1>2. GlobalCap \in 1 .. 20
  BY LedgerAssumption DEF Accepted, Numbers, Within
<1>3. UserCap \in 1 .. 20
  BY LedgerAssumption DEF Accepted, Numbers, Within
<1> QED BY <1>1, <1>2, <1>3, LedgerAssumption DEF Cap

\* The rows a call is charged in are rows of the ledger, and two of them: no user
\* is everybody.
LEMMA RowsTyped ==
  ASSUME NEW c \in Calls, NEW day \in Days
  PROVE  /\ CallerOf[c] \in Users /\ CallerOf[c] # Global
         /\ <<Global, day>> \in Rows /\ <<CallerOf[c], day>> \in Rows
         /\ RowsOf(CallerOf[c], day) \subseteq Rows
<1>1. CallerOf[c] \in Users /\ CallerOf[c] # Global
  BY LedgerAssumption
<1>2. <<Global, day>> \in Rows /\ <<CallerOf[c], day>> \in Rows
  BY <1>1 DEF Rows, Scopes
<1> QED BY <1>1, <1>2 DEF RowsOf

\* The rows of a request are those of its day that are of its user's scopes.
LEMMA RowsOfRequest ==
  ASSUME NEW c \in Calls, NEW day, NEW row \in Rows
  PROVE  row \in RowsOf(CallerOf[c], day) <=> InScope(c, row[1]) /\ row[2] = day
BY DEF Rows, RowsOf, InScope

\* A step of one call leaves the others as they are, and is well typed if what it
\* makes of its call is.
LEMMA StepTyped ==
  ASSUME TypeOK, NEW c \in Calls, NEW a \in Call,
         call' = [call EXCEPT ![c] = a],
         LedgerTypeOK', UNCHANGED <<today, report>>,
         events' \in [Calls -> Event \cup {NoRow}], faulty' \in BOOLEAN
  PROVE  TypeOK'
BY DEF TypeOK

\* A step of one call keeps the attempts counted if it counts its own.
LEMMA StepCounted ==
  ASSUME TypeOK, AttemptsCounted, NEW c \in Calls, NEW a,
         call' = [call EXCEPT ![c] = a], Counted(a)
  PROVE  AttemptsCounted'
BY DEF TypeOK, AttemptsCounted, Counted

-----------------------------------------------------------------------------
(* The initial states.                                                     *)

LEMMA InitialBudget == Init => BudgetInv /\ ReservationsMatchAttempts
<1> SUFFICES ASSUME Init PROVE BudgetInv /\ ReservationsMatchAttempts
  OBVIOUS
<1>1. ASSUME NEW c \in Calls
      PROVE  call[c] \in Call /\ Counted(call[c]) /\ call[c].state \in {"idle", "ended"}
  <2>1. PICK state \in {"idle", "ended"} :
          call[c] = [state |-> state, attempts |-> 0, day |-> 1, aborted |-> FALSE,
                     requests |-> <<>>]
    BY <1>1 DEF Init
  <2>2. <<>> \in Seq(Request) /\ Len(<<>>) = 0
    BY EmptySeq
  <2>3. 0 \in 0 .. MaxAttempts /\ 1 \in Days
    BY LimitsTyped DEF Days
  <2> QED BY <2>1, <2>2, <2>3 DEF Call, CallStates, Counted
<1>2. ledger \in [Rows -> [reserved : Int, spent : Nat]] /\ held \in [Calls -> SUBSET Rows]
  BY DEF Init, LedgerInit
<1>3. call \in [Calls -> Call]
  BY <1>1 DEF Init
<1>4. TypeOK
  BY <1>2, <1>3 DEF Init, TypeOK, LedgerTypeOK, Report
<1>5. \A row \in Rows : Charged(row) = 0 /\ ledger[row].reserved = 0
  BY DEF Init, LedgerInit, Charged
<1>6. CapsHold
  BY <1>5, LimitsTyped DEF CapsHold
<1>7. LocksExclusive
  BY <1>1 DEF LocksExclusive, Init, LedgerInit, At
<1>8. ASSUME NEW row \in Rows PROVE OpenUnder(row) = {}
  BY <1>1 DEF OpenUnder
<1>9. Cardinality({}) = 0
  BY FS_EmptySet
<1>10. ReservationsMatchAttempts
  BY <1>5, <1>8, <1>9 DEF ReservationsMatchAttempts
<1> QED BY <1>1, <1>4, <1>6, <1>7, <1>10 DEF BudgetInv, AttemptsCounted

-----------------------------------------------------------------------------
(* What an await makes of its call.                                        *)

\* A call that begins an attempt is a call, and its requests stay fewer than its
\* attempts (onAttempt).
LEMMA AttemptBegun ==
  ASSUME TypeOK, AttemptsCounted, NEW c \in Calls, BeginsAttempt(c),
         At(c, "idle") \/ At(c, "waiting")
  PROVE  \E a \in Call : /\ call' = [call EXCEPT ![c] = a] /\ Counted(a)
                         /\ a.state = "reserving"
<1> DEFINE a == [call[c] EXCEPT !.state = "reserving", !.attempts = @ + 1, !.day = today]
<1>1. call[c] \in Call /\ today \in Days /\ Counted(call[c])
  BY DEF TypeOK, AttemptsCounted
<1>2. call[c].attempts + 1 \in 0 .. MaxAttempts
  BY <1>1, LimitsTyped DEF Call, Counted, At
<1>3. a \in Call
  BY <1>1, <1>2 DEF Call, CallStates
<1>4. Len(call[c].requests) \in Nat
  BY <1>1, LenProperties DEF Call
<1>5. Counted(a)
  <2>1. call[c].attempts = Len(call[c].requests)
    BY <1>1, <1>4 DEF Counted, At
  <2>2. /\ a.state = "reserving" /\ a.requests = call[c].requests
        /\ a.attempts = call[c].attempts + 1
    BY <1>1 DEF Call
  <2> HIDE DEF a
  <2> QED BY <1>4, <2>1, <2>2 DEF Counted
<1>6. call' = [call EXCEPT ![c] = a]
  BY DEF BeginsAttempt
<1>7. a.state = "reserving"
  BY <1>1 DEF Call
<1> QED BY <1>3, <1>5, <1>6, <1>7

\* A call that only moves on, with what it has counted.
LEMMA CallMoved ==
  ASSUME TypeOK, AttemptsCounted, NEW c \in Calls,
         NEW state \in {"holding", "settling", "recording", "ended"},
         state = "holding" => At(c, "reserving"), state = "settling" => At(c, "reconciling"),
         Goto(c, state)
  PROVE  \E a \in Call : /\ call' = [call EXCEPT ![c] = a] /\ Counted(a)
                         /\ a.state = state /\ a.day = call[c].day
<1> DEFINE a == [call[c] EXCEPT !.state = state]
<1>1. call[c] \in Call /\ Counted(call[c])
  BY DEF TypeOK, AttemptsCounted
<1>2. a \in Call /\ Counted(a)
  BY <1>1 DEF Call, CallStates, Counted, At
<1>3. call' = [call EXCEPT ![c] = a] /\ a.state = state /\ a.day = call[c].day
  BY <1>1 DEF Goto, TypeOK, Call
<1> QED BY <1>2, <1>3

\* An attempt that is over leaves its call waiting only if another is left.
LEMMA AttemptEnded ==
  ASSUME TypeOK, AttemptsCounted, NEW c \in Calls,
         call[c].state \in {"reconciling", "settling"}, EndAttempt(c, AfterAttempt(c))
  PROVE  \E a \in Call : /\ call' = [call EXCEPT ![c] = a] /\ Counted(a)
                         /\ a.state \in {"waiting", "recording"}
<1> DEFINE a == [call[c] EXCEPT !.state = AfterAttempt(c), !.aborted = FALSE]
<1>1. call[c] \in Call /\ Counted(call[c])
  BY DEF TypeOK, AttemptsCounted
<1>2. AfterAttempt(c) \in {"waiting", "recording"}
  BY DEF AfterAttempt
<1>3. AfterAttempt(c) = "waiting" => call[c].attempts < MaxAttempts
  BY DEF AfterAttempt
<1>4. a \in Call
  BY <1>1, <1>2 DEF Call, CallStates
<1>5. call' = [call EXCEPT ![c] = a] /\ a.state = AfterAttempt(c)
  BY <1>1 DEF EndAttempt, TypeOK, Call
<1>6. Counted(a)
  <2>1. a.requests = call[c].requests /\ a.attempts = call[c].attempts
    BY <1>1 DEF Call
  <2>2. call[c].attempts = Len(call[c].requests)
    BY <1>1 DEF Counted, At
  <2> HIDE DEF a
  <2> QED BY <1>2, <1>3, <1>5, <2>1, <2>2 DEF Counted
<1> QED BY <1>2, <1>4, <1>5, <1>6

\* What a call is when its timer has fired, or its request has an answer.
LEMMA CallAborted ==
  ASSUME TypeOK, AttemptsCounted, NEW c \in Calls, TimerFires(c)
  PROVE  \E a \in Call : /\ call' = [call EXCEPT ![c] = a] /\ Counted(a)
                         /\ a.state = call[c].state /\ a.day = call[c].day
                         /\ a.state \in {"calling", "reconciling", "settling"}
<1> DEFINE a == [call[c] EXCEPT !.aborted = TRUE]
<1>1. call[c] \in Call /\ Counted(call[c])
  BY DEF TypeOK, AttemptsCounted
<1>2. a \in Call /\ Counted(a)
  BY <1>1 DEF Call, Counted
<1>3. call' = [call EXCEPT ![c] = a] /\ a.state = call[c].state /\ a.day = call[c].day
  BY <1>1 DEF TimerFires, TypeOK, Call
<1> QED BY <1>2, <1>3 DEF TimerFires

LEMMA CallAnswered ==
  ASSUME TypeOK, AttemptsCounted, NEW c \in Calls, NEW outcome \in Outcomes,
         ProviderAnswers(c, outcome)
  PROVE  \E a \in Call : /\ call' = [call EXCEPT ![c] = a] /\ Counted(a)
                         /\ a.state = "reconciling" /\ a.day = call[c].day
                         /\ Len(a.requests) = Len(call[c].requests)
                         /\ \A i \in 1 .. Len(a.requests) :
                              a.requests[i].day = call[c].requests[i].day
<1> DEFINE last == Len(call[c].requests)
           requests == [call[c].requests EXCEPT ![last].outcome = outcome]
           a == [call[c] EXCEPT !.state = "reconciling", !.requests = requests]
<1>1. call[c] \in Call /\ Counted(call[c])
  BY DEF TypeOK, AttemptsCounted
<1>2. call[c].requests \in Seq(Request) /\ last \in Nat /\ last > 0
  BY <1>1, LenProperties DEF Call, Counted, ProviderAnswers, At
<1>3. last \in 1 .. Len(call[c].requests)
  BY <1>2
<1>4. call[c].requests[last] \in Request
  BY <1>2, <1>3, ElementOfSeq
<1>5. [call[c].requests[last] EXCEPT !.outcome = outcome] \in Request
  BY <1>4 DEF Request
<1>6. requests \in Seq(Request) /\ Len(requests) = last
  BY <1>2, <1>3, <1>5, ExceptSeq
<1>7. \A i \in 1 .. Len(requests) : requests[i].day = call[c].requests[i].day
  <2> TAKE i \in 1 .. Len(requests)
  <2>1. call[c].requests \in [1 .. last -> Request]
    BY <1>2, LenProperties
  <2>2. call[c].requests[i] \in Request
    BY <2>1, <1>6
  <2> QED BY <2>1, <2>2, <1>6 DEF Request
<1>8. a \in Call
  BY <1>1, <1>6 DEF Call, CallStates
<1>9. Counted(a)
  <2>1. /\ a.state = "reconciling" /\ a.requests = requests
        /\ a.attempts = call[c].attempts /\ a.day = call[c].day
    BY <1>1 DEF Call
  <2>2. call[c].attempts = last /\ call[c].requests[last].day = call[c].day
    BY <1>1 DEF Counted, ProviderAnswers, At
  <2>3. requests[last].day = call[c].requests[last].day
    BY <1>3, <1>6, <1>7
  <2> HIDE DEF a, requests, last
  <2> QED BY <1>2, <1>6, <2>1, <2>2, <2>3 DEF Counted
<1>10. call' = [call EXCEPT ![c] = a]
  BY <1>1 DEF ProviderAnswers, TypeOK, Call
<1>11. a.state = "reconciling" /\ a.day = call[c].day /\ a.requests = requests
  BY <1>1 DEF Call
<1> QED BY <1>6, <1>7, <1>8, <1>9, <1>10, <1>11

\* What a call is when its request has been sent.
LEMMA RequestSent ==
  ASSUME TypeOK, AttemptsCounted, NEW c \in Calls, ReserveUser(c)
  PROVE  \E a \in Call : /\ call' = [call EXCEPT ![c] = a] /\ Counted(a)
                         /\ a.state = "calling" /\ a.day = call[c].day
                         /\ Len(a.requests) = Len(call[c].requests) + 1
                         /\ Len(a.requests) \in 1 .. MaxAttempts
                         /\ a.requests[Len(a.requests)].day = call[c].day
                         /\ \A i \in 1 .. Len(call[c].requests) :
                              a.requests[i] = call[c].requests[i]
<1> DEFINE open == [day |-> call[c].day, outcome |-> "open"]
           requests == Append(call[c].requests, open)
           a == [call[c] EXCEPT !.state = "calling", !.requests = requests]
<1>1. call[c] \in Call /\ Counted(call[c]) /\ call[c].state = "holding"
  BY DEF TypeOK, AttemptsCounted, ReserveUser, At
<1>2. call[c].requests \in Seq(Request) /\ open \in Request
  BY <1>1 DEF Call, Request
<1>3. /\ requests \in Seq(Request) /\ Len(requests) = Len(call[c].requests) + 1
      /\ Len(call[c].requests) \in Nat
      /\ requests[Len(requests)] = open
      /\ \A i \in 1 .. Len(call[c].requests) : requests[i] = call[c].requests[i]
  BY <1>2, AppendProperties, LenProperties
<1>4. a \in Call
  BY <1>1, <1>3 DEF Call, CallStates
<1>5. Len(requests) <= call[c].attempts /\ Counted(a)
  BY <1>1, <1>3 DEF Counted, Call
<1>6. Len(requests) \in 1 .. MaxAttempts
  BY <1>1, <1>3, <1>5, LimitsTyped DEF Call
<1>7. call' = [call EXCEPT ![c] = a]
  BY DEF ReserveUser
<1>8. a.state = "calling" /\ a.day = call[c].day /\ a.requests = requests
  BY <1>1 DEF Call
<1>9. requests[Len(requests)].day = call[c].day
  BY <1>3
<1> HIDE DEF requests, a
<1> QED BY <1>3, <1>4, <1>5, <1>6, <1>7, <1>8, <1>9

-----------------------------------------------------------------------------
(* The row locks of transactions between their two statements.             *)

\* Only the global row of such a transaction is locked, so nobody waits for a user's
\* row.
LEMMA OnlyGlobalHeld ==
  ASSUME TypeOK, LocksExclusive, NEW c \in Calls, NEW row \in held[c]
  PROVE  row[1] = Global /\ \A d \in Calls \ {c} : row \notin held[d]
<1>1. row = <<Global, call[c].day>>
  BY DEF LocksExclusive
<1>2. \A d \in Calls \ {c} : row \notin held[d]
  BY DEF LocksExclusive
<1> QED BY <1>1, <1>2

\* What the lock of a call is told by, for all of them and after a step.
LEMMA LocksFollow ==
  ASSUME NEW c \in Calls, LocksExclusive
  PROVE  /\ held[c] = IF call[c].state \in {"holding", "settling"}
                      THEN {<<Global, call[c].day>>} ELSE {}
         /\ \A d \in Calls \ {c} : held[c] \cap held[d] = {}
         /\ call[c].state = "holding" => WithinCap(<<Global, call[c].day>>)
BY DEF LocksExclusive, At

\* Locks stay exclusive when a call takes none and gives none back.
LEMMA LocksAside ==
  ASSUME TypeOK, LocksExclusive, NEW c \in Calls, NEW a,
         call' = [call EXCEPT ![c] = a], UNCHANGED ledgerVars,
         a.state \in {"holding", "settling"} <=> call[c].state \in {"holding", "settling"},
         a.state \in {"holding", "settling"} => a.state = call[c].state /\ a.day = call[c].day
  PROVE  LocksExclusive'
<1> SUFFICES ASSUME NEW d \in Calls
             PROVE  /\ held[d] = IF call'[d].state \in {"holding", "settling"}
                                 THEN {<<Global, call'[d].day>>} ELSE {}
                    /\ \A e \in Calls \ {d} : held[d] \cap held[e] = {}
                    /\ call'[d].state = "holding" => WithinCap(<<Global, call'[d].day>>)
  BY DEF LocksExclusive, ledgerVars, WithinCap, Charged, At
<1>1. /\ call'[d].state \in {"holding", "settling"} <=>
           call[d].state \in {"holding", "settling"}
      /\ call'[d].state \in {"holding", "settling"} =>
           call'[d].state = call[d].state /\ call'[d].day = call[d].day
  BY DEF TypeOK
<1> QED BY <1>1, LocksFollow

\* The first statement of a transaction locks a row that is free, and that of a
\* reservation one that is below its cap.
LEMMA LocksTaken ==
  ASSUME TypeOK, LocksExclusive, NEW c \in Calls, NEW a,
         LockRow(c, <<Global, call[c].day>>), call' = [call EXCEPT ![c] = a],
         a.state \in {"holding", "settling"}, a.day = call[c].day,
         a.state = "holding" => WithinCap(<<Global, call[c].day>>)
  PROVE  LocksExclusive'
<1> DEFINE row == <<Global, call[c].day>>
<1>1. /\ held' = [held EXCEPT ![c] = {row}] /\ UNCHANGED ledger
      /\ \A d \in Calls \ {c} : row \notin held[d]
  BY DEF LockRow, RowFree
<1> SUFFICES ASSUME NEW d \in Calls
             PROVE  /\ held'[d] = IF call'[d].state \in {"holding", "settling"}
                                  THEN {<<Global, call'[d].day>>} ELSE {}
                    /\ \A e \in Calls \ {d} : held'[d] \cap held'[e] = {}
                    /\ call'[d].state = "holding" => WithinCap(<<Global, call'[d].day>>)
  BY <1>1 DEF LocksExclusive, WithinCap, Charged, At
<1>2. held'[c] = {row} /\ call'[c] = a
  BY <1>1 DEF TypeOK, LedgerTypeOK
<1>3. \A e \in Calls \ {c} : held'[e] = held[e] /\ call'[e] = call[e]
  BY <1>1 DEF TypeOK, LedgerTypeOK
<1>6. row = <<Global, a.day>> /\ (a.state = "holding" => WithinCap(<<Global, a.day>>))
  OBVIOUS
<1> HIDE DEF row
<1>4. CASE d = c
  BY <1>1, <1>2, <1>3, <1>4, <1>6
<1>5. CASE d # c
  <2>1. held'[d] = held[d] /\ call'[d] = call[d]
    BY <1>3, <1>5
  <2>2. held[d] \cap {row} = {}
    BY <1>1, <1>5
  <2> QED BY <1>2, <1>3, <2>1, <2>2, LocksFollow
<1> QED BY <1>4, <1>5

\* A transaction that ends gives its row back, and what it commits is in no row
\* another one has locked.
LEMMA LocksReleased ==
  ASSUME TypeOK, LocksExclusive, NEW c \in Calls, NEW a,
         call' = [call EXCEPT ![c] = a], a.state \notin {"holding", "settling"},
         held' = [held EXCEPT ![c] = {}],
         \A row \in Rows : Charged(row)' = Charged(row)
                             \/ row \in held[c] \/ row[1] # Global
  PROVE  LocksExclusive'
<1> SUFFICES ASSUME NEW d \in Calls
             PROVE  /\ held'[d] = IF call'[d].state \in {"holding", "settling"}
                                  THEN {<<Global, call'[d].day>>} ELSE {}
                    /\ \A e \in Calls \ {d} : held'[d] \cap held'[e] = {}
                    /\ call'[d].state = "holding" => WithinCap(<<Global, call[d].day>>)'
  BY DEF LocksExclusive, WithinCap, At
<1>1. held'[c] = {} /\ call'[c] = a
  BY DEF TypeOK, LedgerTypeOK
<1>2. \A e \in Calls \ {c} : held'[e] = held[e] /\ call'[e] = call[e]
  BY DEF TypeOK, LedgerTypeOK
<1>3. CASE d = c
  BY <1>1, <1>3
<1>4. CASE d # c
  <2>1. held'[d] = IF call'[d].state \in {"holding", "settling"}
                   THEN {<<Global, call'[d].day>>} ELSE {}
    BY <1>2, <1>4, LocksFollow
  <2>2. \A e \in Calls \ {d} : held'[d] \cap held'[e] = {}
    BY <1>1, <1>2, <1>4, LocksFollow
  <2>3. ASSUME call[d].state = "holding" PROVE WithinCap(<<Global, call[d].day>>)'
    <3>0. PICK row : row = <<Global, call[d].day>>
      OBVIOUS
    <3>1. row \in held[d] /\ WithinCap(row)
      BY <2>3, <3>0, LocksFollow
    <3>2. row \in Rows /\ row[1] = Global
      BY <3>0, <3>1 DEF TypeOK, LedgerTypeOK
    <3>3. row \notin held[c]
      BY <1>4, <3>1, OnlyGlobalHeld
    <3>4. Charged(row)' = Charged(row)
      BY <3>2, <3>3
    <3>5. call'[d] = call[d]
      BY <1>2, <1>4
    <3>6. row = <<Global, call'[d].day>>
      BY <3>0, <3>5
    <3> QED BY <3>1, <3>4, <3>6 DEF WithinCap
  <2> QED BY <1>2, <1>4, <2>1, <2>2, <2>3
<1> QED BY <1>3, <1>4

\* What is reconciled is charged as before.
LEMMA ReconciledCharge ==
  ASSUME TypeOK, NEW c \in Calls, NEW day \in Days, CommitReconciliation(c, CallerOf[c], day)
  PROVE  /\ LedgerTypeOK'
         /\ \A row \in Rows : Charged(row)' = Charged(row)
<1>1. ASSUME NEW row \in Rows
      PROVE  /\ [reserved |-> ledger[row].reserved - 1, spent |-> ledger[row].spent + 1]
                  \in [reserved : Int, spent : Nat]
             /\ ledger'[row] \in [reserved : Int, spent : Nat]
             /\ Charged(row)' = Charged(row)
  <2>1. ledger[row] \in [reserved : Int, spent : Nat]
    BY <1>1 DEF TypeOK, LedgerTypeOK
  <2>2. ledger'[row] = IF row \in RowsOf(CallerOf[c], day)
                       THEN [reserved |-> ledger[row].reserved - 1,
                             spent |-> ledger[row].spent + 1]
                       ELSE ledger[row]
    BY <1>1 DEF CommitReconciliation
  <2> QED BY <2>1, <2>2 DEF Charged
<1>2. ledger' \in [Rows -> [reserved : Int, spent : Nat]]
  BY <1>1 DEF CommitReconciliation
<1>3. held' \in [Calls -> SUBSET Rows]
  BY DEF CommitReconciliation, TypeOK, LedgerTypeOK
<1> QED BY <1>1, <1>2, <1>3 DEF LedgerTypeOK

\* A committed reservation adds one to both rows of its request.
LEMMA CommittedCharge ==
  ASSUME TypeOK, NEW c \in Calls, NEW day \in Days, CommitReservation(c, CallerOf[c], day)
  PROVE  /\ LedgerTypeOK'
         /\ \A row \in Rows :
              /\ Charged(row)' = IF row \in RowsOf(CallerOf[c], day)
                                 THEN Charged(row) + 1 ELSE Charged(row)
              /\ ledger'[row].reserved = IF row \in RowsOf(CallerOf[c], day)
                                         THEN ledger[row].reserved + 1
                                         ELSE ledger[row].reserved
<1>1. ASSUME NEW row \in Rows
      PROVE  /\ ledger'[row] \in [reserved : Int, spent : Nat]
             /\ Charged(row)' = IF row \in RowsOf(CallerOf[c], day)
                                THEN Charged(row) + 1 ELSE Charged(row)
             /\ ledger'[row].reserved = IF row \in RowsOf(CallerOf[c], day)
                                        THEN ledger[row].reserved + 1
                                        ELSE ledger[row].reserved
  <2>1. ledger[row] \in [reserved : Int, spent : Nat]
    BY <1>1 DEF TypeOK, LedgerTypeOK
  <2>2. ledger'[row] = IF row \in RowsOf(CallerOf[c], day)
                       THEN [ledger[row] EXCEPT !.reserved = @ + 1]
                       ELSE ledger[row]
    BY <1>1 DEF CommitReservation
  <2> QED BY <2>1, <2>2 DEF Charged
<1>2. ledger' \in [Rows -> [reserved : Int, spent : Nat]]
  BY <1>1 DEF CommitReservation
<1>3. held' \in [Calls -> SUBSET Rows]
  BY DEF CommitReservation, TypeOK, LedgerTypeOK
<1> QED BY <1>1, <1>2, <1>3 DEF LedgerTypeOK

-----------------------------------------------------------------------------
(* The attempts that still have a reservation.                             *)

\* Whether a call has a reservation to reconcile is told by its own state.
LEMMA OpenAfter ==
  ASSUME TypeOK, NEW c \in Calls, NEW a, call' = [call EXCEPT ![c] = a], NEW row \in Rows
  PROVE  /\ IsFiniteSet(OpenUnder(row)) /\ IsFiniteSet(OpenUnder(row)')
         /\ OpenUnder(row)' =
              IF /\ InScope(c, row[1]) /\ a.state \in {"calling", "reconciling", "settling"}
                 /\ a.day = row[2]
              THEN OpenUnder(row) \cup {c} ELSE OpenUnder(row) \ {c}
<1>1. OpenUnder(row) \subseteq Calls /\ OpenUnder(row)' \subseteq Calls
  BY DEF OpenUnder
<1>2. IsFiniteSet(Calls)
  BY AttemptsAssumption
<1>3. IsFiniteSet(OpenUnder(row)) /\ IsFiniteSet(OpenUnder(row)')
  BY <1>1, <1>2, FS_Subset
<1>4. call'[c] = a /\ \A d \in Calls \ {c} : call'[d] = call[d]
  BY DEF TypeOK
<1>5. OpenUnder(row)' =
        IF /\ InScope(c, row[1]) /\ a.state \in {"calling", "reconciling", "settling"}
           /\ a.day = row[2]
        THEN OpenUnder(row) \cup {c} ELSE OpenUnder(row) \ {c}
  BY <1>4 DEF OpenUnder, InScope
<1> QED BY <1>3, <1>5

\* Cardinalities of a set that gains or loses one element.
LEMMA OneMore ==
  ASSUME NEW S, IsFiniteSet(S), NEW x
  PROVE  /\ Cardinality(S) \in Nat
         /\ Cardinality(S \cup {x}) = IF x \in S THEN Cardinality(S) ELSE Cardinality(S) + 1
         /\ Cardinality(S \ {x}) = IF x \in S THEN Cardinality(S) - 1 ELSE Cardinality(S)
BY FS_CardinalityType, FS_AddElement, FS_RemoveElement

\* A step that makes no reservation, and of which none is left behind unless it
\* failed, keeps them accounted for.
LEMMA ReservationsAside ==
  ASSUME TypeOK, ReservationsMatchAttempts, NEW c \in Calls, NEW a,
         call' = [call EXCEPT ![c] = a], ledger' = ledger, faulty' \in BOOLEAN,
         a.state \in {"calling", "reconciling", "settling"} =>
           call[c].state \in {"calling", "reconciling", "settling"} /\ a.day = call[c].day,
         ~faulty' =>
           /\ ~faulty
           /\ call[c].state \in {"calling", "reconciling", "settling"} =>
                a.state \in {"calling", "reconciling", "settling"}
  PROVE  ReservationsMatchAttempts'
<1> SUFFICES ASSUME NEW row \in Rows
             PROVE  /\ Cardinality(OpenUnder(row)') <= ledger[row].reserved
                    /\ ~faulty' => Cardinality(OpenUnder(row)') = ledger[row].reserved
  BY DEF ReservationsMatchAttempts
<1>1. /\ Cardinality(OpenUnder(row)) <= ledger[row].reserved
      /\ ~faulty => Cardinality(OpenUnder(row)) = ledger[row].reserved
      /\ ledger[row].reserved \in Int
  BY DEF ReservationsMatchAttempts, TypeOK, LedgerTypeOK
<1>2. c \in OpenUnder(row) <=> /\ InScope(c, row[1]) /\ call[c].day = row[2]
                               /\ call[c].state \in {"calling", "reconciling", "settling"}
  BY DEF OpenUnder
<1> DEFINE after == /\ InScope(c, row[1]) /\ a.state \in {"calling", "reconciling", "settling"}
                    /\ a.day = row[2]
<1>3. /\ IsFiniteSet(OpenUnder(row))
      /\ OpenUnder(row)' = IF after THEN OpenUnder(row) \cup {c} ELSE OpenUnder(row) \ {c}
  BY OpenAfter
<1>4. /\ after => c \in OpenUnder(row)
      /\ ~faulty' /\ c \in OpenUnder(row) => after
  BY <1>2
<1> HIDE DEF after
<1>5. OpenUnder(row)' \in {OpenUnder(row), OpenUnder(row) \ {c}}
  BY <1>3, <1>4
<1>6. ~faulty' => OpenUnder(row)' = OpenUnder(row)
  BY <1>3, <1>4
<1>7. /\ Cardinality(OpenUnder(row)) \in Nat
      /\ Cardinality(OpenUnder(row) \ {c}) =
           IF c \in OpenUnder(row) THEN Cardinality(OpenUnder(row)) - 1
           ELSE Cardinality(OpenUnder(row))
  BY <1>3, OneMore
<1>8. /\ Cardinality(OpenUnder(row) \ {c}) <= Cardinality(OpenUnder(row))
      /\ Cardinality(OpenUnder(row) \ {c}) \in Int
  BY <1>7
<1>9. Cardinality(OpenUnder(row)') <= ledger[row].reserved
  <2>1. CASE OpenUnder(row)' = OpenUnder(row)
    BY <1>1, <2>1
  <2>2. CASE OpenUnder(row)' = OpenUnder(row) \ {c}
    <3>1. Cardinality(OpenUnder(row) \ {c}) <= ledger[row].reserved
      BY <1>1, <1>7, <1>8
    <3> QED BY <2>2, <3>1
  <2> QED BY <1>5, <2>1, <2>2
<1> QED BY <1>1, <1>6, <1>9

\* A committed reservation belongs to the attempt that made it, or is left behind.
LEMMA ReservationsMade ==
  ASSUME TypeOK, ReservationsMatchAttempts, NEW c \in Calls, NEW a,
         call' = [call EXCEPT ![c] = a], faulty' \in BOOLEAN,
         At(c, "holding"), a.day = call[c].day,
         CommitReservation(c, CallerOf[c], call[c].day),
         ~faulty' => ~faulty /\ a.state = "calling"
  PROVE  ReservationsMatchAttempts'
<1> SUFFICES ASSUME NEW row \in Rows
             PROVE  /\ Cardinality(OpenUnder(row)') <= ledger'[row].reserved
                    /\ ~faulty' => Cardinality(OpenUnder(row)') = ledger'[row].reserved
  BY DEF ReservationsMatchAttempts
<1>1. /\ Cardinality(OpenUnder(row)) <= ledger[row].reserved
      /\ ~faulty => Cardinality(OpenUnder(row)) = ledger[row].reserved
      /\ ledger[row].reserved \in Int
  BY DEF ReservationsMatchAttempts, TypeOK, LedgerTypeOK
<1>2. call[c].day \in Days
  BY DEF TypeOK, Call
<1> DEFINE its == InScope(c, row[1]) /\ row[2] = call[c].day
<1>3. its <=> row \in RowsOf(CallerOf[c], call[c].day)
  BY RowsOfRequest
<1>4. ledger'[row].reserved = IF its THEN ledger[row].reserved + 1 ELSE ledger[row].reserved
  BY <1>2, <1>3, CommittedCharge
<1>5. c \notin OpenUnder(row)
  BY DEF OpenUnder, At
<1>6. /\ IsFiniteSet(OpenUnder(row))
      /\ OpenUnder(row)' = IF its /\ a.state \in {"calling", "reconciling", "settling"}
                           THEN OpenUnder(row) \cup {c} ELSE OpenUnder(row) \ {c}
  BY OpenAfter
<1> HIDE DEF its
<1>7. /\ Cardinality(OpenUnder(row)) \in Nat
      /\ Cardinality(OpenUnder(row) \cup {c}) = Cardinality(OpenUnder(row)) + 1
      /\ Cardinality(OpenUnder(row) \ {c}) = Cardinality(OpenUnder(row))
  BY <1>5, <1>6, OneMore
<1>8. CASE its /\ a.state \in {"calling", "reconciling", "settling"}
  BY <1>1, <1>4, <1>6, <1>7, <1>8
<1>9. CASE ~(its /\ a.state \in {"calling", "reconciling", "settling"})
  BY <1>1, <1>4, <1>6, <1>7, <1>9
<1> QED BY <1>8, <1>9

\* A reconciliation takes its reservation back in both rows, where it was made.
LEMMA ReservationsReleased ==
  ASSUME TypeOK, ReservationsMatchAttempts, NEW c \in Calls, NEW a,
         call' = [call EXCEPT ![c] = a], faulty' \in BOOLEAN, ~faulty' => ~faulty,
         At(c, "settling"), a.state \notin {"calling", "reconciling", "settling"},
         CommitReconciliation(c, CallerOf[c], call[c].day)
  PROVE  ReservationsMatchAttempts'
<1> SUFFICES ASSUME NEW row \in Rows
             PROVE  /\ Cardinality(OpenUnder(row)') <= ledger'[row].reserved
                    /\ ~faulty' => Cardinality(OpenUnder(row)') = ledger'[row].reserved
  BY DEF ReservationsMatchAttempts
<1>1. /\ Cardinality(OpenUnder(row)) <= ledger[row].reserved
      /\ ~faulty => Cardinality(OpenUnder(row)) = ledger[row].reserved
      /\ ledger[row].reserved \in Int
  BY DEF ReservationsMatchAttempts, TypeOK, LedgerTypeOK
<1>2. call[c].day \in Days
  BY DEF TypeOK, Call
<1> DEFINE its == InScope(c, row[1]) /\ row[2] = call[c].day
<1>3. its <=> row \in RowsOf(CallerOf[c], call[c].day)
  BY RowsOfRequest
<1>4. ledger'[row].reserved = IF its THEN ledger[row].reserved - 1 ELSE ledger[row].reserved
  BY <1>3 DEF CommitReconciliation
<1>5. c \in OpenUnder(row) <=> its
  BY DEF OpenUnder, At
<1>6. IsFiniteSet(OpenUnder(row)) /\ OpenUnder(row)' = OpenUnder(row) \ {c}
  BY OpenAfter
<1> HIDE DEF its
<1>7. /\ Cardinality(OpenUnder(row)) \in Nat
      /\ Cardinality(OpenUnder(row) \ {c}) =
           IF its THEN Cardinality(OpenUnder(row)) - 1 ELSE Cardinality(OpenUnder(row))
  BY <1>5, <1>6, OneMore
<1> QED BY <1>1, <1>4, <1>6, <1>7

-----------------------------------------------------------------------------
(* The inductive invariant.                                                *)

AccountedInv == BudgetInv /\ ReservationsMatchAttempts

\* A step that leaves what is charged as it is carries no row past its cap.
LEMMA CapsAside ==
  ASSUME CapsHold, \A row \in Rows : Charged(row)' = Charged(row)
  PROVE  CapsHold'
BY DEF CapsHold

\* A step of one call that touches neither the ledger nor its locks.
LEMMA CallStep ==
  ASSUME AccountedInv, NEW c \in Calls, NEW a \in Call, Counted(a),
         call' = [call EXCEPT ![c] = a],
         UNCHANGED <<ledgerVars, today, report>>,
         events' \in [Calls -> Event \cup {NoRow}], faulty' \in BOOLEAN,
         a.state \in {"holding", "settling"} <=> call[c].state \in {"holding", "settling"},
         a.state \in {"holding", "settling"} => a.state = call[c].state /\ a.day = call[c].day,
         a.state \in {"calling", "reconciling", "settling"} =>
           call[c].state \in {"calling", "reconciling", "settling"} /\ a.day = call[c].day,
         ~faulty' =>
           /\ ~faulty
           /\ call[c].state \in {"calling", "reconciling", "settling"} =>
                a.state \in {"calling", "reconciling", "settling"}
  PROVE  AccountedInv'
<1> USE DEF AccountedInv, BudgetInv
<1>1. LedgerTypeOK'
  BY DEF TypeOK, LedgerTypeOK, ledgerVars
<1>2. TypeOK'
  BY <1>1, StepTyped
<1>3. AttemptsCounted'
  BY StepCounted
<1>4. LocksExclusive'
  BY LocksAside
<1>5. CapsHold'
  BY CapsAside DEF ledgerVars, Charged
<1>6. ReservationsMatchAttempts'
  BY ReservationsAside DEF ledgerVars
<1> QED BY <1>2, <1>3, <1>4, <1>5, <1>6

\* The awaits that neither reserve nor reconcile: the start of an attempt, a
\* refusal without a reservation, the timer, the answer, the telemetry.
LEMMA QuietSteps ==
  ASSUME AccountedInv, NEW c \in Calls,
         \/ Start(c) \/ Disabled(c) \/ RefuseGlobal(c) \/ TimerFires(c)
         \/ \E outcome \in Answers \cup {"timeout"} : ProviderAnswers(c, outcome)
         \/ Retry(c) \/ Record(c) \/ RecordFails(c)
  PROVE  AccountedInv'
<1> USE DEF AccountedInv, BudgetInv
<1>0. /\ call[c] \in Call /\ events \in [Calls -> Event \cup {NoRow}]
      /\ faulty \in BOOLEAN /\ today \in Days
  BY DEF TypeOK
<1>1. CASE Start(c) \/ Retry(c)
  <2>1. PICK a \in Call : /\ call' = [call EXCEPT ![c] = a] /\ Counted(a)
                          /\ a.state = "reserving"
    BY <1>1, AttemptBegun DEF Start, Retry
  <2> QED BY <1>0, <1>1, <2>1, CallStep DEF Start, Retry, At
<1>2. CASE Disabled(c) \/ RefuseGlobal(c)
  <2>1. PICK a \in Call : /\ call' = [call EXCEPT ![c] = a] /\ Counted(a)
                          /\ a.state = "recording"
    BY <1>2, CallMoved DEF Disabled, RefuseGlobal
  <2> QED BY <1>0, <1>2, <2>1, CallStep DEF Disabled, RefuseGlobal, At
<1>3. CASE TimerFires(c)
  <2>1. PICK a \in Call : /\ call' = [call EXCEPT ![c] = a] /\ Counted(a)
                          /\ a.state = call[c].state /\ a.day = call[c].day
                          /\ a.state \in {"calling", "reconciling", "settling"}
    BY <1>3, CallAborted
  <2> QED BY <1>0, <1>3, <2>1, CallStep DEF TimerFires
<1>4. ASSUME NEW outcome \in Answers \cup {"timeout"}, ProviderAnswers(c, outcome)
      PROVE  AccountedInv'
  <2>1. outcome \in Outcomes
    BY <1>4, AttemptsAssumption DEF Outcomes
  <2>2. PICK a \in Call : /\ call' = [call EXCEPT ![c] = a] /\ Counted(a)
                          /\ a.state = "reconciling" /\ a.day = call[c].day
    BY <1>4, <2>1, CallAnswered
  <2> QED BY <1>0, <1>4, <2>2, CallStep DEF ProviderAnswers, At
<1>6. CASE Record(c) \/ RecordFails(c)
  <2>1. PICK a \in Call : /\ call' = [call EXCEPT ![c] = a] /\ Counted(a)
                          /\ a.state = "ended"
    BY <1>6, CallMoved DEF Record, RecordFails
  <2>2. TelemetryRow(c) \in Event
    BY <1>0 DEF TelemetryRow, Event, Call
  <2>3. events' \in [Calls -> Event \cup {NoRow}]
    BY <1>0, <1>6, <2>2 DEF Record, RecordFails
  <2> QED BY <1>0, <1>6, <2>1, <2>3, CallStep DEF Record, RecordFails, At
<1> QED BY <1>1, <1>2, <1>3, <1>4, <1>6

\* The first statement of a transaction: the global row is locked, and nothing is
\* charged or reconciled yet.
LEMMA LockStep ==
  ASSUME AccountedInv, NEW c \in Calls, NEW a \in Call, Counted(a),
         call' = [call EXCEPT ![c] = a], LockRow(c, <<Global, call[c].day>>),
         UNCHANGED <<today, events, report, faulty>>, a.day = call[c].day,
         \/ /\ a.state = "holding" /\ At(c, "reserving")
            /\ WithinCap(<<Global, call[c].day>>)
         \/ a.state = "settling" /\ At(c, "reconciling")
  PROVE  AccountedInv'
<1> USE DEF AccountedInv, BudgetInv
<1>1. call[c].day \in Days
  BY DEF TypeOK, Call
<1>2. <<Global, call[c].day>> \in Rows
  BY <1>1, RowsTyped
<1>3. LedgerTypeOK'
  BY <1>2 DEF LockRow, TypeOK, LedgerTypeOK
<1>4. TypeOK'
  BY <1>3, StepTyped DEF TypeOK
<1>5. AttemptsCounted'
  BY StepCounted
<1>6. LocksExclusive'
  BY LocksTaken
<1>7. ledger' = ledger
  BY DEF LockRow
<1>8. CapsHold'
  BY <1>7, CapsAside DEF Charged
<1>9. ReservationsMatchAttempts'
  BY <1>7, ReservationsAside DEF At, TypeOK
<1> QED BY <1>4, <1>5, <1>6, <1>8, <1>9

\* A commit of both rows: the global one has room because it was locked with room,
\* the user's because the second upsert has just looked.
LEMMA CommitStep ==
  ASSUME AccountedInv, NEW c \in Calls, NEW a \in Call, Counted(a),
         call' = [call EXCEPT ![c] = a], a.state \in {"calling", "recording"},
         a.day = call[c].day, At(c, "holding"), WithinCap(UserRow(c)),
         CommitReservation(c, CallerOf[c], call[c].day),
         UNCHANGED <<today, events, report>>, faulty' \in BOOLEAN,
         ~faulty' => ~faulty /\ a.state = "calling"
  PROVE  AccountedInv'
<1> USE DEF AccountedInv, BudgetInv
<1>1. call[c].day \in Days
  BY DEF TypeOK, Call
<1> DEFINE its == RowsOf(CallerOf[c], call[c].day)
<1>2. /\ LedgerTypeOK'
      /\ \A row \in Rows :
           Charged(row)' = IF row \in its THEN Charged(row) + 1 ELSE Charged(row)
  BY <1>1, CommittedCharge
<1>3. TypeOK'
  BY <1>2, StepTyped DEF TypeOK
<1>4. AttemptsCounted'
  BY StepCounted
<1>5. held[c] = {<<Global, call[c].day>>} /\ WithinCap(<<Global, call[c].day>>)
  BY LocksFollow DEF At
<1>6. \A row \in Rows : Charged(row)' = Charged(row) \/ row \in held[c] \/ row[1] # Global
  BY <1>1, <1>2, <1>5, RowsTyped DEF RowsOf
<1>7. LocksExclusive'
  BY <1>6, LocksReleased DEF CommitReservation
<1>8. CapsHold'
  <2> SUFFICES ASSUME Enforced, NEW row \in Rows PROVE Charged(row)' <= Cap(row[1])
    BY DEF CapsHold
  <2>1. CASE row \in its
    BY <1>2, <1>5, <2>1 DEF RowsOf, WithinCap, UserRow
  <2>2. CASE row \notin its
    BY <1>2, <2>2 DEF CapsHold
  <2> QED BY <2>1, <2>2
<1>9. ReservationsMatchAttempts'
  BY ReservationsMade
<1> QED BY <1>3, <1>4, <1>7, <1>8, <1>9

\* A rollback: the lock is given back and nothing was charged.
LEMMA RollbackStep ==
  ASSUME AccountedInv, NEW c \in Calls, NEW a \in Call, Counted(a),
         call' = [call EXCEPT ![c] = a], a.state \in {"waiting", "recording"},
         Rollback(c), UNCHANGED <<today, events, report>>, faulty' \in BOOLEAN,
         ~faulty' => ~faulty /\ At(c, "holding")
  PROVE  AccountedInv'
<1> USE DEF AccountedInv, BudgetInv
<1>1. LedgerTypeOK'
  BY DEF Rollback, TypeOK, LedgerTypeOK
<1>2. TypeOK'
  BY <1>1, StepTyped DEF TypeOK
<1>3. AttemptsCounted'
  BY StepCounted
<1>4. \A row \in Rows : Charged(row)' = Charged(row)
  BY DEF Rollback, Charged
<1>5. LocksExclusive'
  BY <1>4, LocksReleased DEF Rollback
<1>6. CapsHold'
  BY <1>4, CapsAside
<1>7. ReservationsMatchAttempts'
  BY ReservationsAside DEF Rollback, At
<1> QED BY <1>2, <1>3, <1>5, <1>6, <1>7

\* A reconciliation moves one request from reserved to spent.
LEMMA ReconciledStep ==
  ASSUME AccountedInv, NEW c \in Calls, NEW a \in Call, Counted(a),
         call' = [call EXCEPT ![c] = a], a.state \in {"waiting", "recording"},
         At(c, "settling"), CommitReconciliation(c, CallerOf[c], call[c].day),
         UNCHANGED <<today, events, report>>, faulty' \in BOOLEAN, ~faulty' => ~faulty
  PROVE  AccountedInv'
<1> USE DEF AccountedInv, BudgetInv
<1>1. call[c].day \in Days
  BY DEF TypeOK, Call
<1>2. LedgerTypeOK' /\ \A row \in Rows : Charged(row)' = Charged(row)
  BY <1>1, ReconciledCharge
<1>3. TypeOK'
  BY <1>2, StepTyped DEF TypeOK
<1>4. AttemptsCounted'
  BY StepCounted
<1>5. LocksExclusive'
  BY <1>2, LocksReleased DEF CommitReconciliation
<1>6. CapsHold'
  BY <1>2, CapsAside
<1>7. ReservationsMatchAttempts'
  BY ReservationsReleased
<1> QED BY <1>3, <1>4, <1>5, <1>6, <1>7

\* A statement of the reconciliation fails, whatever became of it in the database.
LEMMA ReconcileFailsStep ==
  ASSUME AccountedInv, NEW c \in Calls, ReconcileFails(c)
  PROVE  AccountedInv'
<1>1. PICK a \in Call : /\ call' = [call EXCEPT ![c] = a] /\ Counted(a)
                        /\ a.state \in {"waiting", "recording"}
  BY AttemptEnded DEF ReconcileFails, AccountedInv, BudgetInv, At
<1>2. /\ events \in [Calls -> Event \cup {NoRow}] /\ faulty' = TRUE
      /\ UNCHANGED <<today, events, report>>
  BY DEF AccountedInv, BudgetInv, TypeOK, ReconcileFails
<1>3. CASE At(c, "reconciling") /\ UNCHANGED ledgerVars
  BY <1>1, <1>2, <1>3, CallStep DEF At
<1>4. CASE Rollback(c)
  BY <1>1, <1>2, <1>4, RollbackStep
<1>5. CASE At(c, "settling") /\ CommitReconciliation(c, CallerOf[c], call[c].day)
  BY <1>1, <1>2, <1>5, ReconciledStep
<1> QED BY <1>3, <1>4, <1>5 DEF ReconcileFails

\* A statement of the reservation fails, whatever became of it in the database.
LEMMA ReservationFailsStep ==
  ASSUME AccountedInv, NEW c \in Calls, ReservationFails(c)
  PROVE  AccountedInv'
<1>1. PICK a \in Call : /\ call' = [call EXCEPT ![c] = a] /\ Counted(a)
                        /\ a.state = "recording" /\ a.day = call[c].day
  BY CallMoved DEF ReservationFails, AccountedInv, BudgetInv
<1>2. /\ events \in [Calls -> Event \cup {NoRow}] /\ faulty' = TRUE
      /\ UNCHANGED <<today, events, report>>
  BY DEF AccountedInv, BudgetInv, TypeOK, ReservationFails
<1>3. CASE At(c, "reserving") /\ UNCHANGED ledgerVars
  BY <1>1, <1>2, <1>3, CallStep DEF At
<1>4. CASE Rollback(c)
  BY <1>1, <1>2, <1>4, RollbackStep
<1>5. CASE /\ At(c, "holding") /\ WithinCap(UserRow(c))
           /\ CommitReservation(c, CallerOf[c], call[c].day)
  BY <1>1, <1>2, <1>5, CommitStep
<1> QED BY <1>3, <1>4, <1>5 DEF ReservationFails

\* The process dies: its calls are over, its locks are gone, and what it had
\* reserved stays reserved.
LEMMA CrashStep ==
  ASSUME AccountedInv, Crash
  PROVE  AccountedInv'
<1> USE DEF AccountedInv, BudgetInv
<1>1. ASSUME NEW c \in Calls
      PROVE  /\ call'[c] \in Call /\ Counted(call'[c])
             /\ call'[c].state \in {"idle", "ended"}
  <2>1. call[c] \in Call /\ Counted(call[c])
    BY DEF TypeOK, AttemptsCounted
  <2>2. CASE Running(c)
    <3>1. call'[c] = [call[c] EXCEPT !.state = "ended", !.aborted = FALSE]
      BY <2>2 DEF Crash
    <3> QED BY <2>1, <3>1 DEF Call, CallStates, Counted
  <2>3. CASE ~Running(c)
    BY <2>1, <2>3 DEF Crash, Running
  <2> QED BY <2>2, <2>3
<1>2. call' \in [Calls -> Call]
  BY <1>1 DEF Crash
<1>3. TypeOK'
  BY <1>2 DEF TypeOK, LedgerTypeOK, Crash
<1>4. AttemptsCounted'
  BY <1>1 DEF AttemptsCounted
<1>5. LocksExclusive'
  BY <1>1 DEF LocksExclusive, Crash, At
<1>6. CapsHold'
  BY CapsAside DEF Crash, Charged
<1>7. ReservationsMatchAttempts'
  <2> SUFFICES ASSUME NEW row \in Rows
               PROVE  Cardinality(OpenUnder(row)') <= ledger[row].reserved
    BY DEF ReservationsMatchAttempts, Crash
  <2>1. OpenUnder(row)' = {}
    BY <1>1 DEF OpenUnder
  <2>2. Cardinality({}) = 0
    BY FS_EmptySet
  <2>3. IsFiniteSet(OpenUnder(row))
    <3>1. OpenUnder(row) \subseteq Calls
      BY DEF OpenUnder
    <3> QED BY <3>1, FS_Subset, AttemptsAssumption
  <2>4. Cardinality(OpenUnder(row)) \in Nat
    BY <2>3, FS_CardinalityType
  <2>5. Cardinality(OpenUnder(row)) <= ledger[row].reserved /\ ledger[row].reserved \in Int
    BY DEF ReservationsMatchAttempts, TypeOK, LedgerTypeOK
  <2> QED BY <2>1, <2>2, <2>4, <2>5
<1> QED BY <1>3, <1>4, <1>5, <1>6, <1>7

\* Nothing of the calls changes: midnight, the report, the end of the calls.
LEMMA AsideStep ==
  ASSUME AccountedInv, UNCHANGED <<ledgerVars, call, faulty>>,
         TypeOK'
  PROVE  AccountedInv'
<1> USE DEF AccountedInv, BudgetInv, ledgerVars
<1>1. AttemptsCounted'
  BY DEF AttemptsCounted
<1>2. LocksExclusive'
  BY DEF LocksExclusive, At, WithinCap, Charged
<1>3. CapsHold'
  BY CapsAside DEF Charged
<1>4. ReservationsMatchAttempts'
  BY DEF ReservationsMatchAttempts, OpenUnder
<1> QED BY <1>1, <1>2, <1>3, <1>4

\* Every step of the specification keeps the invariant.
LEMMA AccountedStep == AccountedInv /\ [Next]_vars => AccountedInv'
<1> SUFFICES ASSUME AccountedInv, [Next]_vars PROVE AccountedInv'
  OBVIOUS
<1>1. ASSUME NEW c \in Calls,
             \/ Start(c) \/ Disabled(c) \/ RefuseGlobal(c) \/ TimerFires(c)
             \/ \E outcome \in Answers \cup {"timeout"} : ProviderAnswers(c, outcome)
             \/ Retry(c) \/ Record(c) \/ RecordFails(c)
      PROVE  AccountedInv'
  BY <1>1, QuietSteps
<1>2. ASSUME NEW c \in Calls, ReserveGlobal(c) \/ ReconcileGlobal(c) PROVE AccountedInv'
  <2>1. PICK a \in Call : /\ call' = [call EXCEPT ![c] = a] /\ Counted(a)
                          /\ a.state = (IF ReserveGlobal(c) THEN "holding" ELSE "settling")
                          /\ a.day = call[c].day
    BY <1>2, CallMoved DEF ReserveGlobal, ReconcileGlobal, AccountedInv, BudgetInv
  <2> QED BY <1>2, <2>1, LockStep DEF ReserveGlobal, ReconcileGlobal
<1>3. ASSUME NEW c \in Calls, ReserveUser(c) PROVE AccountedInv'
  <2>1. PICK a \in Call : /\ call' = [call EXCEPT ![c] = a] /\ Counted(a)
                          /\ a.state = "calling" /\ a.day = call[c].day
    BY <1>3, RequestSent DEF AccountedInv, BudgetInv
  <2>2. faulty \in BOOLEAN
    BY DEF AccountedInv, BudgetInv, TypeOK
  <2> QED BY <1>3, <2>1, <2>2, CommitStep DEF ReserveUser
<1>4. ASSUME NEW c \in Calls, RefuseUser(c) PROVE AccountedInv'
  <2>1. PICK a \in Call : /\ call' = [call EXCEPT ![c] = a] /\ Counted(a)
                          /\ a.state = "recording"
    BY <1>4, CallMoved DEF RefuseUser, AccountedInv, BudgetInv
  <2>2. faulty \in BOOLEAN
    BY DEF AccountedInv, BudgetInv, TypeOK
  <2> QED BY <1>4, <2>1, <2>2, RollbackStep DEF RefuseUser
<1>5. ASSUME NEW c \in Calls, ReservationFails(c) PROVE AccountedInv'
  BY <1>5, ReservationFailsStep
<1>6. ASSUME NEW c \in Calls, ReconcileUser(c) PROVE AccountedInv'
  <2>1. PICK a \in Call : /\ call' = [call EXCEPT ![c] = a] /\ Counted(a)
                          /\ a.state \in {"waiting", "recording"}
    BY <1>6, AttemptEnded DEF ReconcileUser, At, AccountedInv, BudgetInv
  <2>2. faulty \in BOOLEAN
    BY DEF AccountedInv, BudgetInv, TypeOK
  <2> QED BY <1>6, <2>1, <2>2, ReconciledStep DEF ReconcileUser
<1>11. ASSUME NEW c \in Calls, ReconcileFails(c) PROVE AccountedInv'
  BY <1>11, ReconcileFailsStep
<1>7. CASE MidnightUtc
  <2>1. today' \in Days
    BY <1>7, LimitsTyped DEF MidnightUtc, AccountedInv, BudgetInv, TypeOK, Days
  <2>2. TypeOK'
    BY <1>7, <2>1
    DEF MidnightUtc, AccountedInv, BudgetInv, TypeOK, LedgerTypeOK, ledgerVars
  <2> QED BY <1>7, <2>2, AsideStep DEF MidnightUtc
<1>8. CASE ReconcilePeriod
  <2>1. today \in Days /\ today > 1
    BY <1>8 DEF ReconcilePeriod, AccountedInv, BudgetInv, TypeOK
  <2>2. today - 1 \in Days
    BY <2>1, LimitsTyped DEF Days
  <2>3. report' \in Report
    BY <1>8, <2>2 DEF ReconcilePeriod, Report
  <2>4. TypeOK'
    BY <1>8, <2>3
    DEF ReconcilePeriod, AccountedInv, BudgetInv, TypeOK, LedgerTypeOK, ledgerVars
  <2> QED BY <1>8, <2>4, AsideStep DEF ReconcilePeriod
<1>9. CASE Crash
  BY <1>9, CrashStep
<1>10. CASE UNCHANGED vars
  <2>1. TypeOK'
    BY <1>10 DEF vars, ledgerVars, AccountedInv, BudgetInv, TypeOK, LedgerTypeOK
  <2> QED BY <1>10, <2>1, AsideStep DEF vars
<1> QED BY <1>1, <1>2, <1>3, <1>4, <1>5, <1>6, <1>7, <1>8, <1>9, <1>10, <1>11
        DEF Next, Progress, Finished

-----------------------------------------------------------------------------
(* The theorems.                                                           *)

\* For any users, calls, caps and days no scope is charged past its cap, whatever
\* crashes, retries, is refused or loses its acknowledgement; with the row locks and
\* the attempts that keep it so (AiBudgetGuard over ai_usage_ledger).
THEOREM BudgetKept == Spec => []BudgetInv
<1>1. Init => AccountedInv
  BY InitialBudget DEF AccountedInv
<1>2. AccountedInv => BudgetInv
  BY DEF AccountedInv
<1> QED BY <1>1, <1>2, AccountedStep, PTL DEF Spec

\* A reservation is released once and in the period it was made in: a row holds one
\* for each attempt still open, and no other unless a statement failed or the process
\* died (reserveRequest and reconcileRequest of the ledger).
THEOREM ReservationsAccounted == Spec => []ReservationsMatchAttempts
<1>1. Init => AccountedInv
  BY InitialBudget DEF AccountedInv
<1>2. AccountedInv => ReservationsMatchAttempts
  BY DEF AccountedInv
<1> QED BY <1>1, <1>2, AccountedStep, PTL DEF Spec

-----------------------------------------------------------------------------
(* The ledger and its calls implement AiBudget: a commit of a reservation  *)
(* is a charge, any other step changes nothing the budget tells.           *)

\* The requests of every call are of the days they were of.
RequestsKept ==
  \A c \in Calls :
    /\ Len(call'[c].requests) = Len(call[c].requests)
    /\ \A i \in 1 .. Len(call[c].requests) :
         call'[c].requests[i].day = call[c].requests[i].day

\* The lengths are numbers, so that the indices of requests are an interval.
LEMMA RequestsTyped ==
  ASSUME TypeOK, NEW c \in Calls
  PROVE  Len(call[c].requests) \in Nat
<1>1. call[c].requests \in Seq(Request)
  BY DEF TypeOK, Call
<1> QED BY <1>1, LenProperties

\* Requests sent are the same if all requests are of the days they were of.
LEMMA SentAside ==
  ASSUME TypeOK, RequestsKept, NEW row
  PROVE  SentUnder(row)' = SentUnder(row)
<1>1. ASSUME NEW sent \in Calls \X (1 .. MaxAttempts)
      PROVE  /\ sent[2] <= Len(call'[sent[1]].requests)
               <=> sent[2] <= Len(call[sent[1]].requests)
             /\ sent[2] <= Len(call[sent[1]].requests) =>
                  call'[sent[1]].requests[sent[2]].day = call[sent[1]].requests[sent[2]].day
  <2>1. sent[1] \in Calls /\ sent[2] \in 1 .. MaxAttempts
    BY <1>1
  <2>2. Len(call[sent[1]].requests) \in Nat
    BY <2>1, RequestsTyped
  <2>3. sent[2] <= Len(call[sent[1]].requests) => sent[2] \in 1 .. Len(call[sent[1]].requests)
    BY <2>1, <2>2, LimitsTyped
  <2> QED BY <2>1, <2>3 DEF RequestsKept
<1> QED BY <1>1 DEF SentUnder, InScope

\* A step that keeps charges and requests is a stutter of the budget.
LEMMA Stutters ==
  ASSUME TypeOK, RequestsKept, \A row \in Rows : Charged(row)' = Charged(row)
  PROVE  UNCHANGED Budget!budgetVars
<1>1. \A user \in Users, day \in Days : <<user, day>> \in Rows /\ <<Global, day>> \in Rows
  BY DEF Rows, Scopes
<1>2. \A user \in Users, day \in Days : Charged(<<user, day>>)' = Charged(<<user, day>>)
  BY <1>1
<1>3. \A day \in Days : Charged(<<Global, day>>)' = Charged(<<Global, day>>)
  BY DEF Rows, Scopes
<1>4. \A row : SentUnder(row)' = SentUnder(row)
  BY SentAside
<1> QED BY <1>2, <1>3, <1>4 DEF Budget!budgetVars, Budget!Days, Days

\* Steps in which nothing is charged and nothing is sent.
LEMMA OthersKeep ==
  ASSUME AccountedInv, NEW c \in Calls,
         \/ Start(c) \/ Disabled(c) \/ RefuseGlobal(c) \/ TimerFires(c)
         \/ \E outcome \in Answers \cup {"timeout"} : ProviderAnswers(c, outcome)
         \/ ReconcileFails(c) \/ Retry(c) \/ Record(c) \/ RecordFails(c)
         \/ ReserveGlobal(c) \/ RefuseUser(c) \/ ReconcileGlobal(c) \/ ReconcileUser(c)
         \/ ReservationFails(c) /\ UNCHANGED ledger
  PROVE  RequestsKept /\ \A row \in Rows : Charged(row)' = Charged(row)
<1> USE DEF AccountedInv, BudgetInv
<1>1. call[c] \in Call /\ call \in [Calls -> Call] /\ call[c].day \in Days
  BY DEF TypeOK, Call
<1>2. ASSUME ~ \E outcome \in Answers \cup {"timeout"} : ProviderAnswers(c, outcome)
      PROVE  RequestsKept
  <2>1. call'[c].requests = call[c].requests /\ \A d \in Calls \ {c} : call'[d] = call[d]
    BY <1>1, <1>2
    DEF Call, Start, Retry, BeginsAttempt, Disabled, RefuseGlobal, TimerFires, ReconcileFails,
        EndAttempt, Record, RecordFails, ReserveGlobal, RefuseUser, ReconcileGlobal,
        ReconcileUser, ReservationFails, Goto
  <2> QED BY <2>1 DEF RequestsKept
<1>3. ASSUME NEW outcome \in Answers \cup {"timeout"}, ProviderAnswers(c, outcome)
      PROVE  RequestsKept
  <2>1. outcome \in Outcomes
    BY AttemptsAssumption DEF Outcomes
  <2>2. PICK a \in Call : /\ call' = [call EXCEPT ![c] = a]
                          /\ Len(a.requests) = Len(call[c].requests)
                          /\ \A i \in 1 .. Len(a.requests) :
                               a.requests[i].day = call[c].requests[i].day
    BY <1>3, <2>1, CallAnswered
  <2>3. call'[c] = a /\ \A d \in Calls \ {c} : call'[d] = call[d]
    BY <1>1, <2>2
  <2> QED BY <2>2, <2>3 DEF RequestsKept
<1>4. RequestsKept
  BY <1>2, <1>3
<1>5. CASE CommitReconciliation(c, CallerOf[c], call[c].day)
  BY <1>1, <1>4, <1>5, ReconciledCharge
<1>6. CASE UNCHANGED ledger
  BY <1>4, <1>6 DEF Charged
<1>7. CommitReconciliation(c, CallerOf[c], call[c].day) \/ UNCHANGED ledger
  BY DEF Start, Retry, Disabled, RefuseGlobal, TimerFires, ProviderAnswers, ReconcileFails,
         Record, RecordFails, ReserveGlobal, RefuseUser, ReconcileGlobal, ReconcileUser,
         LockRow, Rollback, ledgerVars
<1> QED BY <1>5, <1>6, <1>7

\* A table with one more in one place.
LEMMA OneMoreCharged ==
  ASSUME NEW table, NEW after, NEW user \in Users, NEW day \in Days,
         table \in [Users -> [Days -> Int]], after \in [Users -> [Days -> Int]],
         \A u \in Users, d \in Days :
           after[u][d] = IF u = user /\ d = day THEN table[u][d] + 1 ELSE table[u][d]
  PROVE  after = [table EXCEPT ![user][day] = @ + 1]
<1> DEFINE next == [table EXCEPT ![user] = [table[user] EXCEPT ![day] = table[user][day] + 1]]
<1>1. \A u \in Users : after[u] \in [Days -> Int] /\ table[u] \in [Days -> Int]
  OBVIOUS
<1>2. ASSUME NEW u \in Users PROVE after[u] = next[u]
  <2>1. CASE u = user
    <3>1. next[u] = [table[user] EXCEPT ![day] = table[user][day] + 1]
      BY <2>1
    <3>2. \A d \in Days : after[u][d] = next[u][d]
      BY <1>1, <2>1, <3>1
    <3> QED BY <1>1, <2>1, <3>1, <3>2
  <2>2. CASE u # user
    <3>1. next[u] = table[u]
      BY <2>2
    <3>2. \A d \in Days : after[u][d] = table[u][d]
      BY <2>2
    <3> QED BY <1>1, <3>1, <3>2
  <2> QED BY <2>1, <2>2
<1>3. next \in [Users -> [Days -> Int]]
  BY <1>1
<1>4. after = next
  BY <1>2, <1>3
<1> QED BY <1>4

\* What a request that is sent adds to the requests sent under each row.
LEMMA SentMore ==
  ASSUME TypeOK, NEW c \in Calls, NEW a \in Call, call' = [call EXCEPT ![c] = a],
         Len(a.requests) = Len(call[c].requests) + 1,
         Len(a.requests) \in 1 .. MaxAttempts,
         a.requests[Len(a.requests)].day = call[c].day,
         \A i \in 1 .. Len(call[c].requests) : a.requests[i] = call[c].requests[i],
         NEW row \in Rows
  PROVE  /\ IsFiniteSet(SentUnder(row)) /\ <<c, Len(a.requests)>> \notin SentUnder(row)
         /\ SentUnder(row)' = IF InScope(c, row[1]) /\ row[2] = call[c].day
                              THEN SentUnder(row) \cup {<<c, Len(a.requests)>>}
                              ELSE SentUnder(row)
<1> DEFINE n == Len(call[c].requests)
           all == Calls \X (1 .. MaxAttempts)
<1>1. n \in Nat /\ Len(a.requests) = n + 1
  BY RequestsTyped
<1>2. IsFiniteSet(SentUnder(row))
  <2>1. IsFiniteSet(1 .. MaxAttempts)
    BY FS_Interval, LimitsTyped
  <2>2. IsFiniteSet(all)
    BY <2>1, FS_Product, AttemptsAssumption
  <2>3. SentUnder(row) \subseteq all
    BY DEF SentUnder
  <2> QED BY <2>2, <2>3, FS_Subset
<1>3. <<c, n + 1>> \notin SentUnder(row)
  BY <1>1 DEF SentUnder
<1>4. call'[c] = a /\ \A d \in Calls \ {c} : call'[d] = call[d]
  BY DEF TypeOK
<1>5. ASSUME NEW d \in Calls, NEW i \in 1 .. MaxAttempts
      PROVE  <<d, i>> \in SentUnder(row)' <=>
               \/ <<d, i>> \in SentUnder(row)
               \/ d = c /\ i = n + 1 /\ InScope(c, row[1]) /\ row[2] = call[c].day
  <2>1. /\ <<d, i>> \in SentUnder(row) <=>
             /\ InScope(d, row[1]) /\ i <= Len(call[d].requests)
             /\ call[d].requests[i].day = row[2]
        /\ <<d, i>> \in SentUnder(row)' <=>
             /\ InScope(d, row[1]) /\ i <= Len(call'[d].requests)
             /\ call'[d].requests[i].day = row[2]
    BY DEF SentUnder, InScope
  <2>2. CASE d # c
    BY <1>4, <2>1, <2>2
  <2>3. CASE d = c /\ i <= n
    <3>1. i \in 1 .. Len(call[c].requests) /\ i <= n + 1 /\ i # n + 1
      BY <1>1, <2>3
    <3> QED BY <1>1, <1>4, <2>1, <2>3, <3>1
  <2>4. CASE d = c /\ i = n + 1
    BY <1>1, <1>4, <2>1, <2>4
  <2>5. CASE d = c /\ i > n + 1
    <3>1. ~(i <= n) /\ ~(i <= n + 1) /\ i # n + 1
      BY <1>1, <2>5
    <3> QED BY <1>1, <1>4, <2>1, <2>5, <3>1
  <2> QED BY <1>1, <2>2, <2>3, <2>4, <2>5
<1>6. SentUnder(row) \subseteq all /\ SentUnder(row)' \subseteq all /\ <<c, n + 1>> \in all
  BY <1>1 DEF SentUnder
<1>7. SentUnder(row)' = IF InScope(c, row[1]) /\ row[2] = call[c].day
                        THEN SentUnder(row) \cup {<<c, n + 1>>}
                        ELSE SentUnder(row)
  <2> DEFINE its == InScope(c, row[1]) /\ row[2] = call[c].day
  <2>1. ASSUME NEW x \in all
        PROVE  x \in SentUnder(row)' <=> x \in SentUnder(row) \/ (x = <<c, n + 1>> /\ its)
    <3>1. PICK d \in Calls, i \in 1 .. MaxAttempts : x = <<d, i>>
      BY <2>1
    <3>2. x = <<c, n + 1>> <=> d = c /\ i = n + 1
      BY <3>1
    <3> QED BY <1>5, <3>1, <3>2
  <2> HIDE DEF its, all, n
  <2>2. its => SentUnder(row)' = SentUnder(row) \cup {<<c, n + 1>>}
    BY <1>6, <2>1
  <2>3. ~its => SentUnder(row)' = SentUnder(row)
    BY <1>6, <2>1
  <2> QED BY <2>2, <2>3 DEF its
<1> QED BY <1>1, <1>2, <1>3, <1>7

\* A committed reservation is a charge of the budget, with the request it pays for
\* or, if its acknowledgement is lost, without.
LEMMA CommitCharges ==
  ASSUME AccountedInv, NEW c \in Calls, At(c, "holding"), WithinCap(UserRow(c)),
         CommitReservation(c, CallerOf[c], call[c].day),
         RequestsKept \/ ReserveUser(c)
  PROVE  Budget!Charge(CallerOf[c], call[c].day)
<1> DEFINE user == CallerOf[c]
           day == call[c].day
           charged == [u \in Users |-> [d \in Days |-> Charged(<<u, d>>)]]
           total == [d \in Days |-> Charged(<<Global, d>>)]
           sent == [u \in Users |-> [d \in Days |-> Cardinality(SentUnder(<<u, d>>))]]
<1> USE DEF AccountedInv, BudgetInv
<1>1. day \in Days /\ user \in Users /\ user # Global
  BY RowsTyped DEF TypeOK, Call
<1>2. ASSUME NEW row \in Rows
      PROVE  /\ Charged(row) \in Int
             /\ Charged(row)' = IF row \in RowsOf(user, day) THEN Charged(row) + 1 ELSE Charged(row)
  BY <1>1, <1>2, CommittedCharge DEF TypeOK, LedgerTypeOK, Charged
<1>3. \A u \in Users, d \in Days : /\ <<u, d>> \in Rows
                                   /\ <<u, d>> \in RowsOf(user, day) <=> u = user /\ d = day
  BY <1>1, LedgerAssumption DEF Rows, Scopes, RowsOf
<1>4. \A d \in Days : /\ <<Global, d>> \in Rows
                      /\ <<Global, d>> \in RowsOf(user, day) <=> d = day
  BY <1>1 DEF Rows, Scopes, RowsOf
<1>5. charged' = [charged EXCEPT ![user][day] = @ + 1]
  <2>1. charged \in [Users -> [Days -> Int]] /\ charged' \in [Users -> [Days -> Int]]
    BY <1>2, <1>3
  <2>2. \A u \in Users, d \in Days :
          charged'[u][d] = IF u = user /\ d = day THEN charged[u][d] + 1 ELSE charged[u][d]
    BY <1>2, <1>3
  <2> HIDE DEF charged, user, day
  <2> QED BY <1>1, <2>1, <2>2, OneMoreCharged
<1>6. total' = [total EXCEPT ![day] = @ + 1]
  BY <1>1, <1>2, <1>4
<1>7. sent' \in {sent, [sent EXCEPT ![user][day] = @ + 1]}
  <2>1. CASE RequestsKept
    BY <2>1, SentAside
  <2>2. CASE ReserveUser(c)
    <3>1. PICK a \in Call :
            /\ call' = [call EXCEPT ![c] = a]
            /\ Len(a.requests) = Len(call[c].requests) + 1
            /\ Len(a.requests) \in 1 .. MaxAttempts
            /\ a.requests[Len(a.requests)].day = call[c].day
            /\ \A i \in 1 .. Len(call[c].requests) : a.requests[i] = call[c].requests[i]
      BY <2>2, RequestSent
    <3>2. ASSUME NEW u \in Users, NEW d \in Days
          PROVE  /\ Cardinality(SentUnder(<<u, d>>)) \in Int
                 /\ Cardinality(SentUnder(<<u, d>>)') =
                      IF u = user /\ d = day THEN Cardinality(SentUnder(<<u, d>>)) + 1
                      ELSE Cardinality(SentUnder(<<u, d>>))
      <4> DEFINE row == <<u, d>>
                 new == <<c, Len(a.requests)>>
      <4>1. row \in Rows /\ row[1] = u /\ row[2] = d
        BY <1>3
      <4>2. InScope(c, row[1]) <=> u = user
        BY <4>1, LedgerAssumption DEF InScope
      <4>3. /\ IsFiniteSet(SentUnder(row)) /\ new \notin SentUnder(row)
            /\ SentUnder(row)' = IF InScope(c, row[1]) /\ row[2] = day
                                 THEN SentUnder(row) \cup {new} ELSE SentUnder(row)
        BY <3>1, <4>1, SentMore
      <4> HIDE DEF row, new
      <4>4. /\ Cardinality(SentUnder(row)) \in Nat
            /\ Cardinality(SentUnder(row) \cup {new}) = Cardinality(SentUnder(row)) + 1
        BY <4>3, OneMore
      <4>5. u = user /\ d = day => SentUnder(row)' = SentUnder(row) \cup {new}
        BY <4>1, <4>2, <4>3
      <4>6. ~(u = user /\ d = day) => SentUnder(row)' = SentUnder(row)
        BY <4>1, <4>2, <4>3
      <4>7. /\ Cardinality(SentUnder(row)) \in Int
            /\ Cardinality(SentUnder(row)') =
                 IF u = user /\ d = day THEN Cardinality(SentUnder(row)) + 1
                 ELSE Cardinality(SentUnder(row))
        BY <4>4, <4>5, <4>6
      <4> QED BY <4>7 DEF row
    <3>3. sent \in [Users -> [Days -> Int]] /\ sent' \in [Users -> [Days -> Int]]
      BY <3>2
    <3>4. \A u \in Users, d \in Days :
            sent'[u][d] = IF u = user /\ d = day THEN sent[u][d] + 1 ELSE sent[u][d]
      BY <3>2
    <3>5. sent' = [sent EXCEPT ![user][day] = @ + 1]
      <4> HIDE DEF sent, user, day
      <4> QED BY <1>1, <3>3, <3>4, OneMoreCharged
    <3> QED BY <3>5
  <2> QED BY <2>1, <2>2
<1>8. Enforced => charged[user][day] < UserCap /\ total[day] < GlobalCap
  <2>1. WithinCap(<<user, day>>) /\ WithinCap(<<Global, day>>)
    BY LocksFollow DEF At, UserRow
  <2>2. <<user, day>> \in Rows /\ <<Global, day>> \in Rows
    BY <1>1, <1>3, <1>4
  <2> QED BY <1>1, <1>2, <2>1, <2>2, LimitsTyped DEF WithinCap, Cap
<1> QED BY <1>5, <1>6, <1>7, <1>8 DEF Budget!Charge, Budget!Days, Days

\* Every step of the calls is a charge of the budget or changes nothing it tells.
LEMMA BudgetStep == AccountedInv /\ [Next]_vars => [Budget!BudgetNext]_(Budget!budgetVars)
<1> SUFFICES ASSUME AccountedInv, [Next]_vars
             PROVE  Budget!BudgetNext \/ UNCHANGED Budget!budgetVars
  OBVIOUS
<1>1. ASSUME NEW c \in Calls,
             \/ Start(c) \/ Disabled(c) \/ RefuseGlobal(c) \/ TimerFires(c)
             \/ \E outcome \in Answers \cup {"timeout"} : ProviderAnswers(c, outcome)
             \/ ReconcileFails(c) \/ Retry(c) \/ Record(c) \/ RecordFails(c)
             \/ ReserveGlobal(c) \/ RefuseUser(c) \/ ReconcileGlobal(c) \/ ReconcileUser(c)
             \/ ReservationFails(c) /\ UNCHANGED ledger
      PROVE  UNCHANGED Budget!budgetVars
  BY <1>1, OthersKeep, Stutters DEF AccountedInv, BudgetInv
<1>2. ASSUME NEW c \in Calls, At(c, "holding"), WithinCap(UserRow(c)),
             CommitReservation(c, CallerOf[c], call[c].day), RequestsKept \/ ReserveUser(c)
      PROVE  Budget!BudgetNext
  <2>1. Budget!Charge(CallerOf[c], call[c].day)
    BY <1>2, CommitCharges
  <2>2. CallerOf[c] \in Users /\ call[c].day \in Days
    BY RowsTyped DEF AccountedInv, BudgetInv, TypeOK, Call
  <2> QED BY <2>1, <2>2 DEF Budget!BudgetNext, Budget!Days, Days
<1>3. ASSUME NEW c \in Calls, ReserveUser(c) PROVE Budget!BudgetNext
  BY <1>2, <1>3 DEF ReserveUser
<1>4. ASSUME NEW c \in Calls, ReservationFails(c)
      PROVE  Budget!BudgetNext \/ UNCHANGED Budget!budgetVars
  <2>1. RequestsKept
    <3>1. /\ call'[c].requests = call[c].requests
          /\ \A d \in Calls \ {c} : call'[d] = call[d]
      BY <1>4 DEF ReservationFails, Goto, AccountedInv, BudgetInv, TypeOK, Call
    <3> QED BY <3>1 DEF RequestsKept
  <2>2. UNCHANGED ledger \/ (/\ At(c, "holding") /\ WithinCap(UserRow(c))
                             /\ CommitReservation(c, CallerOf[c], call[c].day))
    BY <1>4 DEF ReservationFails, Rollback, ledgerVars
  <2> QED BY <1>1, <1>2, <1>4, <2>1, <2>2
<1>5. CASE MidnightUtc \/ ReconcilePeriod \/ UNCHANGED vars \/ Crash
  <2>1. \A row \in Rows : Charged(row)' = Charged(row)
    BY <1>5 DEF MidnightUtc, ReconcilePeriod, vars, ledgerVars, Crash, Charged
  <2>2. RequestsKept
    <3>1. CASE Crash
      <4>1. \A c \in Calls : call'[c].requests = call[c].requests
        BY <3>1 DEF Crash, AccountedInv, BudgetInv, TypeOK, Call
      <4> QED BY <4>1 DEF RequestsKept
    <3>2. CASE UNCHANGED call
      BY <3>2 DEF RequestsKept
    <3> QED BY <1>5, <3>1, <3>2 DEF MidnightUtc, ReconcilePeriod, vars
  <2> QED BY <2>1, <2>2, Stutters DEF AccountedInv, BudgetInv
<1> QED BY <1>1, <1>3, <1>4, <1>5 DEF Next, Progress, Finished

\* At first nothing is sent.
LEMMA NothingSent == Init => \A row : Cardinality(SentUnder(row)) = 0
<1> SUFFICES ASSUME Init, NEW row PROVE Cardinality(SentUnder(row)) = 0
  OBVIOUS
<1>1. \A c \in Calls : call[c].requests = <<>>
  BY DEF Init
<1>2. SentUnder(row) = {}
  BY <1>1, EmptySeq DEF SentUnder
<1> QED BY <1>2, FS_EmptySet

\* The ledger, its locks and its calls implement the daily budget: every commit of a
\* reservation charges user and total by one while there is room, and no request is
\* sent that was not charged (AiBudgetGuard and generateContent).
THEOREM BudgetImplemented == Spec => ImplementsBudget
<1>1. Init => AccountedInv /\ Budget!BudgetInit
  <2> SUFFICES ASSUME Init PROVE Budget!BudgetInit
    BY InitialBudget DEF AccountedInv
  <2>1. \A row \in Rows : Charged(row) = 0
    BY DEF Init, LedgerInit, Charged
  <2>2. \A row : Cardinality(SentUnder(row)) = 0
    BY NothingSent
  <2> QED BY <2>1, <2>2 DEF Budget!BudgetInit, Budget!Days, Days, Rows, Scopes
<1> QED BY <1>1, AccountedStep, BudgetStep, PTL DEF Spec, ImplementsBudget, Budget!BudgetSpec

-----------------------------------------------------------------------------
(* Sums. The script adds the attempts of the telemetry rows of a day, one  *)
(* row after the other; what the fold of MapThenSumSet arrives at is the   *)
(* number of units of all rows, in whatever order it takes them.           *)

\* it is a running total of table over the subsets of D.
Totals(it, D, table) ==
  it = [s \in SUBSET D |->
          IF s = {} THEN 0 ELSE LET x == CHOOSE x \in s : TRUE IN table[x] + it[s \ {x}]]

\* One pair for each unit of each entry of a table, none of them above max.
Units(s, table, max) == {p \in s \X (1 .. max) : p[2] <= table[p[1]]}

\* The units of one entry are as many as it says.
LEMMA UnitsOfOne ==
  ASSUME NEW x, NEW n \in Nat
  PROVE  IsFiniteSet({x} \X (1 .. n)) /\ Cardinality({x} \X (1 .. n)) = n
<1>1. IsFiniteSet(1 .. n) /\ Cardinality(1 .. n) = n
  BY FS_Interval
<1>2. IsFiniteSet({x}) /\ Cardinality({x}) = 1
  BY FS_Singleton
<1>3. IsFiniteSet({x} \X (1 .. n)) /\ Cardinality({x} \X (1 .. n)) = 1 * n
  BY <1>1, <1>2, FS_Product
<1> QED BY <1>3

\* The units of a set are those of one of its elements and those of the others.
LEMMA UnitsStep ==
  ASSUME NEW D, IsFiniteSet(D), NEW max \in Nat, NEW table \in [D -> 0 .. max],
         NEW s \in SUBSET D, NEW x \in s
  PROVE  Cardinality(Units(s, table, max)) = table[x] + Cardinality(Units(s \ {x}, table, max))
<1> DEFINE own == {x} \X (1 .. table[x])
           rest == Units(s \ {x}, table, max)
<1>1. table[x] \in Nat /\ table[x] <= max /\ IsFiniteSet(s \ {x})
  BY FS_Subset
<1>2. IsFiniteSet(own) /\ Cardinality(own) = table[x]
  BY <1>1, UnitsOfOne
<1>3. IsFiniteSet(rest)
  <2>1. IsFiniteSet(1 .. max)
    BY FS_Interval
  <2>2. IsFiniteSet((s \ {x}) \X (1 .. max))
    BY <1>1, <2>1, FS_Product
  <2>3. rest \subseteq (s \ {x}) \X (1 .. max)
    BY DEF Units
  <2> QED BY <2>2, <2>3, FS_Subset
<1>4. own \cap rest = {}
  BY DEF Units
<1>5. Units(s, table, max) = own \cup rest
  <2>1. ASSUME NEW c \in s, NEW i \in 1 .. max
        PROVE  <<c, i>> \in Units(s, table, max) <=> <<c, i>> \in own \cup rest
    <3>1. CASE c = x
      BY <1>1, <3>1 DEF Units
    <3>2. CASE c # x
      BY <3>2 DEF Units
    <3> QED BY <3>1, <3>2
  <2>2. own \subseteq s \X (1 .. max) /\ rest \subseteq s \X (1 .. max)
    BY <1>1 DEF Units
  <2>3. Units(s, table, max) \subseteq s \X (1 .. max)
    BY DEF Units
  <2> HIDE DEF own, rest
  <2> QED BY <2>1, <2>2, <2>3
<1>8. rest = Units(s \ {x}, table, max)
  OBVIOUS
<1> HIDE DEF own, rest
<1>6. Cardinality(own \cup rest) = Cardinality(own) + Cardinality(rest) - Cardinality(own \cap rest)
  BY <1>2, <1>3, FS_Union
<1>7. Cardinality({}) = 0 /\ Cardinality(rest) \in Nat
  BY <1>3, FS_EmptySet, FS_CardinalityType
<1>9. Cardinality(own) \in Nat
  BY <1>2, FS_CardinalityType
<1>10. Cardinality(own \cup rest) = Cardinality(own) + Cardinality(rest)
  BY <1>4, <1>6, <1>7, <1>9
<1> QED BY <1>2, <1>5, <1>8, <1>10

\* A running total counts the units: a smallest subset on which it did not would be
\* a smaller one and an element.
LEMMA TotalsCount ==
  ASSUME NEW D, IsFiniteSet(D), NEW max \in Nat, NEW table \in [D -> 0 .. max],
         NEW total, Totals(total, D, table)
  PROVE  total[D] = Cardinality(Units(D, table, max))
<1> DEFINE wrong == {s \in SUBSET D : total[s] # Cardinality(Units(s, table, max))}
<1>1. ASSUME wrong # {} PROVE FALSE
  <2>1. wrong \subseteq FiniteSubsetsOf(D)
    BY FS_Subset DEF FiniteSubsetsOf
  <2>2. PICK s \in wrong : \A t \in wrong : ~(<<t, s>> \in StrictSubsetOrdering(D))
    BY <1>1, <2>1, FS_StrictSubsetOrderingWellFounded, WFMin
  <2>3. s \in SUBSET D
    OBVIOUS
  <2>4. CASE s = {}
    <3>1. total[s] = 0
      BY <2>3, <2>4 DEF Totals
    <3>2. Units(s, table, max) = {}
      BY <2>4 DEF Units
    <3> QED BY <3>1, <3>2, FS_EmptySet
  <2>5. CASE s # {}
    <3> DEFINE x == CHOOSE x \in s : TRUE
    <3>1. x \in s
      BY <2>5
    <3>2. total[s] = table[x] + total[s \ {x}]
      BY <2>3, <2>5 DEF Totals
    <3> HIDE DEF x
    <3>3. s \ {x} \notin wrong
      <4>1. <<s \ {x}, s>> \in StrictSubsetOrdering(D)
        BY <2>3, <3>1 DEF StrictSubsetOrdering
      <4> QED BY <2>2, <4>1
    <3>4. total[s \ {x}] = Cardinality(Units(s \ {x}, table, max))
      BY <2>3, <3>3
    <3>5. Cardinality(Units(s, table, max)) = table[x] + Cardinality(Units(s \ {x}, table, max))
      BY <2>3, <3>1, UnitsStep
    <3> QED BY <3>2, <3>4, <3>5
  <2> QED BY <2>4, <2>5
<1> QED BY <1>1

\* There is a running total: the number of units is one.
LEMMA TotalsExist ==
  ASSUME NEW D, IsFiniteSet(D), NEW max \in Nat, NEW table \in [D -> 0 .. max]
  PROVE  \E total : Totals(total, D, table)
<1> DEFINE total == [s \in SUBSET D |-> Cardinality(Units(s, table, max))]
<1>1. ASSUME NEW s \in SUBSET D
      PROVE  total[s] = IF s = {} THEN 0
                        ELSE LET x == CHOOSE x \in s : TRUE IN table[x] + total[s \ {x}]
  <2>1. CASE s = {}
    <3>1. Units(s, table, max) = {}
      BY <2>1 DEF Units
    <3> QED BY <2>1, <3>1, FS_EmptySet
  <2>2. CASE s # {}
    <3> DEFINE x == CHOOSE x \in s : TRUE
    <3>1. x \in s
      BY <2>2
    <3> HIDE DEF x
    <3>2. total[s] = table[x] + total[s \ {x}]
      BY <3>1, UnitsStep
    <3> QED BY <2>2, <3>2 DEF x
  <2> QED BY <2>1, <2>2
<1>2. total = [s \in SUBSET D |->
          IF s = {} THEN 0 ELSE LET x == CHOOSE x \in s : TRUE IN table[x] + total[s \ {x}]]
  <2> DEFINE other == [s \in SUBSET D |->
          IF s = {} THEN 0 ELSE LET x == CHOOSE x \in s : TRUE IN table[x] + total[s \ {x}]]
  <2>1. \A s \in SUBSET D : total[s] = other[s]
    BY <1>1
  <2> HIDE DEF total
  <2>2. total = [s \in SUBSET D |-> total[s]]
    BY DEF total
  <2> QED BY <2>1, <2>2
<1> HIDE DEF total
<1> QED BY <1>2 DEF Totals

\* What the script adds up is the number of units of the telemetry rows.
LEMMA AttemptsAdded ==
  ASSUME TypeOK, NEW scope, NEW day
  PROVE  AttemptsIn(scope, day) =
           Cardinality(Units(EventsOf(scope, day),
                             [c \in EventsOf(scope, day) |-> events[c].attempts], MaxAttempts))
<1> DEFINE told == EventsOf(scope, day)
           table == [c \in told |-> events[c].attempts]
           total == CHOOSE it : it = [s \in SUBSET told |->
             IF s = {} THEN 0
             ELSE LET x == CHOOSE x \in s : TRUE IN events[x].attempts + it[s \ {x}]]
<1>1. AttemptsIn(scope, day) = total[told]
  BY DEF AttemptsIn, MapThenSumSet, MapThenFoldSet
<1>2. IsFiniteSet(told)
  <2>1. told \subseteq Calls
    BY DEF EventsOf
  <2> QED BY <2>1, FS_Subset, AttemptsAssumption
<1>3. table \in [told -> 0 .. MaxAttempts] /\ MaxAttempts \in Nat
  <2>1. \A c \in told : events[c] \in Event
    BY DEF EventsOf, TypeOK
  <2> QED BY <2>1, LimitsTyped DEF Event
<1>4. ASSUME NEW it
      PROVE  Totals(it, told, table) <=>
               it = [s \in SUBSET told |->
                 IF s = {} THEN 0
                 ELSE LET x == CHOOSE x \in s : TRUE IN events[x].attempts + it[s \ {x}]]
  <2>1. ASSUME NEW s \in SUBSET told
        PROVE  (IF s = {} THEN 0
                ELSE LET x == CHOOSE x \in s : TRUE IN table[x] + it[s \ {x}])
             = (IF s = {} THEN 0
                ELSE LET x == CHOOSE x \in s : TRUE IN events[x].attempts + it[s \ {x}])
    <3> DEFINE x == CHOOSE x \in s : TRUE
    <3>1. s # {} => x \in told
      OBVIOUS
    <3>2. s # {} => table[x] = events[x].attempts
      BY <3>1
    <3> QED BY <3>2
  <2> QED BY <2>1 DEF Totals
<1>5. \E it : Totals(it, told, table)
  BY <1>2, <1>3, TotalsExist
<1>6. Totals(total, told, table)
  BY <1>4, <1>5
<1> HIDE DEF total, table
<1>7. total[told] = Cardinality(Units(told, table, MaxAttempts))
  BY <1>2, <1>3, <1>6, TotalsCount
<1> QED BY <1>1, <1>7 DEF table

-----------------------------------------------------------------------------
(* The report of the reconciliation script.                                *)

\* A telemetry row is the last word on its call.
Told == \A c \in Calls :
  events[c] # NoRow => At(c, "ended") /\ events[c].attempts = call[c].attempts

\* Unless something failed, a row is charged with the requests sent under it.
ChargesExact == ~faulty => \A row \in Rows : Charged(row) = Cardinality(SentUnder(row))

\* The day reported on is over.
ReportPast == report.period < today /\ (report.period = 0 => report.alarms = {})

ReportInv == AccountedInv /\ Told /\ ChargesExact /\ ReportPast /\ ReportsExplained

\* What a step leaves of the past: the requests of every call keep their days, a
\* telemetry row and the call it tells of stay as they are, and a new row ends its
\* call today.
PastKept ==
  /\ \A c \in Calls :
       /\ Len(call[c].requests) <= Len(call'[c].requests)
       /\ \A i \in 1 .. Len(call[c].requests) :
            call'[c].requests[i].day = call[c].requests[i].day
  /\ \A c \in Calls : events[c] # NoRow =>
       /\ events'[c] = events[c] /\ call'[c].state = "ended"
       /\ call'[c].attempts = call[c].attempts
       /\ Len(call'[c].requests) = Len(call[c].requests)
  /\ \A c \in Calls : events[c] = NoRow /\ events'[c] # NoRow =>
       /\ call'[c].state = "ended"
       /\ events'[c].day = today /\ events'[c].attempts = call'[c].attempts

\* One call takes a step, and if it leaves a row it ends.
LEMMA PastOfOne ==
  ASSUME TypeOK, Told, NEW c \in Calls, call[c].state # "ended",
         \A d \in Calls \ {c} : call'[d] = call[d],
         Len(call[c].requests) <= Len(call'[c].requests),
         \A i \in 1 .. Len(call[c].requests) :
           call'[c].requests[i].day = call[c].requests[i].day,
         \/ events' = events
         \/ /\ events' = [events EXCEPT ![c] = TelemetryRow(c)]
            /\ call'[c].state = "ended" /\ call'[c].attempts = call[c].attempts
  PROVE  PastKept
<1>1. events[c] = NoRow
  BY DEF Told, At
<1>2. \A d \in Calls \ {c} : events'[d] = events[d]
  BY DEF TypeOK
<1>3. events'[c] = events[c] \/ (/\ events'[c] = TelemetryRow(c) /\ call'[c].state = "ended"
                                 /\ call'[c].attempts = call[c].attempts)
  BY DEF TypeOK
<1>4. ASSUME NEW d \in Calls, d # c PROVE
        /\ Len(call[d].requests) <= Len(call'[d].requests)
        /\ call'[d] = call[d] /\ events'[d] = events[d]
  BY <1>2, <1>4, RequestsTyped
<1>5. ASSUME NEW d \in Calls
      PROVE  /\ Len(call[d].requests) <= Len(call'[d].requests)
             /\ \A i \in 1 .. Len(call[d].requests) :
                  call'[d].requests[i].day = call[d].requests[i].day
  BY <1>4
<1>6. ASSUME NEW d \in Calls, events[d] # NoRow
      PROVE  /\ events'[d] = events[d] /\ call'[d].state = "ended"
             /\ call'[d].attempts = call[d].attempts
             /\ Len(call'[d].requests) = Len(call[d].requests)
  BY <1>1, <1>4, <1>6 DEF Told, At
<1>7. ASSUME NEW d \in Calls, events[d] = NoRow, events'[d] # NoRow
      PROVE  /\ call'[d].state = "ended"
             /\ events'[d].day = today /\ events'[d].attempts = call'[d].attempts
  <2>1. d = c
    BY <1>4, <1>7
  <2> QED BY <1>1, <1>3, <1>7, <2>1 DEF TelemetryRow
<1> QED BY <1>5, <1>6, <1>7 DEF PastKept

\* No step touches the past.
LEMMA PastStep ==
  ASSUME AccountedInv, Told, [Next]_vars
  PROVE  PastKept
<1> USE DEF AccountedInv, BudgetInv
<1>0. call \in [Calls -> Call] /\ \A c \in Calls : Len(call[c].requests) \in Nat
  BY RequestsTyped DEF TypeOK
<1>1. ASSUME NEW c \in Calls,
             \/ Start(c) \/ Disabled(c) \/ RefuseGlobal(c) \/ TimerFires(c)
             \/ ReconcileFails(c) \/ Retry(c) \/ RecordFails(c)
             \/ ReserveGlobal(c) \/ RefuseUser(c) \/ ReconcileGlobal(c) \/ ReconcileUser(c)
             \/ ReservationFails(c)
      PROVE  PastKept
  <2>1. /\ call[c].state # "ended" /\ events' = events
        /\ call'[c].requests = call[c].requests /\ \A d \in Calls \ {c} : call'[d] = call[d]
    BY <1>0, <1>1
    DEF Call, Start, Retry, BeginsAttempt, Disabled, RefuseGlobal, TimerFires, ReconcileFails,
        EndAttempt, RecordFails, ReserveGlobal, RefuseUser, ReconcileGlobal, ReconcileUser,
        ReservationFails, Goto, At
  <2> QED BY <1>0, <2>1, PastOfOne
<1>2. ASSUME NEW c \in Calls, Record(c) PROVE PastKept
  <2>1. /\ call[c].state # "ended" /\ events' = [events EXCEPT ![c] = TelemetryRow(c)]
        /\ call'[c].requests = call[c].requests /\ \A d \in Calls \ {c} : call'[d] = call[d]
        /\ call'[c].state = "ended" /\ call'[c].attempts = call[c].attempts
    BY <1>0, <1>2 DEF Call, Record, Goto, At
  <2>2. /\ Len(call[c].requests) <= Len(call'[c].requests)
        /\ \A i \in 1 .. Len(call[c].requests) :
             call'[c].requests[i].day = call[c].requests[i].day
    BY <1>0, <2>1
  <2> QED BY <2>1, <2>2, PastOfOne
<1>3. ASSUME NEW c \in Calls, NEW outcome \in Answers \cup {"timeout"},
             ProviderAnswers(c, outcome)
      PROVE  PastKept
  <2>1. outcome \in Outcomes
    BY AttemptsAssumption DEF Outcomes
  <2>2. PICK a \in Call : /\ call' = [call EXCEPT ![c] = a]
                          /\ Len(a.requests) = Len(call[c].requests)
                          /\ \A i \in 1 .. Len(a.requests) :
                               a.requests[i].day = call[c].requests[i].day
    BY <1>3, <2>1, CallAnswered
  <2>3. call'[c] = a /\ \A d \in Calls \ {c} : call'[d] = call[d]
    BY <1>0, <2>2
  <2>4. call[c].state # "ended" /\ events' = events
    BY <1>3 DEF ProviderAnswers, At
  <2> QED BY <1>0, <2>2, <2>3, <2>4, PastOfOne
<1>4. ASSUME NEW c \in Calls, ReserveUser(c) PROVE PastKept
  <2>1. PICK a \in Call : /\ call' = [call EXCEPT ![c] = a]
                          /\ Len(a.requests) = Len(call[c].requests) + 1
                          /\ \A i \in 1 .. Len(call[c].requests) :
                               a.requests[i] = call[c].requests[i]
    BY <1>4, RequestSent
  <2>2. call'[c] = a /\ \A d \in Calls \ {c} : call'[d] = call[d]
    BY <1>0, <2>1
  <2>3. call[c].state # "ended" /\ events' = events
    BY <1>4 DEF ReserveUser, At
  <2> QED BY <1>0, <2>1, <2>2, <2>3, PastOfOne
<1>5. CASE MidnightUtc \/ ReconcilePeriod \/ UNCHANGED vars
  <2>1. call' = call /\ events' = events
    BY <1>5 DEF MidnightUtc, ReconcilePeriod, vars
  <2> QED BY <1>0, <2>1 DEF PastKept, Told, At
<1>6. CASE Crash
  <2>1. ASSUME NEW c \in Calls
        PROVE  /\ call'[c].requests = call[c].requests
               /\ call'[c].attempts = call[c].attempts
               /\ call[c].state = "ended" => call'[c].state = "ended"
    BY <1>0, <1>6 DEF Crash, Call
  <2>2. events' = events
    BY <1>6 DEF Crash
  <2> QED BY <1>0, <2>1, <2>2 DEF PastKept, Told, At
<1> QED BY <1>1, <1>2, <1>3, <1>4, <1>5, <1>6 DEF Next, Progress, Finished

\* A step keeps what the calls have told.
LEMMA ToldStep ==
  ASSUME TypeOK, Told, PastKept PROVE Told'
<1> SUFFICES ASSUME NEW c \in Calls, events'[c] # NoRow
             PROVE  call'[c].state = "ended" /\ events'[c].attempts = call'[c].attempts
  BY DEF Told, At
<1>1. CASE events[c] # NoRow
  BY <1>1 DEF PastKept, Told
<1>2. CASE events[c] = NoRow
  BY <1>2 DEF PastKept
<1> QED BY <1>1, <1>2

\* What is charged stays what has been sent: a reservation that is made without a
\* request, and a request without a reservation, are failures.
LEMMA ExactStep ==
  ASSUME AccountedInv, ChargesExact, [Next]_vars
  PROVE  ChargesExact'
<1> USE DEF AccountedInv, BudgetInv
<1> SUFFICES ASSUME ~faulty', NEW row \in Rows
             PROVE  Charged(row)' = Cardinality(SentUnder(row)')
  BY DEF ChargesExact
<1>1. ~faulty
  BY DEF Next, Progress, Start, Disabled, ReserveGlobal, RefuseGlobal, ReserveUser, RefuseUser,
         ReconcileGlobal, ReconcileUser, Retry, Record, ReservationFails, ReconcileFails,
         RecordFails, TimerFires, ProviderAnswers, MidnightUtc, ReconcilePeriod, Crash, Finished,
         vars
<1>2. Charged(row) = Cardinality(SentUnder(row))
  BY <1>1 DEF ChargesExact
<1>3. ASSUME Charged(row)' = Charged(row), RequestsKept
      PROVE  Charged(row)' = Cardinality(SentUnder(row)')
  BY <1>2, <1>3, SentAside
<1>4. ASSUME NEW c \in Calls,
             \/ Start(c) \/ Disabled(c) \/ RefuseGlobal(c) \/ TimerFires(c)
             \/ \E outcome \in Answers \cup {"timeout"} : ProviderAnswers(c, outcome)
             \/ ReconcileFails(c) \/ Retry(c) \/ Record(c) \/ RecordFails(c)
             \/ ReserveGlobal(c) \/ RefuseUser(c) \/ ReconcileGlobal(c) \/ ReconcileUser(c)
      PROVE  Charged(row)' = Charged(row) /\ RequestsKept
  BY <1>4, OthersKeep
<1>5. ASSUME NEW c \in Calls, ReserveUser(c)
      PROVE  Charged(row)' = Cardinality(SentUnder(row)')
  <2>1. PICK a \in Call :
          /\ call' = [call EXCEPT ![c] = a]
          /\ Len(a.requests) = Len(call[c].requests) + 1
          /\ Len(a.requests) \in 1 .. MaxAttempts
          /\ a.requests[Len(a.requests)].day = call[c].day
          /\ \A i \in 1 .. Len(call[c].requests) : a.requests[i] = call[c].requests[i]
    BY <1>5, RequestSent
  <2> DEFINE new == <<c, Len(a.requests)>>
             its == InScope(c, row[1]) /\ row[2] = call[c].day
  <2>2. /\ IsFiniteSet(SentUnder(row)) /\ new \notin SentUnder(row)
        /\ SentUnder(row)' = IF its THEN SentUnder(row) \cup {new} ELSE SentUnder(row)
    BY <2>1, SentMore
  <2>3. row \in RowsOf(CallerOf[c], call[c].day) <=> its
    BY RowsOfRequest
  <2>4. call[c].day \in Days /\ CommitReservation(c, CallerOf[c], call[c].day)
    BY <1>5 DEF ReserveUser, TypeOK, Call
  <2>5. Charged(row)' = IF row \in RowsOf(CallerOf[c], call[c].day)
                        THEN Charged(row) + 1 ELSE Charged(row)
    BY <2>4, CommittedCharge
  <2> HIDE DEF new, its
  <2>6. Cardinality(SentUnder(row) \cup {new}) = Cardinality(SentUnder(row)) + 1
    BY <2>2, OneMore
  <2> QED BY <1>2, <2>2, <2>3, <2>5, <2>6
<1>6. CASE MidnightUtc \/ ReconcilePeriod \/ UNCHANGED vars
  <2>1. Charged(row)' = Charged(row) /\ RequestsKept
    BY <1>6 DEF MidnightUtc, ReconcilePeriod, vars, ledgerVars, Charged, RequestsKept
  <2> QED BY <1>3, <2>1
<1>7. ~ Crash /\ \A c \in Calls : ~ ReservationFails(c)
  BY DEF Crash, ReservationFails
<1> QED BY <1>3, <1>4, <1>5, <1>6, <1>7 DEF Next, Progress, Finished

\* On which day that is over a call is told of, is settled.
LEMMA ToldOnKept ==
  ASSUME PastKept, NEW c \in Calls, NEW day, day \in Nat, today \in Nat, day < today
  PROVE  ToldOn(c, day)' <=> ToldOn(c, day)
<1>1. CASE events[c] # NoRow
  BY <1>1 DEF PastKept, ToldOn
<1>2. CASE events[c] = NoRow
  BY <1>2 DEF PastKept, ToldOn
<1> QED BY <1>1, <1>2

\* What explains a report goes on explaining it.
LEMMA StillExplained ==
  ASSUME TypeOK, TypeOK', Told, ReportPast, ReportsExplained, PastKept, UNCHANGED report,
         faulty => faulty'
  PROVE  ReportsExplained'
<1>1. PICK period : period = report.period /\ period = report'.period
  OBVIOUS
<1>0. period \in Nat /\ today \in Nat /\ period < today
  BY <1>1, LimitsTyped DEF TypeOK, Report, Days, ReportPast
<1> SUFFICES ASSUME NEW scope \in report.alarms
             PROVE  \/ faulty'
                    \/ \E c \in Calls : InScope(c, scope) /\ Straddles(c, period)'
                    \/ Cardinality({c \in EventsOf(scope, period)' : LastRefused(c)'}) > 1
  BY <1>1 DEF ReportsExplained, InScope
<1>2. \A c \in Calls : ToldOn(c, period)' <=> ToldOn(c, period)
  BY <1>0, ToldOnKept
<1>3. ASSUME NEW c \in Calls, Straddles(c, period) PROVE Straddles(c, period)'
  <2>1. PICK i \in 1 .. Len(call[c].requests) :
          \/ call[c].requests[i].day = period /\ ~ToldOn(c, period)
          \/ call[c].requests[i].day # period /\ ToldOn(c, period)
    BY <1>3 DEF Straddles
  <2>2. call'[c].requests[i].day = call[c].requests[i].day
    BY DEF PastKept
  <2>3. i \in 1 .. Len(call'[c].requests)
    <3>1. Len(call[c].requests) <= Len(call'[c].requests)
      BY DEF PastKept
    <3>2. Len(call[c].requests) \in Nat
      BY RequestsTyped
    <3>3. Len(call'[c].requests) \in Int
      <4>1. call'[c].requests \in Seq(Request)
        BY DEF TypeOK, Call
      <4> QED BY <4>1, LenProperties
    <3> QED BY <3>1, <3>2, <3>3
  <2> QED BY <1>2, <2>1, <2>2, <2>3 DEF Straddles
<1>4. EventsOf(scope, period)' = EventsOf(scope, period)
  BY <1>2 DEF EventsOf, ToldOn, InScope
<1>5. \A c \in EventsOf(scope, period) : LastRefused(c)' <=> LastRefused(c)
  BY DEF EventsOf, PastKept, LastRefused
<1>6. {c \in EventsOf(scope, period)' : LastRefused(c)'} =
      {c \in EventsOf(scope, period) : LastRefused(c)}
  BY <1>4, <1>5
<1>7. \/ faulty
      \/ \E c \in Calls : InScope(c, scope) /\ Straddles(c, period)
      \/ Cardinality({c \in EventsOf(scope, period) : LastRefused(c)}) > 1
  BY <1>1 DEF ReportsExplained
<1> QED BY <1>3, <1>6, <1>7

\* A set is a part of it and the rest.
LEMMA PartAndRest ==
  ASSUME NEW S, IsFiniteSet(S), NEW T \in SUBSET S
  PROVE  Cardinality(S) = Cardinality(T) + Cardinality(S \ T)
<1>1. S \cap T = T
  OBVIOUS
<1>2. Cardinality(S \ T) = Cardinality(S) - Cardinality(S \cap T)
  BY FS_Difference
<1>3. Cardinality(S) \in Nat /\ Cardinality(T) \in Nat
  BY FS_Subset, FS_CardinalityType
<1> QED BY <1>1, <1>2, <1>3

\* Where nothing failed and no call was over midnight, the requests the telemetry of
\* a day tells of and nobody sent are those of its refused calls, one each.
LEMMA RowsTellRequests ==
  ASSUME AccountedInv, Told, ~faulty, NEW scope \in Scopes, NEW day \in Days,
         ~ \E c \in Calls : InScope(c, scope) /\ Straddles(c, day)
  PROVE  LET sent    == Cardinality(SentUnder(<<scope, day>>))
             refused == Cardinality({c \in EventsOf(scope, day) : LastRefused(c)})
         IN  /\ sent \in Nat /\ refused \in Nat /\ AttemptsIn(scope, day) \in Nat
             /\ sent <= AttemptsIn(scope, day)
             /\ AttemptsIn(scope, day) - sent <= refused
<1> DEFINE row == <<scope, day>>
           told == EventsOf(scope, day)
           table == [c \in told |-> events[c].attempts]
           units == Units(told, table, MaxAttempts)
           sent == SentUnder(row)
           unsent == units \ sent
           refused == {c \in told : LastRefused(c)}
<1> USE DEF AccountedInv, BudgetInv
<1>1. row[1] = scope /\ row[2] = day
  OBVIOUS
<1>2. ASSUME NEW c \in Calls, InScope(c, scope), NEW i \in 1 .. Len(call[c].requests)
      PROVE  call[c].requests[i].day = day <=> c \in told
  BY <1>2 DEF Straddles, ToldOn, EventsOf
<1>3. ASSUME NEW c \in told
      PROVE  /\ c \in Calls /\ InScope(c, scope)
             /\ Len(call[c].requests) \in Nat
             /\ table[c] = call[c].attempts
             /\ table[c] \in {Len(call[c].requests), Len(call[c].requests) + 1}
             /\ table[c] \in 0 .. MaxAttempts
  <2>1. c \in Calls /\ InScope(c, scope) /\ events[c] # NoRow
    BY <1>3 DEF EventsOf
  <2>2. table[c] = call[c].attempts
    BY <1>3, <2>1 DEF Told
  <2>3. call[c] \in Call /\ Counted(call[c])
    BY <2>1 DEF TypeOK, AttemptsCounted
  <2> QED BY <2>1, <2>2, <2>3, RequestsTyped DEF Call, Counted
<1>4. ASSUME NEW c \in Calls, NEW i \in 1 .. MaxAttempts
      PROVE  /\ <<c, i>> \in sent <=>
                  c \in told /\ i <= Len(call[c].requests)
             /\ <<c, i>> \in units <=> c \in told /\ i <= table[c]
  <2>1. <<c, i>> \in sent <=> /\ InScope(c, scope) /\ i <= Len(call[c].requests)
                              /\ call[c].requests[i].day = day
    BY <1>1 DEF SentUnder
  <2>2. Len(call[c].requests) \in Nat
    BY RequestsTyped
  <2>3. i <= Len(call[c].requests) => i \in 1 .. Len(call[c].requests)
    BY <2>2, LimitsTyped
  <2>4. c \in told => InScope(c, scope)
    BY DEF EventsOf
  <2>5. <<c, i>> \in units <=> c \in told /\ i <= table[c]
    BY DEF Units
  <2> QED BY <1>2, <2>1, <2>3, <2>4, <2>5
<1>5. /\ sent \subseteq Calls \X (1 .. MaxAttempts)
      /\ units \subseteq Calls \X (1 .. MaxAttempts)
  BY DEF SentUnder, Units, EventsOf
<1> HIDE DEF row, told, table, units, sent
<1>6. sent \subseteq units
  <2>1. ASSUME NEW c \in Calls, NEW i \in 1 .. MaxAttempts, <<c, i>> \in sent
        PROVE  <<c, i>> \in units
    <3>1. c \in told /\ i <= Len(call[c].requests)
      BY <1>4, <2>1
    <3>2. i <= table[c]
      BY <1>3, <3>1, LimitsTyped
    <3> QED BY <1>4, <3>1, <3>2
  <2> QED BY <1>5, <2>1
<1>7. ASSUME NEW c \in Calls, NEW i \in 1 .. MaxAttempts, <<c, i>> \in unsent
      PROVE  c \in refused /\ i = call[c].attempts
  <2>1. c \in told /\ i <= table[c] /\ ~(i <= Len(call[c].requests))
    BY <1>4, <1>7
  <2>2. i = table[c] /\ table[c] > Len(call[c].requests)
    BY <1>3, <2>1, LimitsTyped
  <2> QED BY <1>3, <2>1, <2>2 DEF LastRefused
<1>8. IsFiniteSet(Calls \X (1 .. MaxAttempts)) /\ IsFiniteSet(refused)
  <2>1. IsFiniteSet(1 .. MaxAttempts)
    BY FS_Interval, LimitsTyped
  <2>2. told \subseteq Calls
    BY DEF told, EventsOf
  <2>3. refused \subseteq Calls
    BY <2>2
  <2> QED BY <2>1, <2>3, FS_Product, FS_Subset, AttemptsAssumption
<1>9. IsFiniteSet(units) /\ IsFiniteSet(sent) /\ IsFiniteSet(unsent)
  BY <1>5, <1>6, <1>8, FS_Subset
<1>10. Cardinality(unsent) <= Cardinality(refused)
  <2> DEFINE f == [x \in unsent |-> x[1]]
  <2>1. \A x \in unsent : /\ x[1] \in refused /\ x = <<x[1], call[x[1]].attempts>>
    <3> TAKE x \in unsent
    <3>1. PICK c \in Calls, i \in 1 .. MaxAttempts : x = <<c, i>>
      BY <1>5
    <3> QED BY <1>7, <3>1
  <2>2. f \in [unsent -> refused]
    BY <2>1
  <2>3. \A x, y \in unsent : f[x] = f[y] => x = y
    BY <2>1
  <2> HIDE DEF f, unsent, refused
  <2>4. f \in Injection(unsent, refused)
    BY <2>2, <2>3 DEF Injection, IsInjective
  <2> QED BY <1>8, <2>4, FS_Injection
<1>11. Cardinality(units) = Cardinality(sent) + Cardinality(unsent)
  BY <1>6, <1>9, PartAndRest
<1>12. AttemptsIn(scope, day) = Cardinality(units)
  BY AttemptsAdded DEF units, table, told
<1>13. /\ Cardinality(units) \in Nat /\ Cardinality(sent) \in Nat
       /\ Cardinality(unsent) \in Nat /\ Cardinality(refused) \in Nat
  BY <1>8, <1>9, FS_CardinalityType
<1> HIDE DEF unsent, refused
<1>14. /\ Cardinality(sent) \in Nat /\ Cardinality(refused) \in Nat
       /\ AttemptsIn(scope, day) \in Nat
       /\ Cardinality(sent) <= AttemptsIn(scope, day)
       /\ AttemptsIn(scope, day) - Cardinality(sent) <= Cardinality(refused)
  BY <1>10, <1>11, <1>12, <1>13
<1> QED BY <1>14 DEF sent, refused, told, row

\* A report that is made is explained.
LEMMA ReportStep ==
  ASSUME ReportInv, ReconcilePeriod
  PROVE  ReportsExplained'
<1> USE DEF ReportInv, AccountedInv, BudgetInv
<1>0. PICK day : day = today - 1
  OBVIOUS
<1>1. day \in Days /\ today \in Days
  BY <1>0, LimitsTyped DEF ReconcilePeriod, TypeOK, Days
<1>2. /\ report'.period = day /\ UNCHANGED <<ledgerVars, call, today, events, faulty>>
      /\ \A scope \in report'.alarms :
           /\ scope \in Scopes
           /\ Anomaly(ledger[<<scope, day>>], AttemptsIn(scope, day))
  BY <1>0 DEF ReconcilePeriod
<1>11. \A c \in Calls : Straddles(c, day)' <=> Straddles(c, day)
  BY <1>2 DEF Straddles, ToldOn
<1>12. \A scope : {c \in EventsOf(scope, day)' : LastRefused(c)'} =
                  {c \in EventsOf(scope, day) : LastRefused(c)}
  BY <1>2 DEF EventsOf, LastRefused, InScope
<1>3. SUFFICES ASSUME NEW scope \in Scopes, ~faulty,
                      Anomaly(ledger[<<scope, day>>], AttemptsIn(scope, day)),
                      ~ \E c \in Calls : InScope(c, scope) /\ Straddles(c, day)
               PROVE  Cardinality({c \in EventsOf(scope, day) : LastRefused(c)}) > 1
  BY <1>2, <1>11, <1>12 DEF ReportsExplained, InScope
<1> DEFINE row == <<scope, day>>
           sent == Cardinality(SentUnder(row))
           refused == Cardinality({c \in EventsOf(scope, day) : LastRefused(c)})
<1>4. row \in Rows /\ row[1] = scope /\ row[2] = day
  BY <1>1 DEF Rows
<1>5. ledger[row].reserved = 0
  <2>1. ASSUME NEW c \in OpenUnder(row) PROVE FALSE
    <3>1. /\ c \in Calls /\ InScope(c, scope) /\ call[c].day = day
          /\ call[c].state \in {"calling", "reconciling", "settling"}
      BY <1>4 DEF OpenUnder
    <3> DEFINE last == Len(call[c].requests)
    <3>2. last > 0 /\ call[c].requests[last].day = day /\ last \in Nat
      BY <3>1, RequestsTyped DEF AttemptsCounted, Counted
    <3>3. last \in 1 .. Len(call[c].requests)
      BY <3>2
    <3>4. ~ToldOn(c, day)
      BY <3>1 DEF ToldOn, Told, At
    <3>5. Straddles(c, day)
      BY <3>2, <3>3, <3>4 DEF Straddles
    <3> QED BY <1>3, <3>1, <3>5
  <2>2. OpenUnder(row) = {}
    BY <2>1
  <2> QED BY <1>3, <1>4, <2>2, FS_EmptySet DEF ReservationsMatchAttempts
<1>6. ledger[row].spent = sent /\ ledger[row].spent \in Nat
  BY <1>3, <1>4, <1>5 DEF ChargesExact, Charged, TypeOK, LedgerTypeOK
<1>7. Tolerance(ledger[row].spent) \in Int /\ Tolerance(ledger[row].spent) >= 1
  BY <1>6 DEF Tolerance
<1>8. /\ sent \in Nat /\ refused \in Nat /\ AttemptsIn(scope, day) \in Nat
      /\ sent <= AttemptsIn(scope, day)
      /\ AttemptsIn(scope, day) - sent <= refused
  BY <1>1, <1>3, RowsTellRequests
<1>9. AttemptsIn(scope, day) - sent > Tolerance(ledger[row].spent)
        \/ sent - AttemptsIn(scope, day) > Tolerance(ledger[row].spent)
  BY <1>3, <1>5, <1>6 DEF Anomaly
<1> HIDE DEF sent, refused
<1>10. refused > 1
  BY <1>7, <1>8, <1>9
<1> QED BY <1>10 DEF refused

\* Every step of the specification keeps reports explained.
LEMMA ReportInvStep == ReportInv /\ [Next]_vars => ReportInv'
<1> SUFFICES ASSUME ReportInv, [Next]_vars PROVE ReportInv'
  OBVIOUS
<1>1. AccountedInv'
  BY AccountedStep DEF ReportInv
<1>2. PastKept
  BY PastStep DEF ReportInv
<1>3. Told'
  BY <1>2, ToldStep DEF ReportInv, AccountedInv, BudgetInv
<1>4. ChargesExact'
  BY ExactStep DEF ReportInv
<1>5. ReconcilePeriod \/ report' = report
  BY DEF Next, Progress, Start, Disabled, ReserveGlobal, RefuseGlobal, ReserveUser, RefuseUser,
         ReconcileGlobal, ReconcileUser, Retry, Record, ReservationFails, ReconcileFails,
         RecordFails, TimerFires, ProviderAnswers, MidnightUtc, Crash, Finished, vars
<1>6. /\ today \in Days /\ today' \in Days /\ today' >= today
      /\ report.period \in Days \cup {0}
  <2>1. today \in Days /\ today' \in Days /\ report.period \in Days \cup {0}
    BY <1>1 DEF ReportInv, AccountedInv, BudgetInv, TypeOK, Report
  <2>2. today' = today \/ today' = today + 1
    BY DEF Next, Progress, Start, Disabled, ReserveGlobal, RefuseGlobal, ReserveUser, RefuseUser,
           ReconcileGlobal, ReconcileUser, Retry, Record, ReservationFails, ReconcileFails,
           RecordFails, TimerFires, ProviderAnswers, MidnightUtc, ReconcilePeriod, Crash, Finished,
           vars
  <2> QED BY <2>1, <2>2, LimitsTyped DEF Days
<1>7. ReportPast'
  <2>1. CASE ReconcilePeriod
    BY <1>6, <2>1, LimitsTyped DEF ReconcilePeriod, ReportPast, Days
  <2>2. CASE report' = report
    BY <1>6, <2>2, LimitsTyped DEF ReportInv, ReportPast, Days
  <2> QED BY <1>5, <2>1, <2>2
<1>8. faulty => faulty'
  BY DEF Next, Progress, Start, Disabled, ReserveGlobal, RefuseGlobal, ReserveUser, RefuseUser,
         ReconcileGlobal, ReconcileUser, Retry, Record, ReservationFails, ReconcileFails,
         RecordFails, TimerFires, ProviderAnswers, MidnightUtc, ReconcilePeriod, Crash, Finished,
         vars
<1>9. ReportsExplained'
  <2>1. CASE ReconcilePeriod
    BY <2>1, ReportStep
  <2>2. CASE report' = report
    BY <1>1, <1>2, <1>8, <2>2, StillExplained DEF ReportInv, AccountedInv, BudgetInv
  <2> QED BY <1>5, <2>1, <2>2
<1> QED BY <1>1, <1>3, <1>4, <1>7, <1>9 DEF ReportInv

\* An anomaly the reconciliation script reports is a statement that failed or a process
\* that died, a call over midnight, or two calls refused in the middle of a retry: of a
\* day on which none of these happened the ledger and the telemetry agree up to the
\* tolerance of classifyRequests.
THEOREM ReportsAreExplained == Spec => []ReportsExplained
<1>1. Init => ReportInv
  <2> SUFFICES ASSUME Init PROVE Told /\ ChargesExact /\ ReportPast /\ ReportsExplained
    BY InitialBudget DEF ReportInv, AccountedInv
  <2>1. Told /\ ReportPast /\ ReportsExplained
    BY LimitsTyped DEF Init, Told, ReportPast, ReportsExplained, Days
  <2>2. ASSUME NEW row \in Rows PROVE Charged(row) = Cardinality(SentUnder(row))
    <3>1. Charged(row) = 0
      BY <2>2 DEF Init, LedgerInit, Charged
    <3> QED BY <3>1, NothingSent
  <2> QED BY <2>1, <2>2 DEF ChargesExact
<1>2. ReportInv => ReportsExplained
  BY DEF ReportInv
<1> QED BY <1>1, <1>2, ReportInvStep, PTL DEF Spec

=============================================================================
