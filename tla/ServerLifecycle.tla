-------------------------- MODULE ServerLifecycle --------------------------
(***************************************************************************)
(* The process: its requests, the cached health probe, and the one         *)
(* shutdown that signals and fatal errors ask for (server-lifecycle.ts,    *)
(* app.ts, infra/prisma.ts).  The shutdown stops listening, waits for the  *)
(* connections or for its deadline, whichever comes first, closes the      *)
(* database and exits.                                                     *)
(*                                                                         *)
(* A handler takes a client of the connection pool for a statement or a    *)
(* transaction and gives it back.  It goes on when its connection has      *)
(* gone: nothing tells it.                                                 *)
(*                                                                         *)
(* An operator called X_Faulty... is X with a plausible mistake in it: no  *)
(* definition uses it, the mutation runs put it in X's place.              *)
(***************************************************************************)
EXTENDS Naturals

CONSTANTS
  Calls,  \* requests to the application's routes
  Checks,    \* requests to /health
  Ttl        \* healthCacheTtlMs, in ticks of the clock

ASSUME LifecycleAssumption == Ttl \in Nat \ {0} /\ Calls \cap Checks = {}

VARIABLES
  phase,        \* where runShutdown is
  exitCode,     \* its local exitCode; the code of the process at the end
  handler,      \* request -> where its handler is
  check,        \* check -> where its handler is, or its answer
  gone,         \* the requests and checks whose connection was destroyed
  pool,         \* the connection pool: "open", or "ending" once end is called
  probe,        \* pendingHealthProbe
  freshFor,     \* ticks left until healthyUntil
  \* History:
  trouble,      \* what went wrong in this life of the process
  sinceHealthy  \* ticks since a probe last succeeded, up to Ttl + 1
shutdownVars == <<phase, exitCode, trouble>>
healthVars == <<check, probe, freshFor, sinceHealthy>>
lifecycleVars == <<shutdownVars, healthVars, handler, gone, pool>>

Phases == {"serving", "draining", "disconnecting", "ending", "exited"}
Troubles == {"fatalFirst", "fatalLater", "closeFailed", "deadline", "disconnectFailed"}

LifecycleTypeOK ==
  /\ phase \in Phases
  /\ exitCode \in {0, 1}
  /\ handler \in [Calls -> {"idle", "arriving", "computing", "holding", "refused", "done"}]
  /\ check \in [Checks -> {"idle", "arriving", "waiting", "ok", "unavailable"}]
  /\ gone \subseteq Calls \cup Checks
  /\ pool \in {"open", "ending"}
  /\ probe \in {"none", "querying"}
  /\ freshFor \in 0 .. Ttl
  /\ trouble \subseteq Troubles
  /\ sinceHealthy \in 0 .. Ttl + 1

LifecycleInit ==
  /\ phase = "serving" /\ exitCode = 0
  /\ handler = [r \in Calls |-> "idle"]
  /\ check = [k \in Checks |-> "idle"]
  /\ gone = {} /\ pool = "open" /\ probe = "none" /\ freshFor = 0
  /\ trouble = {} /\ sinceHealthy = Ttl + 1

Alive == phase # "exited"

-----------------------------------------------------------------------------
(* Connections.                                                            *)

\* Part of a request has arrived: server.close waits for this connection too.
Connect ==
  /\ phase = "serving"
  /\ \/ /\ \E r \in Calls : /\ handler[r] = "idle"
                              /\ handler' = [handler EXCEPT ![r] = "arriving"]
        /\ UNCHANGED check
     \/ /\ \E k \in Checks : /\ check[k] = "idle"
                            /\ check' = [check EXCEPT ![k] = "arriving"]
        /\ UNCHANGED handler
  /\ UNCHANGED <<shutdownVars, probe, freshFor, sinceHealthy, gone, pool>>

Connected ==
  ({r \in Calls : handler[r] \in {"arriving", "computing", "holding"}}
   \cup {k \in Checks : check[k] \in {"arriving", "waiting"}}) \ gone

\* The client closes its connection, or the socket times out.
ConnectionLost ==
  /\ Alive
  /\ \E x \in Connected : gone' = gone \cup {x}
  /\ UNCHANGED <<shutdownVars, healthVars, handler, pool>>

-----------------------------------------------------------------------------
(* Requests to the application.                                            *)

\* Only /health looks at the operational state: the routes serve what arrives.
Dispatch(r) ==
  /\ Alive
  /\ handler[r] = "arriving" /\ r \notin gone
  /\ handler' = [handler EXCEPT ![r] = "computing"]
  /\ UNCHANGED <<shutdownVars, healthVars, gone, pool>>

\* A pool that is ending gives no client out: the handler fails with a 500.
TakeClient(r) ==
  /\ Alive
  /\ handler[r] = "computing"
  /\ handler' = [handler EXCEPT ![r] = IF pool = "open" THEN "holding" ELSE "refused"]
  /\ UNCHANGED <<shutdownVars, healthVars, gone, pool>>

ReleaseClient(r) ==
  /\ Alive
  /\ handler[r] = "holding"
  /\ handler' = [handler EXCEPT ![r] = "computing"]
  /\ UNCHANGED <<shutdownVars, healthVars, gone, pool>>

Answer(r) ==
  /\ Alive
  /\ handler[r] = "computing"
  /\ handler' = [handler EXCEPT ![r] = "done"]
  /\ UNCHANGED <<shutdownVars, healthVars, gone, pool>>

-----------------------------------------------------------------------------
(* The health check: one probe at a time, its success kept for a while.    *)

CheckHealth(k) ==
  /\ Alive
  /\ check[k] = "arriving" /\ k \notin gone
  /\ \/ /\ phase # "serving"
        /\ check' = [check EXCEPT ![k] = "unavailable"]
        /\ UNCHANGED probe
     \/ /\ phase = "serving" /\ freshFor > 0
        /\ check' = [check EXCEPT ![k] = "ok"]
        /\ UNCHANGED probe
     \/ /\ phase = "serving" /\ freshFor = 0
        /\ check' = [check EXCEPT ![k] = "waiting"]
        /\ probe' = "querying"
  /\ UNCHANGED <<shutdownVars, handler, gone, pool, freshFor, sinceHealthy>>

AnswerWaiting(answer) ==
  check' = [k \in Checks |-> IF check[k] = "waiting" THEN answer ELSE check[k]]

ProbeSucceeds ==
  /\ Alive
  /\ probe = "querying" /\ probe' = "none"
  /\ AnswerWaiting("ok")
  /\ freshFor' = Ttl /\ sinceHealthy' = 0
  /\ UNCHANGED <<shutdownVars, handler, gone, pool>>

\* The failure renews the cache too.
ProbeFails_FaultyCached ==
  /\ Alive
  /\ probe = "querying" /\ probe' = "none"
  /\ AnswerWaiting("unavailable")
  /\ freshFor' = Ttl
  /\ UNCHANGED <<shutdownVars, handler, gone, pool, sinceHealthy>>

ProbeFails ==
  /\ Alive
  /\ probe = "querying" /\ probe' = "none"
  /\ AnswerWaiting("unavailable")
  /\ UNCHANGED <<shutdownVars, handler, gone, pool, freshFor, sinceHealthy>>

Tick ==
  /\ Alive
  /\ freshFor' = IF freshFor > 0 THEN freshFor - 1 ELSE 0
  /\ sinceHealthy' = IF sinceHealthy <= Ttl THEN sinceHealthy + 1 ELSE sinceHealthy
  /\ UNCHANGED <<shutdownVars, check, probe, handler, gone, pool>>

-----------------------------------------------------------------------------
(* The shutdown.                                                           *)

\* Every trigger starts a shutdown of its own.
Shutdown_FaultyEachTrigger(code) ==
  /\ phase' = "draining" /\ exitCode' = code

\* shutdown(trigger, code): only the first trigger starts one, with its code.
Shutdown(code) ==
  IF phase = "serving" THEN phase' = "draining" /\ exitCode' = code
                       ELSE UNCHANGED <<phase, exitCode>>

Signal ==
  /\ Alive
  /\ Shutdown(0)
  /\ UNCHANGED <<trouble, healthVars, handler, gone, pool>>

FatalError ==
  /\ Alive
  /\ Shutdown(1)
  /\ trouble' = trouble \cup {IF phase = "serving" THEN "fatalFirst" ELSE "fatalLater"}
  /\ UNCHANGED <<healthVars, handler, gone, pool>>

\* The database is closed beside the server, not after it.
Drained_FaultyNotAwaited ==
  /\ phase = "draining"
  /\ phase' = "disconnecting"
  /\ UNCHANGED <<exitCode, trouble, healthVars, handler, gone, pool>>

\* server.close calls back when no connection is left.
Drained ==
  /\ phase = "draining"
  /\ Connected = {}
  /\ phase' = "disconnecting"
  /\ UNCHANGED <<exitCode, trouble, healthVars, handler, gone, pool>>

\* server.close reports that the server was never listening.
CloseFails ==
  /\ phase = "draining"
  /\ \A r \in Calls : handler[r] = "idle"
  /\ \A k \in Checks : check[k] = "idle"
  /\ phase' = "disconnecting" /\ exitCode' = 1
  /\ trouble' = trouble \cup {"closeFailed"}
  /\ UNCHANGED <<healthVars, handler, gone, pool>>

\* The deadline closes the idle connections only, and the drain goes on.
DeadlinePasses_FaultyIdleOnly ==
  /\ phase = "draining"
  /\ exitCode' = 1
  /\ trouble' = trouble \cup {"deadline"}
  /\ UNCHANGED <<phase, healthVars, handler, gone, pool>>

\* The deadline wins the race: closeAllConnections.
DeadlinePasses ==
  /\ phase = "draining"
  /\ phase' = "disconnecting" /\ exitCode' = 1
  /\ trouble' = trouble \cup {"deadline"}
  /\ gone' = gone \cup Connected
  /\ UNCHANGED <<healthVars, handler, pool>>

\* disconnectPrisma: $disconnect, and pool.end whether or not it failed.
Disconnect ==
  /\ phase = "disconnecting"
  /\ phase' = "ending" /\ pool' = "ending"
  /\ \/ UNCHANGED <<exitCode, trouble>>
     \/ exitCode' = 1 /\ trouble' = trouble \cup {"disconnectFailed"}
  /\ UNCHANGED <<healthVars, handler, gone>>

\* pool.end settles once every client has been given back.
ClientsOut == probe = "querying" \/ \E r \in Calls : handler[r] = "holding"

PoolEnds ==
  /\ phase = "ending"
  /\ ~ClientsOut
  /\ phase' = "exited"
  /\ UNCHANGED <<exitCode, trouble, healthVars, handler, gone, pool>>

Exited == phase = "exited" /\ UNCHANGED lifecycleVars

ShutdownStep == Drained \/ CloseFails \/ DeadlinePasses \/ Disconnect \/ PoolEnds
HandlerStep(r) == TakeClient(r) \/ ReleaseClient(r) \/ Answer(r)
ProbeStep == ProbeSucceeds \/ ProbeFails

LifecycleNext ==
  \/ \E r \in Calls : Dispatch(r) \/ HandlerStep(r)
  \/ \E k \in Checks : CheckHealth(k)
  \/ ProbeStep \/ Tick
  \/ Connect \/ ConnectionLost
  \/ Signal \/ FatalError
  \/ ShutdownStep
  \/ Exited

LifecycleSpec == LifecycleInit /\ [][LifecycleNext]_lifecycleVars

\* The event loop and its timers go on, and the database answers.  A handler
\* that holds a client gives it back, but owes its request no answer.
FairLifecycle ==
  /\ LifecycleSpec
  /\ WF_lifecycleVars(DeadlinePasses) /\ WF_lifecycleVars(Disconnect) /\ WF_lifecycleVars(PoolEnds)
  /\ WF_lifecycleVars(ProbeStep)
  /\ \A r \in Calls : WF_lifecycleVars(ReleaseClient(r))

-----------------------------------------------------------------------------
\* Exit code 0 means that a signal asked for the end, that every connection
\* ended before the deadline and that the cleanup succeeded; a fatal error during
\* the drain does not change it, nor a signal the code of a fatal error; and 1 is
\* never reported without a reason (runShutdown, shutdownPromise).
ExitCodeTells ==
  phase = "exited" => (exitCode = 0 <=> trouble \subseteq {"fatalLater"})

\* The process never exits under a statement or a transaction: even when the
\* deadline has passed or the cleanup fails, the pool waits for its clients
\* (disconnectPrisma, the finally).
NoTransactionCut == phase = "exited" => ~ClientsOut

\* A request is refused the database only when nobody is left to answer: its
\* client had gone or the deadline closed its connection (runShutdown: the
\* database is closed after the connections).
DrainedFirst ==
  \A r \in Calls :
    handler[r] = "refused" => r \in gone

\* The database goes after those who need it, and the process after the database,
\* whoever wins the race of the drain and the deadline.
DatabaseClosedLast == DrainedFirst /\ NoTransactionCut

\* A check answers ok only on a probe that succeeded within the time to live:
\* a failure is never cached, nor a success for longer (cachedHealthProbe).
HealthyAnswersFresh ==
  [][\A k \in Checks : check[k] # "ok" /\ check'[k] = "ok" => sinceHealthy' < Ttl]_lifecycleVars

\* A shutdown begun ends, even if handlers hang and connections stay open.
ShutdownEnds == (phase = "draining") ~> (phase = "exited")
=============================================================================
