---------------------------- MODULE HttpRequests ----------------------------
(***************************************************************************)
(* A request on its way through the Express application: the middlewares   *)
(* of its route, each of which lets it go on or answers it, up to the      *)
(* controller and the use case, with the rate limiters' counters, the      *)
(* client address they count by, and the temporary file of an upload.      *)
(* What a use case does is in the modules about it; here it answers, and   *)
(* may have had an effect. Requests run concurrently, and the process may  *)
(* die with the counters, which are kept in memory, but not with the files.*)
(*                                                                         *)
(* An operator called X_Faulty... is X with a plausible mistake in it: no   *)
(* definition uses it, the mutation runs put it in X's place.              *)
(***************************************************************************)
EXTENDS Environment, Sequences, FiniteSets, SequencesExt

CONSTANTS
  Requests,     (* Requests.                                               *)
  Routes,       (* Bound: the routes they ask for.                         *)
  Users,        (* Users whose token a request may carry.                  *)
  Visitors,     (* Addresses requests come from.                           *)
  Forged,       (* Bound: what a client may put into X-Forwarded-For.      *)
  Edges,        (* Addresses in the ranges published by Cloudflare.        *)
  Deployments,  (* Bound: environments the process is started in, with the *)
                (* proxies in front of it and the build of the web pages.  *)
  MaxHits,      (* Requests a limiter without a setting admits in a window.*)
  NoUser        (* Nobody.                                                 *)

Unlimited == {"suggestions:confirm", "suggestions:reject", "products", "companies", "stocks",
              "suggestions", "demo:current", "demo:document"}
Limited   == {"companies:create", "demo:prepare", "demo:restart", "me:password"}
Demo      == {"demo:current", "demo:document", "demo:prepare", "demo:restart"}
Public    == {"users", "login"}
Probes    == {"health", "version"}

\* Redirections to the pages, files of their build, the index, and files it lacks.
Web       == {"web:entrance", "web:file", "web:index", "web:lost"}
AllRoutes == Unlimited \cup Limited \cup Public \cup Probes \cup Web \cup {"upload", "unknown"}

\* What of a request has to match a schema, in the order it is looked at; the body
\* of an upload is looked at by its controller.
Validated(route) ==
  CASE route \in {"users", "login", "companies:create", "me:password", "demo:prepare"} -> <<"body">>
    [] route \in {"products", "companies"}       -> <<"query">>
    [] route = "stocks"                          -> <<"params", "query">>
    [] route \in {"suggestions", "demo:document"} -> <<"params">>
    [] route \in {"suggestions:confirm", "suggestions:reject", "demo:restart"} -> <<"params", "body">>
    [] route = "demo:current"                    -> <<>>

\* Middlewares, controllers, and the further awaits of one.
Stages == {"json", "authenticate", "limit", "params", "query", "body", "receive", "check",
           "upload", "handle", "accept", "probe", "static", "missing",
           "storing", "discarding", "reading", "dropping", "cleaning"}

\* What the server does not offer.
Lacks(d, route) ==
  (route \in Demo /\ ~d.demo) \/ (route \in Web /\ ~d.web) \/ route = "unknown"

\* Middlewares of each route, in the order of createRoutes and createApp.
Chain(d, route) ==
  IF Lacks(d, route) THEN <<"json", "missing">> ELSE
  CASE route = "upload"    -> <<"json", "authenticate", "limit", "receive", "check", "upload">>
    [] route \in Limited   -> <<"json", "authenticate", "limit">> \o Validated(route) \o <<"handle">>
    [] route \in Public    -> <<"json", "limit">> \o Validated(route) \o <<"handle">>
    [] route \in Unlimited -> <<"json", "authenticate">> \o Validated(route) \o <<"handle">>
    [] route = "health"    -> <<"accept", "limit", "probe">>
    [] route = "version"   -> <<"limit", "probe">>
    [] route \in Web       -> <<"json", "static", "missing">>

\* One limiter each, apart from those given to two routes.
LimiterOf(route) ==
  CASE route \in {"demo:prepare", "demo:restart"} -> "demo"
    [] route = "version" -> "health"
    [] OTHER -> route

Limiters == {LimiterOf(route) : route \in Routes}

\* What startApplication takes from the settings.
Started(d) ==
  LET env == CreateEnv(d.environment)
  IN [mode |-> env["TRUST_PROXY_MODE"], hops |-> env["TRUST_PROXY_HOPS"],
      demo |-> env["DEMO_ENABLED"], demoCommands |-> env["DEMO_COMMANDS_PER_MINUTE"],
      proxies |-> d.proxies, web |-> d.web]

Servers == {Started(d) : d \in {e \in Deployments : CreateEnv(e.environment) # Refused}}

Addresses == Visitors \cup Edges \cup UNION {Range(f) : f \in Forged}
             \cup UNION {Range(d.proxies) : d \in Deployments}

\* Render, which sets RENDER, has its router in front of the process, reached through
\* an edge or not; elsewhere there are as many proxies as the process is told.
Placed(d) ==
  /\ d.environment["RENDER"] = "true" =>
       Len(d.proxies) \in {1, 2} /\ (Len(d.proxies) = 2 => d.proxies[1] \in Edges)
  /\ d.environment["TRUST_PROXY_MODE"] \in {Unset, "hops"} =>
       Len(d.proxies) = CreateEnv(d.environment)["TRUST_PROXY_HOPS"]

\* The proxies in front are listed from the visitor's side.
ASSUME HttpAssumption ==
  /\ Routes \subseteq AllRoutes
  /\ MaxHits \in Nat \ {0}
  /\ NoUser \notin Users
  /\ Visitors \cap Edges = {}
  /\ \A f \in Forged : f \in Seq(Range(f))
  /\ \A d \in Deployments :
       /\ DOMAIN d.environment = Variables
       /\ d.proxies \in Seq(Range(d.proxies)) /\ d.web \in BOOLEAN
       /\ CreateEnv(d.environment) # Refused => Placed(d)

VARIABLES
  deployment,  (* The settings the process has started with.               *)
  request,     (* Where each request stands.                               *)
  files,       (* Requests whose temporary file is on the disk.            *)
  hits,        (* What the store of each limiter has counted by key.       *)
  done,        (* History: requests whose use case had its effect.         *)
  admitted,    (* History: requests of each person a limiter let through,  *)
               (* since it last began to count that person.                *)
  broken       (* History: files the disk or the process failed on.        *)

vars == <<deployment, request, files, hits, done, admitted, broken>>

Keys == ({"user"} \X Users) \cup ({"ip"} \X Addresses)

Statuses == {0, 200, 302, 400, 401, 404, 413, 415, 422, 429, 500, 503}

Request == [route : Routes \cup {"none"},
            todo : Seq(Stages),                 (* What is still to come.         *)
            token : Users \cup {NoUser},        (* Whose token it carries.        *)
            visitor : Addresses \cup {NoUser},  (* Where it comes from.           *)
            ip : Addresses \cup {NoUser},       (* request.ip                     *)
            user : Users \cup {NoUser},         (* request.user                   *)
            file : BOOLEAN,                     (* request.file                   *)
            outcome : Statuses,                 (* What the use case came to.     *)
            status : Statuses]                  (* The answer, 0 if none.         *)

TypeOK ==
  /\ deployment \in Servers
  /\ request \in [Requests -> Request]
  /\ files \subseteq Requests /\ done \subseteq Requests /\ broken \subseteq Requests
  /\ hits \in [Limiters \X Keys -> Nat]
  /\ admitted \in [Limiters \X Keys -> Nat]

NoRequest == [route |-> "none", todo |-> <<>>, token |-> NoUser, visitor |-> NoUser,
              ip |-> NoUser, user |-> NoUser, file |-> FALSE, outcome |-> 0, status |-> 0]

Init ==
  /\ deployment \in Servers
  /\ request = [r \in Requests |-> NoRequest]
  /\ files = {} /\ done = {} /\ broken = {}
  /\ hits = [lk \in Limiters \X Keys |-> 0]
  /\ admitted = [lk \in Limiters \X Keys |-> 0]

Running(r) == request[r].todo # <<>>

At(r, stage) == Running(r) /\ Head(request[r].todo) = stage

Rest(r) == Tail(request[r].todo)

\* next()
GoesOn(r) == request' = [request EXCEPT ![r].todo = Tail(@)]

\* A further await of the same middleware.
Awaits(r, stage) == request' = [request EXCEPT ![r].todo = <<stage>> \o Tail(@)]

\* A response is sent, also by the error handler for next(error).
Answers(r, status) ==
  request' = [request EXCEPT ![r] = [@ EXCEPT !.todo = <<>>, !.status = status]]

-----------------------------------------------------------------------------
(* The address of the client.                                              *)

Trusts_FaultyByPosition(d, address, hop) ==
  IF d.mode = "render-cloudflare" THEN hop <= 1 ELSE hop < d.hops

\* createRenderCloudflareTrust: the router of Render by its place, before it an
\* edge by its address.
RenderCloudflareTrust(address, hop) == hop = 0 \/ (hop = 1 /\ address \in Edges)

\* The trust function of the Express application, by hop from the socket on.
Trusts(d, address, hop) ==
  IF d.mode = "render-cloudflare" THEN RenderCloudflareTrust(address, hop) ELSE hop < d.hops

\* Each proxy appends the address it was called from to X-Forwarded-For; the
\* last one is the peer of the socket.
Path(d, visitor, forged) == Reverse(forged \o <<visitor>> \o d.proxies)

\* request.ip: the first address of the path that is not trusted, or its end.
ClientAddress(d, visitor, forged) ==
  LET path     == Path(d, visitor, forged)
      distrust == {i \in 1 .. Len(path) : ~Trusts(d, path[i], i - 1)}
  IN IF distrust = {} THEN path[Len(path)] ELSE path[CHOOSE i \in distrust : \A j \in distrust : i <= j]

Arrives(r, route, token, visitor, forged) ==
  /\ request[r].route = "none"
  /\ request' = [request EXCEPT ![r] =
       [NoRequest EXCEPT !.route = route, !.todo = Chain(deployment, route), !.token = token,
                         !.visitor = visitor, !.ip = ClientAddress(deployment, visitor, forged)]]
  /\ UNCHANGED <<deployment, files, hits, done, admitted, broken>>

-----------------------------------------------------------------------------
(* Middlewares.                                                            *)

\* express.json(): what it throws is no AppError, hence answered with 500.
Json(r) ==
  /\ At(r, "json")
  /\ GoesOn(r) \/ Answers(r, 500)
  /\ UNCHANGED <<deployment, files, hits, done, admitted, broken>>

\* A token that is missing, expired or revoked, and any failure on the way.
Authenticate(r) ==
  /\ At(r, "authenticate")
  /\ \/ /\ request[r].token # NoUser
        /\ request' = [request EXCEPT ![r] = [@ EXCEPT !.todo = Rest(r), !.user = request[r].token]]
     \/ Answers(r, 401)
  /\ UNCHANGED <<deployment, files, hits, done, admitted, broken>>

AddressKey(r) == <<"ip", request[r].ip>>

\* keyGenerator: the routes that anyone may ask for count by address.
Key(r) ==
  IF request[r].route \notin Public /\ request[r].user # NoUser
  THEN <<"user", request[r].user>> ELSE AddressKey(r)

\* Who stands behind a request: the owner of its token, or whoever sends it.
Person(r) ==
  IF request[r].user # NoUser THEN <<"user", request[r].user>> ELSE <<"ip", request[r].visitor>>

Most(limiter) == IF limiter = "demo" THEN deployment.demoCommands ELSE MaxHits

Limit(r) ==
  /\ At(r, "limit")
  /\ LET limiter == LimiterOf(request[r].route) IN
     /\ hits' = [hits EXCEPT ![<<limiter, Key(r)>>] = @ + 1]
     /\ IF hits[limiter, Key(r)] < Most(limiter)
        THEN GoesOn(r) /\ admitted' = [admitted EXCEPT ![<<limiter, Person(r)>>] = @ + 1]
        ELSE Answers(r, 429) /\ UNCHANGED admitted
  /\ UNCHANGED <<deployment, files, done, broken>>

\* The window of a key is over and its next hit begins another.
WindowEnds(limiter, key) ==
  /\ hits[limiter, key] > 0
  /\ hits' = [hits EXCEPT ![<<limiter, key>>] = 0]
  /\ admitted' = [admitted EXCEPT ![<<limiter, key>>] = 0]
  /\ UNCHANGED <<deployment, request, files, done, broken>>

\* validateParams, validateQuery, validateBody
Validate(r) ==
  /\ \E part \in {"params", "query", "body"} : At(r, part)
  /\ GoesOn(r) \/ Answers(r, 400)
  /\ UNCHANGED <<deployment, files, hits, done, admitted, broken>>

\* apiNotFound
Missing(r) ==
  /\ At(r, "missing")
  /\ Answers(r, 404)
  /\ UNCHANGED <<deployment, files, hits, done, admitted, broken>>

\* rejectHealthDuringShutdown
Accept(r) ==
  /\ At(r, "accept")
  /\ GoesOn(r) \/ Answers(r, 503)
  /\ UNCHANGED <<deployment, files, hits, done, admitted, broken>>

\* The database answers or not; the version needs none.
Probe(r) ==
  /\ At(r, "probe")
  /\ Answers(r, 200) \/ (request[r].route = "health" /\ Answers(r, 503))
  /\ UNCHANGED <<deployment, files, hits, done, admitted, broken>>

\* createWebRouter: a file the build lacks is not answered with the index.
Static(r) ==
  /\ At(r, "static")
  /\ CASE request[r].route = "web:lost"     -> GoesOn(r)
       [] request[r].route = "web:entrance" -> Answers(r, 302)
       [] OTHER                             -> Answers(r, 200)
  /\ UNCHANGED <<deployment, files, hits, done, admitted, broken>>

-----------------------------------------------------------------------------
(* The temporary file.                                                     *)

\* multer meets a file, none, or one of another MIME type.
Receive(r) ==
  /\ At(r, "receive")
  /\ \/ Awaits(r, "storing") /\ files' = files \cup {r}
     \/ (GoesOn(r) \/ Answers(r, 415)) /\ UNCHANGED files
  /\ UNCHANGED <<deployment, hits, done, admitted, broken>>

Store(r) ==
  /\ At(r, "storing")
  /\ request' = [request EXCEPT ![r] = [@ EXCEPT !.todo = Rest(r), !.file = TRUE]]
  /\ UNCHANGED <<deployment, files, hits, done, admitted, broken>>

\* unlink, which may fail.
Removes(r) ==
  \/ files' = files \ {r} /\ UNCHANGED broken
  \/ UNCHANGED files /\ broken' = broken \cup {r}

\* Too large; a second file, a client that goes away or falls silent.
StoreFails(r) ==
  /\ At(r, "storing")
  /\ Answers(r, 413) \/ Answers(r, 500)
  /\ Removes(r)
  /\ UNCHANGED <<deployment, hits, done, admitted>>

CheckPasses(r) ==
  /\ At(r, "check")
  /\ GoesOn(r)
  /\ UNCHANGED <<deployment, files, hits, done, admitted, broken>>

CheckMismatch(r) ==
  /\ At(r, "check")
  /\ request[r].file
  /\ Awaits(r, "discarding")
  /\ UNCHANGED <<deployment, files, hits, done, admitted, broken>>

\* readHeader rejects: the error is forwarded, the file stays.
CheckFails(r) ==
  /\ At(r, "check")
  /\ request[r].file
  /\ Answers(r, 500)
  /\ broken' = broken \cup {r}
  /\ UNCHANGED <<deployment, files, hits, done, admitted>>

Discard(r) ==
  /\ At(r, "discarding")
  /\ Answers(r, 415)
  /\ Removes(r)
  /\ UNCHANGED <<deployment, hits, done, admitted>>

Upload_FaultyKeepsFile(r) ==
  /\ At(r, "upload")
  /\ \/ request[r].file /\ Awaits(r, "reading")
     \/ Answers(r, 400)
  /\ UNCHANGED <<deployment, files, hits, done, admitted, broken>>

\* UploadInvoiceController.handle, up to its first await.
Upload(r) ==
  /\ At(r, "upload")
  /\ IF request[r].file THEN Awaits(r, "reading") \/ Awaits(r, "dropping") ELSE Answers(r, 400)
  /\ UNCHANGED <<deployment, files, hits, done, admitted, broken>>

\* The rejection is not forwarded.
Drop_FaultyNotForwarded(r) ==
  /\ At(r, "dropping") /\ r \notin broken
  /\ \/ files' = files \ {r} /\ Answers(r, 400) /\ UNCHANGED broken
     \/ broken' = broken \cup {r} /\ UNCHANGED <<request, files>>
  /\ UNCHANGED <<deployment, hits, done, admitted>>

\* deleteFile before the refusal, which is lost if it rejects.
Drop(r) ==
  /\ At(r, "dropping")
  /\ \/ files' = files \ {r} /\ Answers(r, 400) /\ UNCHANGED broken
     \/ broken' = broken \cup {r} /\ Answers(r, 500) /\ UNCHANGED files
  /\ UNCHANGED <<deployment, hits, done, admitted>>

-----------------------------------------------------------------------------
(* Use cases.                                                              *)

\* Success, a refusal (also by the AI's quota), or a failure, which does not
\* tell whether a commit came before it.
Outcome(r, status) ==
  CASE status = 200 -> done' = done \cup {r}
    [] status \in {422, 429} -> UNCHANGED done
    [] status = 500 -> done' \in {done, done \cup {r}}

\* ReadInvoiceUseCase.execute; what it reads must still be there.
ReadInvoice(r) ==
  /\ At(r, "reading")
  /\ \E status \in {200, 422, 429, 500} :
       /\ status = 200 => r \in files
       /\ Outcome(r, status)
       /\ request' = [request EXCEPT ![r] =
            [@ EXCEPT !.todo = <<"cleaning">>, !.outcome = status]]
  /\ UNCHANGED <<deployment, files, hits, admitted, broken>>

Cleanup_FaultyThrows(r) ==
  /\ At(r, "cleaning")
  /\ \/ files' = files \ {r} /\ Answers(r, request[r].outcome) /\ UNCHANGED broken
     \/ broken' = broken \cup {r} /\ Answers(r, 500) /\ UNCHANGED files
  /\ UNCHANGED <<deployment, hits, done, admitted>>

\* finally: a failure is logged, and the answer stays what it was.
Cleanup(r) ==
  /\ At(r, "cleaning")
  /\ Answers(r, request[r].outcome)
  /\ Removes(r)
  /\ UNCHANGED <<deployment, hits, done, admitted>>

\* Every other controller.
Handle(r) ==
  /\ At(r, "handle")
  /\ \E status \in {200, 422, 500} :
       /\ Outcome(r, status)
       /\ request' = [request EXCEPT ![r] =
            [@ EXCEPT !.todo = <<>>, !.outcome = status, !.status = status]]
  /\ UNCHANGED <<deployment, files, hits, admitted, broken>>

\* The process dies and is started again.
Crash ==
  /\ \E r \in Requests : Running(r)
  /\ request' = [r \in Requests |-> [request[r] EXCEPT !.todo = <<>>]]
  /\ hits' = [lk \in Limiters \X Keys |-> 0]
  /\ admitted' = [lk \in Limiters \X Keys |-> 0]
  /\ broken' = broken \cup {r \in files : Running(r)}
  /\ UNCHANGED <<deployment, files, done>>

\* No request is left: the server stays up.
Finished ==
  /\ \A r \in Requests : request[r].route # "none" /\ ~Running(r)
  /\ UNCHANGED vars

Progress(r) ==
  \/ Json(r) \/ Authenticate(r) \/ Limit(r) \/ Validate(r) \/ Missing(r)
  \/ Accept(r) \/ Probe(r) \/ Static(r)
  \/ Receive(r) \/ Store(r) \/ StoreFails(r)
  \/ CheckPasses(r) \/ CheckMismatch(r) \/ CheckFails(r) \/ Discard(r)
  \/ Upload(r) \/ Drop(r) \/ ReadInvoice(r) \/ Cleanup(r) \/ Handle(r)

Next ==
  \/ \E r \in Requests :
       \/ \E route \in Routes, token \in Users \cup {NoUser}, visitor \in Visitors, forged \in Forged :
            Arrives(r, route, token, visitor, forged)
       \/ Progress(r)
  \/ \E limiter \in Limiters, key \in Keys : WindowEnds(limiter, key)
  \/ Crash
  \/ Finished

Spec == Init /\ [][Next]_vars

(***************************************************************************)
(* What a request waits for comes or fails: the request timeout ends a     *)
(* client that falls silent, and the use cases end as the modules about    *)
(* them show.                                                              *)
(***************************************************************************)
FairSpec == Spec /\ \A r \in Requests : WF_vars(Progress(r))

-----------------------------------------------------------------------------
(***************************************************************************)
(* A temporary file outlives its request only if the disk refused to read  *)
(* or to remove it, or the process died: no refusal, wherever on the way   *)
(* it is spoken, leaves one behind. It is there while it is needed.        *)
(***************************************************************************)
FilesAccounted ==
  /\ \A r \in files : Running(r) \/ r \in broken
  /\ \A r \in Requests : request[r].file /\ Running(r) => r \in files

HttpInv == TypeOK /\ FilesAccounted

(***************************************************************************)
(* Nobody gets more through a limiter in a window than it admits: a user   *)
(* not by changing addresses, a visitor not by what the X-Forwarded-For    *)
(* header says, on a server whose proxies are the declared ones (Placed).  *)
(***************************************************************************)
LimitsHold == \A lk \in Limiters \X Keys : admitted[lk] <= Most(lk[1])

(***************************************************************************)
(* The answer tells what the use case came to, although the file may not   *)
(* be removable afterwards; without one nothing was done, nor is it said to *)
(* have been: a page is never the answer to the API's caller. An upload    *)
(* touches the disk, and any command the store, only once its user is      *)
(* known.                                                                  *)
(***************************************************************************)
AnswersTell ==
  \A r \in Requests :
    /\ request[r].status # 0 => IF request[r].outcome # 0
                                THEN request[r].status = request[r].outcome
                                ELSE /\ r \notin done
                                     /\ request[r].status \in {200, 302} =>
                                          request[r].route \in Probes \cup Web
    /\ request[r].outcome \in {422, 429} => r \notin done
    /\ r \in files \cup done /\ request[r].route \notin Public => request[r].user # NoUser

\* Every request is answered, or the process dies.
RequestsAnswered == \A r \in Requests : Running(r) ~> ~Running(r)

=============================================================================
