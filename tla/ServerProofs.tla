---------------------------- MODULE ServerProofs ----------------------------
(***************************************************************************)
(* Theorems about the server: its requests and their limits (HttpRequests),*)
(* and the process with its shutdown and health cache (ServerLifecycle).   *)
(***************************************************************************)
EXTENDS HttpRequests, ServerLifecycle, SequenceTheorems, TLAPS

-----------------------------------------------------------------------------
(* The settings and the address of the client.                             *)

\* What a server trusts, by count or by place, is what is in front of it.
TrustedAsPlaced(s) ==
  \/ s.mode = "hops" /\ s.hops \in Nat /\ Len(s.proxies) = s.hops
  \/ s.mode = "render-cloudflare" /\ Len(s.proxies) = 1
  \/ s.mode = "render-cloudflare" /\ Len(s.proxies) = 2 /\ s.proxies[1] \in Edges

\* A process that has started runs with numbers createEnv accepts, and trusts by
\* place only where the platform says so.
LEMMA SettingsAccepted ==
  ASSUME NEW s \in Servers
  PROVE  /\ s.demoCommands \in Nat
         /\ s.proxies \in Seq(Range(s.proxies))
         /\ TrustedAsPlaced(s)
<1>1. PICK d \in Deployments : s = Started(d) /\ CreateEnv(d.environment) # Refused
  BY DEF Servers
<1> DEFINE e       == d.environment
           numbers == [name \in DOMAIN Numbers |-> Parsed(e[name], Numbers[name])]
           env     == CreateEnv(e)
<1>2. /\ \A name \in DOMAIN Numbers : numbers[name] = Parsed(e[name], Numbers[name])
      /\ Numbers["TRUST_PROXY_HOPS"] = Within(0, 0, 10)
      /\ Numbers["DEMO_COMMANDS_PER_MINUTE"] = Within(5, 1, 60)
      /\ {"TRUST_PROXY_HOPS", "DEMO_COMMANDS_PER_MINUTE"} \subseteq DOMAIN Numbers
      /\ "TRUST_PROXY_MODE" \notin DOMAIN Numbers \cup DOMAIN Switches \cup DOMAIN Secrets
  BY DEF Numbers, Switches, Secrets
<1>3. \A name \in Variables \ {"RENDER"} : env[name] # Refused
  BY <1>1 DEF CreateEnv
<1> DEFINE table == [name \in Variables \ {"RENDER"} |->
             CASE name \in DOMAIN Numbers      -> numbers[name]
               [] name \in DOMAIN Switches     -> Switched(e[name], Switches[name])
               [] name \in DOMAIN Secrets      -> Required(e[name], Secrets[name])
               [] name = "TRUST_PROXY_MODE"     -> TrustProxyMode(e, numbers["TRUST_PROXY_HOPS"])
               [] name = "CORS_ALLOWED_ORIGINS" -> Origins(e[name])]
<1>a. env = table
  BY <1>1, Zenon DEF CreateEnv
<1>b. /\ DOMAIN Numbers \cap (DOMAIN Switches \cup DOMAIN Secrets
                              \cup {"RENDER", "TRUST_PROXY_MODE", "CORS_ALLOWED_ORIGINS"}) = {}
      /\ DOMAIN Numbers \subseteq Variables
      /\ "TRUST_PROXY_MODE" \in Variables
  BY DEF Variables, Numbers, Switches, Secrets
<1>4. /\ \A name \in DOMAIN Numbers : name # "RENDER" /\ env[name] = numbers[name]
      /\ env["TRUST_PROXY_MODE"] = TrustProxyMode(e, numbers["TRUST_PROXY_HOPS"])
  <2>1. ASSUME NEW name \in DOMAIN Numbers
        PROVE  name # "RENDER" /\ table[name] = numbers[name]
    <3> HIDE DEF numbers
    <3> QED BY <1>b
  <2>2. table["TRUST_PROXY_MODE"] = TrustProxyMode(e, numbers["TRUST_PROXY_HOPS"])
    <3> HIDE DEF numbers
    <3> QED BY <1>b, <1>2
  <2> HIDE DEF env, numbers, table
  <2> QED BY <2>1, <2>2, <1>a
<1>5. /\ env["DEMO_COMMANDS_PER_MINUTE"] \in 1 .. 60
      /\ env["TRUST_PROXY_HOPS"] \in 0 .. 10
  BY <1>2, <1>3, <1>4 DEF Parsed, Within, Variables
<1>6. \/ env["TRUST_PROXY_MODE"] = "hops" /\ e["TRUST_PROXY_MODE"] \in {Unset, "hops"}
      \/ env["TRUST_PROXY_MODE"] = "render-cloudflare" /\ e["RENDER"] = "true"
  BY <1>2, <1>3, <1>4 DEF TrustProxyMode, Variables
<1>7. Placed(d) /\ d.proxies \in Seq(Range(d.proxies))
  BY <1>1, HttpAssumption
<1> HIDE DEF env, numbers
<1>8. /\ s.mode = env["TRUST_PROXY_MODE"] /\ s.hops = env["TRUST_PROXY_HOPS"]
      /\ s.demoCommands = env["DEMO_COMMANDS_PER_MINUTE"] /\ s.proxies = d.proxies
  BY <1>1 DEF Started, env
<1>9. TrustedAsPlaced(s)
  <2>1. CASE env["TRUST_PROXY_MODE"] = "hops" /\ e["TRUST_PROXY_MODE"] \in {Unset, "hops"}
    BY <1>5, <1>7, <1>8, <2>1 DEF TrustedAsPlaced, Placed, env
  <2>2. CASE env["TRUST_PROXY_MODE"] = "render-cloudflare" /\ e["RENDER"] = "true"
    BY <1>7, <1>8, <2>2 DEF TrustedAsPlaced, Placed
  <2> QED BY <1>6, <2>1, <2>2
<1>10. s.demoCommands \in Nat
  BY <1>5, <1>8
<1>11. s.proxies \in Seq(Range(s.proxies))
  BY <1>7, <1>8, Zenon
<1> QED BY <1>9, <1>10, <1>11

\* A path begins with the proxies, from the nearest on, and behind them is the visitor.
BeginsWith(path, proxies, visitor) ==
  LET n == Len(proxies) IN
  /\ n \in Nat /\ Len(path) \in Nat /\ Len(path) > n
  /\ \A i \in 1 .. n : path[i] = proxies[n - i + 1]
  /\ path[n + 1] = visitor

\* What follows the middle of a sequence comes first when it is read backwards, and
\* the middle next.
LEMMA LastFirst ==
  ASSUME NEW S, NEW front \in Seq(S), NEW middle \in S, NEW back \in Seq(S)
  PROVE  BeginsWith(Reverse(front \o <<middle>> \o back), back, middle)
<1> DEFINE head  == front \o <<middle>>
           whole == head \o back
           n     == Len(back)
           k     == Len(front) + 1
           r     == Reverse(whole)
<1>1. n \in Nat /\ k \in Nat /\ k >= 1
  BY LenProperties
<1>2. /\ head \in Seq(S) /\ Len(head) = k /\ head[k] = middle
  BY ConcatProperties
<1> HIDE DEF head, k, n
<1>3. /\ whole \in Seq(S) /\ Len(whole) = k + n
      /\ whole[k] = middle
      /\ \A i \in 1 .. n : whole[k + i] = back[i]
  <2>1. \A i \in 1 .. k + n : whole[i] = IF i <= k THEN head[i] ELSE back[i - k]
    BY <1>1, <1>2, ConcatProperties DEF n
  <2>2. whole \in Seq(S) /\ Len(whole) = k + n
    BY <1>1, <1>2, ConcatProperties DEF n
  <2> HIDE DEF whole
  <2>3. ASSUME NEW i \in 1 .. n PROVE whole[k + i] = back[i]
    <3>1. k + i \in 1 .. k + n /\ ~(k + i <= k) /\ (k + i) - k = i
      BY <1>1
    <3> QED BY <2>1, <3>1
  <2>4. whole[k] = middle
    BY <1>1, <1>2, <2>1
  <2> QED BY <2>2, <2>3, <2>4
<1> HIDE DEF whole
<1>4. r = [i \in 1 .. k + n |-> whole[((k + n) - i) + 1]]
  BY <1>3 DEF Reverse
<1>5. Len(r) = k + n
  BY <1>1, <1>4
<1>6. ASSUME NEW i \in 1 .. n PROVE r[i] = back[n - i + 1]
  <2>1. i \in 1 .. k + n /\ ((k + n) - i) + 1 = k + (n - i + 1) /\ n - i + 1 \in 1 .. n
    BY <1>1
  <2> QED BY <1>3, <1>4, <2>1
<1>7. r[n + 1] = middle
  <2>1. n + 1 \in 1 .. k + n /\ ((k + n) - (n + 1)) + 1 = k
    BY <1>1
  <2> QED BY <1>3, <1>4, <2>1
<1>8. /\ Len(r) \in Nat /\ Len(r) > n
  BY <1>1, <1>5
<1> QED BY <1>1, <1>6, <1>7, <1>8 DEF BeginsWith, r, whole, head, n

\* Whatever a client writes into X-Forwarded-For, request.ip is where it comes from,
\* since the proxies in front are those the server trusts.
THEOREM AddressTold ==
  ASSUME NEW d \in Servers, NEW visitor \in Visitors, NEW forged \in Forged
  PROVE  ClientAddress(d, visitor, forged) = visitor
<1> DEFINE n    == Len(d.proxies)
           path == Path(d, visitor, forged)
<1>1. /\ forged \in Seq(Range(forged)) /\ d.proxies \in Seq(Range(d.proxies))
      /\ TrustedAsPlaced(d) /\ visitor \notin Edges
  BY SettingsAccepted, HttpAssumption
<1>2. /\ n \in Nat /\ Len(path) \in Nat /\ Len(path) > n
      /\ \A i \in 1 .. n : path[i] = d.proxies[n - i + 1]
      /\ path[n + 1] = visitor
  <2> DEFINE S == Range(forged) \cup Range(d.proxies) \cup {visitor}
  <2>1. forged \in Seq(S) /\ d.proxies \in Seq(S) /\ visitor \in S
    BY <1>1, SeqMonotonic
  <2> HIDE DEF S
  <2>2. BeginsWith(path, d.proxies, visitor)
    BY <2>1, LastFirst DEF Path
  <2> HIDE DEF path
  <2> QED BY <2>2 DEF BeginsWith
<1> DEFINE distrust == {i \in 1 .. Len(path) : ~Trusts(d, path[i], i - 1)}
<1> HIDE DEF path, n
<1>3. n + 1 \in distrust /\ \A i \in distrust : n + 1 <= i
  <2>1. CASE d.mode = "hops"
    <3>1. n = d.hops
      BY <1>1, <2>1 DEF TrustedAsPlaced, n
    <3> QED BY <1>1, <1>2, <2>1, <3>1 DEF Trusts
  <2>2. CASE d.mode = "render-cloudflare"
    <3>0. \/ Len(d.proxies) = 1
          \/ Len(d.proxies) = 2 /\ d.proxies[1] \in Edges
      BY <1>1, <2>2 DEF TrustedAsPlaced
    <3>1. n \in {1, 2} /\ (n = 2 => d.proxies[1] \in Edges)
      <4>1. n = Len(d.proxies)
        BY DEF n
      <4>2. CASE Len(d.proxies) = 1
        <5>1. n = 1
          BY <4>1, <4>2, Zenon
        <5> QED BY <5>1
      <4>3. CASE Len(d.proxies) = 2 /\ d.proxies[1] \in Edges
        <5>1. n = 2
          BY <4>1, <4>3, Zenon
        <5> QED BY <4>3, <5>1
      <4> QED BY <3>0, <4>2, <4>3, Zenon
    <3>2. n = 2 => path[2] \in Edges
      <4> SUFFICES ASSUME n = 2 PROVE path[2] \in Edges
        OBVIOUS
      <4>1. 2 \in 1 .. n /\ n - 2 + 1 = 1
        OBVIOUS
      <4>2. path[2] = d.proxies[n - 2 + 1]
        BY <1>2, <4>1
      <4> QED BY <3>1, <4>1, <4>2
    <3> QED BY <1>1, <1>2, <2>2, <3>1, <3>2 DEF Trusts, RenderCloudflareTrust
  <2> QED BY <1>1, <2>1, <2>2 DEF TrustedAsPlaced
<1>4. (CHOOSE i \in distrust : \A j \in distrust : i <= j) = n + 1
  BY <1>2, <1>3
<1> QED BY <1>2, <1>3, <1>4 DEF ClientAddress, path

-----------------------------------------------------------------------------
(* The inductive invariant.                                                *)

\* Stages an upload is in once its file may have been received; the last two are
\* those of its chain, the others awaits of a middleware.
Awaited  == {"storing", "discarding", "reading", "dropping", "cleaning"}
WithFile == Awaited \cup {"check", "upload"}

\* Stages that are reached by a user who is known, if the route asks for one.
Guarded == WithFile \cup {"receive", "handle"}

\* What may still come for a request on a route, by its user if known.
WellOrdered(todo, route, user) ==
  /\ todo \in Seq(Stages)
  /\ \A i \in 1 .. Len(todo) :
       /\ todo[i] \in Awaited => i = 1
       /\ todo[i] \in {"receive", "storing", "check"} => i < Len(todo)
       /\ todo[i] \in WithFile \cup {"receive"} =>
            \A j \in i + 1 .. Len(todo) : todo[j] \in {"check", "upload"}
       /\ todo[i] \in Guarded /\ route \notin Public /\ user = NoUser =>
            \E j \in 1 .. i - 1 : todo[j] = "authenticate"
       /\ todo[i] = "authenticate" => route \notin Public
       /\ todo[i] = "probe" => route \in Probes
       /\ todo[i] = "static" => route \in Web

\* A request is counted by where it comes from, or by its user.
Told(a) ==
  /\ a.route # "none" => a.ip = a.visitor /\ a.visitor \in Visitors
  /\ a.user # NoUser => a.route \notin Public
  /\ a.route = "none" => a = NoRequest

\* Where the file of a request is.
Kept(a, r, present, failed) ==
  /\ r \in present /\ a.todo # <<>> =>
       Head(a.todo) = "storing" \/ (Head(a.todo) \in WithFile /\ a.file)
  /\ r \in present /\ a.todo = <<>> => r \in failed
  /\ a.todo # <<>> /\ (a.file \/ Head(a.todo) = "storing") => r \in present

\* What a request has been answered.
Answered(a, r, present, effects) ==
  /\ a.status # 0 => a.todo = <<>>
  /\ a.outcome # 0 => a.status \in {0, a.outcome}
  /\ a.outcome # 0 /\ a.todo # <<>> => Head(a.todo) = "cleaning"
  /\ a.outcome = 0 /\ a.status \in {200, 302} => a.route \in Probes \cup Web
  /\ r \in effects => a.outcome \in {200, 500}
  /\ r \in present \cup effects /\ a.route \notin Public => a.user # NoUser
  /\ r \in present \cup effects => a.route # "none"

Good(a, r, present, effects, failed) ==
  /\ a \in Request
  /\ WellOrdered(a.todo, a.route, a.user)
  /\ Told(a)
  /\ Kept(a, r, present, failed)
  /\ Answered(a, r, present, effects)

\* A limiter has let through no more than its store has counted.
Counted == \A lk \in Limiters \X Keys : admitted[lk] <= hits[lk]

RequestsGood == \A r \in Requests : Good(request[r], r, files, done, broken)

WayInv == TypeOK /\ RequestsGood /\ Counted /\ LimitsHold

-----------------------------------------------------------------------------
(* What is still to come.                                                  *)

\* A middleware lets the request go on.
LEMMA TailOrdered ==
  ASSUME NEW todo, NEW route, NEW user, NEW known, WellOrdered(todo, route, user), todo # <<>>,
         known # NoUser \/ (known = user /\ Head(todo) # "authenticate")
  PROVE  /\ WellOrdered(Tail(todo), route, known)
         /\ Head(todo) \in WithFile \cup {"receive"} /\ Tail(todo) # <<>> =>
              Head(Tail(todo)) \in {"check", "upload"}
         /\ Head(todo) \in {"receive", "storing", "check"} => Tail(todo) # <<>>
<1> DEFINE rest == Tail(todo)
<1>1. /\ todo \in Seq(Stages) /\ Len(todo) \in Nat /\ Len(todo) >= 1 /\ Head(todo) = todo[1]
  BY DEF WellOrdered
<1>2. /\ rest \in Seq(Stages) /\ Len(rest) = Len(todo) - 1
      /\ \A i \in 1 .. Len(rest) : rest[i] = todo[i + 1] /\ i + 1 \in 1 .. Len(todo)
  BY <1>1, HeadTailProperties
<1> HIDE DEF rest
<1>3. ASSUME NEW i \in 1 .. Len(rest)
      PROVE  /\ rest[i] \notin Awaited
             /\ rest[i] \in {"receive", "storing", "check"} => i < Len(rest)
             /\ rest[i] = "authenticate" => route \notin Public
             /\ rest[i] = "probe" => route \in Probes
             /\ rest[i] = "static" => route \in Web
  BY <1>1, <1>2 DEF WellOrdered
<1>4. ASSUME NEW i \in 1 .. Len(rest), rest[i] \in WithFile \cup {"receive"},
             NEW j \in i + 1 .. Len(rest)
      PROVE  rest[j] \in {"check", "upload"}
  <2>1. /\ todo[i + 1] = rest[i] /\ todo[j + 1] = rest[j]
        /\ i + 1 \in 1 .. Len(todo) /\ j + 1 \in (i + 1) + 1 .. Len(todo)
    BY <1>1, <1>2
  <2> QED BY <1>4, <2>1 DEF WellOrdered
<1>5. ASSUME NEW i \in 1 .. Len(rest), rest[i] \in Guarded, route \notin Public, known = NoUser
      PROVE  \E j \in 1 .. i - 1 : rest[j] = "authenticate"
  <2>1. PICK j \in 1 .. (i + 1) - 1 : todo[j] = "authenticate"
    BY <1>1, <1>2, <1>5 DEF WellOrdered
  <2>2. j # 1
    BY <1>1, <1>5, <2>1
  <2>3. j - 1 \in 1 .. i - 1 /\ j - 1 \in 1 .. Len(rest) /\ (j - 1) + 1 = j
    BY <1>1, <1>2, <2>2
  <2>4. rest[j - 1] = todo[(j - 1) + 1]
    BY <1>2, <2>3
  <2> QED BY <2>1, <2>3, <2>4
<1>6. WellOrdered(rest, route, known)
  <2>1. \A i \in 1 .. Len(rest) : rest[i] \in Awaited => i = 1
    BY <1>3
  <2> QED BY <1>2, <1>3, <1>4, <1>5, <2>1 DEF WellOrdered
<1>7. ASSUME Head(todo) \in WithFile \cup {"receive"}, rest # <<>>
      PROVE  Head(rest) \in {"check", "upload"}
  <2>1. Len(rest) >= 1 /\ Len(rest) \in Nat /\ Head(rest) = rest[1] /\ rest[1] = todo[2]
        /\ 2 \in 1 + 1 .. Len(todo) /\ 1 \in 1 .. Len(todo)
    BY <1>1, <1>2, <1>7
  <2> QED BY <1>1, <1>7, <2>1 DEF WellOrdered
<1>8. ASSUME Head(todo) \in {"receive", "storing", "check"} PROVE rest # <<>>
  BY <1>1, <1>2, <1>8 DEF WellOrdered
<1> QED BY <1>6, <1>7, <1>8 DEF rest

\* A middleware goes on to a further await of its own.
LEMMA AwaitOrdered ==
  ASSUME NEW todo, NEW route, NEW user, WellOrdered(todo, route, user), todo # <<>>,
         Head(todo) \in WithFile \cup {"receive"}, NEW stage \in Awaited,
         stage = "storing" => Head(todo) = "receive"
  PROVE  /\ WellOrdered(<<stage>> \o Tail(todo), route, user)
         /\ <<stage>> \o Tail(todo) # <<>>
         /\ Head(<<stage>> \o Tail(todo)) = stage
<1> DEFINE rest == Tail(todo)
           next == <<stage>> \o rest
<1>1. /\ todo \in Seq(Stages) /\ Len(todo) \in Nat /\ Len(todo) >= 1 /\ Head(todo) = todo[1]
      /\ stage \in Stages /\ <<stage>> \in Seq(Stages)
  BY DEF WellOrdered, Stages, Guarded, WithFile, Awaited
<1>2. /\ rest \in Seq(Stages) /\ Len(rest) = Len(todo) - 1
      /\ \A i \in 1 .. Len(rest) : rest[i] = todo[i + 1]
  BY <1>1, HeadTailProperties
<1> HIDE DEF rest
<1>3. /\ next \in Seq(Stages) /\ Len(next) = Len(todo)
      /\ next[1] = stage
      /\ \A i \in 2 .. Len(next) : next[i] = todo[i]
  <2>1. /\ next \in Seq(Stages) /\ Len(next) = 1 + Len(rest)
        /\ \A i \in 1 .. 1 + Len(rest) : next[i] = IF i <= 1 THEN <<stage>>[i] ELSE rest[i - 1]
    BY <1>1, <1>2, ConcatProperties
  <2> HIDE DEF next
  <2>2. ASSUME NEW i \in 2 .. Len(next) PROVE next[i] = todo[i]
    <3>1. i \in 1 .. 1 + Len(rest) /\ ~(i <= 1) /\ i - 1 \in 1 .. Len(rest) /\ (i - 1) + 1 = i
      BY <1>1, <1>2, <2>1
    <3> QED BY <1>2, <2>1, <3>1
  <2> QED BY <1>1, <1>2, <2>1, <2>2
<1> HIDE DEF next
<1>4. \A j \in 2 .. Len(todo) : todo[j] \in {"check", "upload"}
  BY <1>1 DEF WellOrdered
<1>5. route \notin Public => user # NoUser
  BY <1>1 DEF WellOrdered, Guarded
<1>6. \A i \in 1 .. Len(next) : i = 1 \/ (i \in 2 .. Len(next) /\ next[i] \in {"check", "upload"})
  BY <1>1, <1>3, <1>4
<1>7. ASSUME NEW i \in 1 .. Len(next)
      PROVE  /\ next[i] \in Awaited => i = 1
             /\ next[i] \in {"receive", "storing", "check"} => i < Len(next)
             /\ next[i] \notin {"authenticate", "probe", "static"}
  <2>1. CASE i = 1
    BY <1>1, <1>3, <2>1 DEF WellOrdered, Awaited
  <2>2. CASE i \in 2 .. Len(next) /\ next[i] \in {"check", "upload"}
    <3>1. todo[i] = next[i] /\ i \in 1 .. Len(todo)
      BY <1>3, <2>2
    <3> QED BY <1>3, <2>2, <3>1 DEF WellOrdered, Awaited
  <2> QED BY <1>6, <2>1, <2>2
<1>8. \A i \in 1 .. Len(next) : \A j \in i + 1 .. Len(next) : next[j] \in {"check", "upload"}
  BY <1>3, <1>4
<1>9. WellOrdered(next, route, user)
  BY <1>3, <1>5, <1>7, <1>8 DEF WellOrdered
<1>10. next # <<>> /\ Head(next) = stage
  BY <1>1, <1>3
<1> QED BY <1>9, <1>10 DEF next, rest

\* A request ends, or is about to remove its file as the last thing it does.
LEMMA EndOrdered ==
  ASSUME NEW route, NEW user
  PROVE  /\ WellOrdered(<<>>, route, user)
         /\ user # NoUser \/ route \in Public => WellOrdered(<<"cleaning">>, route, user)
<1>1. WellOrdered(<<>>, route, user)
  BY DEF WellOrdered
<1>2. ASSUME user # NoUser \/ route \in Public PROVE WellOrdered(<<"cleaning">>, route, user)
  <2>1. <<"cleaning">> \in Seq(Stages) /\ Len(<<"cleaning">>) = 1 /\ <<"cleaning">>[1] = "cleaning"
    BY DEF Stages, Guarded, WithFile, Awaited
  <2> QED BY <1>2, <2>1 DEF WellOrdered
<1> QED BY <1>1, <1>2

\* Schemas stand between what admits a request and its controller.
LEMMA HandledOrdered ==
  ASSUME NEW route, NEW parts \in Seq({"params", "query", "body"}), NEW front,
         \/ front = <<"json", "authenticate", "limit">> /\ route \notin Public
         \/ front = <<"json", "authenticate">> /\ route \notin Public
         \/ front = <<"json", "limit">> /\ route \in Public
  PROVE  /\ WellOrdered(front \o parts \o <<"handle">>, route, NoUser)
         /\ front \o parts \o <<"handle">> # <<>>
         /\ Head(front \o parts \o <<"handle">>) = "json"
<1> DEFINE n     == Len(front)
           m     == Len(parts)
           begun == front \o parts
           last  == <<"handle">>
           chain == begun \o last
<1>1. /\ front \in Seq(Stages) /\ n \in Nat /\ n >= 2
      /\ \A i \in 1 .. n : front[i] \in {"json", "authenticate", "limit"}
      /\ front[1] = "json"
      /\ route \notin Public => front[2] = "authenticate"
      /\ route \in Public => \A i \in 1 .. n : front[i] # "authenticate"
  <2>1. CASE front = <<"json", "authenticate", "limit">>
    BY <2>1 DEF Stages
  <2>2. CASE front = <<"json", "authenticate">>
    BY <2>2 DEF Stages
  <2>3. CASE front = <<"json", "limit">>
    BY <2>3 DEF Stages
  <2> QED BY <2>1, <2>2, <2>3
<1>2. /\ parts \in Seq(Stages) /\ m \in Nat
      /\ \A i \in 1 .. m : parts[i] \in {"params", "query", "body"}
  <2>1. {"params", "query", "body"} \subseteq Stages
    BY DEF Stages
  <2> QED BY <2>1, SeqMonotonic, ElementOfSeq, LenProperties
<1>3. /\ begun \in Seq(Stages) /\ Len(begun) = n + m
      /\ \A i \in 1 .. n + m : begun[i] = IF i <= n THEN front[i] ELSE parts[i - n]
  BY <1>1, <1>2, ConcatProperties
<1>4. last \in Seq(Stages) /\ Len(last) = 1 /\ last[1] = "handle"
  BY DEF Stages, Guarded
<1> HIDE DEF begun, last, n, m
<1>5. /\ chain \in Seq(Stages) /\ Len(chain) = n + m + 1
      /\ \A i \in 1 .. n + m + 1 : chain[i] = IF i <= n + m THEN begun[i] ELSE last[i - (n + m)]
  <2>1. /\ chain \in Seq(Stages) /\ Len(chain) = Len(begun) + Len(last)
        /\ \A i \in 1 .. Len(begun) + Len(last) :
             chain[i] = IF i <= Len(begun) THEN begun[i] ELSE last[i - Len(begun)]
    BY <1>3, <1>4, ConcatProperties
  <2> HIDE DEF chain
  <2>2. Len(begun) + Len(last) = n + m + 1
    BY <1>1, <1>2, <1>3, <1>4
  <2> QED BY <1>3, <2>1, <2>2
<1> HIDE DEF chain
<1>6. ASSUME NEW i \in 1 .. Len(chain)
      PROVE  \/ i \in 1 .. n /\ chain[i] = front[i]
             \/ chain[i] \in {"params", "query", "body"}
             \/ i = Len(chain) /\ chain[i] = "handle"
  <2>1. CASE i <= n
    BY <1>1, <1>2, <1>3, <1>5, <2>1
  <2>2. CASE n < i /\ i <= n + m
    <3>1. i - n \in 1 .. m
      BY <1>1, <1>2, <2>2
    <3> QED BY <1>1, <1>2, <1>3, <1>5, <2>2, <3>1
  <2>3. CASE i = n + m + 1
    <3>1. ~(i <= n + m) /\ i - (n + m) = 1 /\ i = Len(chain)
      BY <1>1, <1>2, <1>5, <2>3
    <3> QED BY <1>4, <1>5, <3>1
  <2>4. i \in 1 .. n + m + 1 /\ n \in Nat /\ m \in Nat
    BY <1>1, <1>2, <1>5
  <2>5. i <= n \/ (n < i /\ i <= n + m) \/ i = n + m + 1
    BY <2>4
  <2> QED BY <2>1, <2>2, <2>3, <2>5
<1>7. ASSUME NEW i \in 1 .. Len(chain)
      PROVE  /\ chain[i] \notin WithFile \cup {"receive", "probe", "static"}
             /\ chain[i] = "authenticate" => route \notin Public
             /\ chain[i] \in Guarded => i = Len(chain)
  BY <1>1, <1>6 DEF Guarded, WithFile, Awaited
<1>8. /\ 2 \in 1 .. n /\ 2 < Len(chain) /\ Len(chain) \in Nat
      /\ chain[2] = front[2] /\ chain[1] = "json" /\ Head(chain) = chain[1]
  BY <1>1, <1>2, <1>3, <1>5
<1>9. ASSUME NEW i \in 1 .. Len(chain), chain[i] \in Guarded, route \notin Public
      PROVE  \E j \in 1 .. i - 1 : chain[j] = "authenticate"
  BY <1>1, <1>7, <1>8, <1>9
<1>10. WellOrdered(chain, route, NoUser)
  <2>1. \A i \in 1 .. Len(chain) : chain[i] \notin Awaited /\ chain[i] \notin {"storing", "check"}
    BY <1>7 DEF WithFile, Awaited
  <2> QED BY <1>5, <1>7, <1>9, <2>1 DEF WellOrdered
<1> QED BY <1>8, <1>10 DEF chain, begun, last

\* The chain of every route.
LEMMA ChainOrdered ==
  ASSUME NEW d, NEW route \in AllRoutes
  PROVE  /\ WellOrdered(Chain(d, route), route, NoUser) /\ Chain(d, route) # <<>>
         /\ Head(Chain(d, route)) \in {"json", "accept", "limit"}
<1> USE DEF AllRoutes, Unlimited, Limited, Demo, Public, Probes, Web
<1> DEFINE Parts == {<<"body">>, <<"query">>, <<"params", "query">>, <<"params">>,
                     <<"params", "body">>, <<>>}
<1>1. Parts \subseteq Seq({"params", "query", "body"})
  OBVIOUS
<1>2. route \in Unlimited \cup Limited \cup Public => Validated(route) \in Parts
  BY DEF Validated
<1> HIDE DEF Parts
<1>3. CASE Lacks(d, route)
  <2>1. Chain(d, route) = <<"json", "missing">>
    BY <1>3 DEF Chain
  <2> QED BY <2>1 DEF WellOrdered, Stages, Guarded, WithFile, Awaited
<1>4. CASE route = "upload"
  <2>1. Chain(d, route) = <<"json", "authenticate", "limit", "receive", "check", "upload">>
    BY <1>4 DEF Chain, Lacks
  <2> DEFINE c == <<"json", "authenticate", "limit", "receive", "check", "upload">>
  <2>2. /\ c \in Seq(Stages) /\ Len(c) = 6
        /\ c[1] = "json" /\ c[2] = "authenticate" /\ c[3] = "limit"
        /\ c[4] = "receive" /\ c[5] = "check" /\ c[6] = "upload"
    BY DEF Stages, Guarded, WithFile, Awaited
  <2> HIDE DEF c
  <2>3. \A i \in 1 .. 6 : i \in {1, 2, 3, 4, 5, 6}
    OBVIOUS
  <2>5. /\ \A i \in 1 .. 6 : c[i] \in WithFile \cup {"receive"} <=> i \in {4, 5, 6}
        /\ \A i \in 1 .. 6 : c[i] \notin Awaited
        /\ \A i \in 1 .. 6 : c[i] \in {"receive", "storing", "check"} => i < 6
        /\ \A i \in 1 .. 6 : c[i] \in Guarded => 2 \in 1 .. i - 1
        /\ \A i \in 1 .. 6 : c[i] \notin {"probe", "static"}
    BY <2>2, <2>3 DEF Guarded, WithFile, Awaited
  <2>6. \A i \in {4, 5, 6} : \A j \in i + 1 .. 6 : c[j] \in {"check", "upload"}
    <3>1. \A i \in {4, 5, 6} : \A j \in i + 1 .. 6 : j \in {5, 6}
      OBVIOUS
    <3> QED BY <2>2, <3>1
  <2>4. WellOrdered(c, route, NoUser) /\ c # <<>> /\ Head(c) = c[1]
    BY <1>4, <2>2, <2>5, <2>6 DEF WellOrdered
  <2> QED BY <2>1, <2>2, <2>4 DEF c
<1>5. CASE ~Lacks(d, route) /\ route \in Limited
  <2>1. Chain(d, route) = <<"json", "authenticate", "limit">> \o Validated(route) \o <<"handle">>
    BY <1>5 DEF Chain
  <2> QED BY <1>1, <1>2, <1>5, <2>1, HandledOrdered
<1>6. CASE route \in Public
  <2>1. Chain(d, route) = <<"json", "limit">> \o Validated(route) \o <<"handle">>
    BY <1>6 DEF Chain, Lacks
  <2> QED BY <1>1, <1>2, <1>6, <2>1, HandledOrdered
<1>7. CASE ~Lacks(d, route) /\ route \in Unlimited
  <2>1. Chain(d, route) = <<"json", "authenticate">> \o Validated(route) \o <<"handle">>
    BY <1>7 DEF Chain
  <2> QED BY <1>1, <1>2, <1>7, <2>1, HandledOrdered
<1>8. CASE route = "health"
  <2>1. Chain(d, route) = <<"accept", "limit", "probe">>
    BY <1>8 DEF Chain, Lacks
  <2> DEFINE c == <<"accept", "limit", "probe">>
  <2>2. /\ c \in Seq(Stages) /\ Len(c) = 3
        /\ c[1] = "accept" /\ c[2] = "limit" /\ c[3] = "probe"
    BY DEF Stages, Guarded, WithFile, Awaited
  <2> HIDE DEF c
  <2>3. \A i \in 1 .. 3 : i \in {1, 2, 3}
    OBVIOUS
  <2>4. WellOrdered(c, route, NoUser) /\ c # <<>> /\ Head(c) = c[1]
    BY <1>8, <2>2, <2>3 DEF WellOrdered, Guarded, WithFile, Awaited
  <2> QED BY <2>1, <2>2, <2>4 DEF c
<1>9. CASE route = "version"
  <2>1. Chain(d, route) = <<"limit", "probe">>
    BY <1>9 DEF Chain, Lacks
  <2> DEFINE c == <<"limit", "probe">>
  <2>2. /\ c \in Seq(Stages) /\ Len(c) = 2
        /\ c[1] = "limit" /\ c[2] = "probe"
    BY DEF Stages, Guarded, WithFile, Awaited
  <2> HIDE DEF c
  <2>3. \A i \in 1 .. 2 : i \in {1, 2}
    OBVIOUS
  <2>4. WellOrdered(c, route, NoUser) /\ c # <<>> /\ Head(c) = c[1]
    BY <1>9, <2>2, <2>3 DEF WellOrdered, Guarded, WithFile, Awaited
  <2> QED BY <2>1, <2>2, <2>4 DEF c
<1>10. CASE ~Lacks(d, route) /\ route \in Web
  <2>1. Chain(d, route) = <<"json", "static", "missing">>
    BY <1>10 DEF Chain
  <2> DEFINE c == <<"json", "static", "missing">>
  <2>2. /\ c \in Seq(Stages) /\ Len(c) = 3
        /\ c[1] = "json" /\ c[2] = "static" /\ c[3] = "missing"
    BY DEF Stages, Guarded, WithFile, Awaited
  <2> HIDE DEF c
  <2>3. \A i \in 1 .. 3 : i \in {1, 2, 3}
    OBVIOUS
  <2>4. WellOrdered(c, route, NoUser) /\ c # <<>> /\ Head(c) = c[1]
    BY <1>10, <2>2, <2>3 DEF WellOrdered, Guarded, WithFile, Awaited
  <2> QED BY <2>1, <2>2, <2>4 DEF c
<1> QED BY <1>3, <1>4, <1>5, <1>6, <1>7, <1>8, <1>9, <1>10 DEF Lacks

-----------------------------------------------------------------------------
(* What a step makes of the record of its request.                         *)

\* A request under way is one of a route, not answered yet.
LEMMA UnderWay ==
  ASSUME NEW a, NEW r, NEW present, NEW effects, NEW failed,
         Good(a, r, present, effects, failed), a.todo # <<>>
  PROVE  /\ a.route # "none" /\ a.route \in Routes
         /\ a.status = 0
         /\ Head(a.todo) \in Stages
         /\ Head(a.todo) = a.todo[1] /\ 1 \in 1 .. Len(a.todo) /\ Len(a.todo) \in Nat
         /\ Head(a.todo) \in Guarded /\ a.route \notin Public => a.user # NoUser
<1>1. a.todo \in Seq(Stages) /\ a \in Request
  BY DEF Good, WellOrdered
<1>2. Head(a.todo) = a.todo[1] /\ 1 \in 1 .. Len(a.todo) /\ Head(a.todo) \in Stages
      /\ Len(a.todo) \in Nat
  BY <1>1
<1>3. a.route # "none"
  BY DEF Good, Told, NoRequest
<1>4. a.route \in Routes
  BY <1>1, <1>3 DEF Request
<1>5. a.status = 0
  BY DEF Good, Answered
<1>6. Head(a.todo) \in Guarded /\ a.route \notin Public => a.user # NoUser
  <2>1. WellOrdered(a.todo, a.route, a.user)
    BY DEF Good
  <2>2. ~\E j \in 1 .. 1 - 1 : a.todo[j] = "authenticate"
    OBVIOUS
  <2> QED BY <1>2, <2>1, <2>2 DEF WellOrdered
<1> QED BY <1>2, <1>3, <1>4, <1>5, <1>6

\* It goes on to the next middleware.
LEMMA Onward ==
  ASSUME NEW a, NEW r, NEW present, NEW effects, NEW failed,
         Good(a, r, present, effects, failed), a.todo # <<>>,
         Head(a.todo) \notin Awaited \cup {"authenticate", "upload"}
  PROVE  Good([a EXCEPT !.todo = Tail(@)], r, present, effects, failed)
<1> DEFINE b == [a EXCEPT !.todo = Tail(@)]
<1>1. /\ a \in Request /\ WellOrdered(a.todo, a.route, a.user) /\ Told(a)
      /\ Kept(a, r, present, failed) /\ Answered(a, r, present, effects)
  BY DEF Good
<1>2. /\ WellOrdered(Tail(a.todo), a.route, a.user)
      /\ Head(a.todo) = "check" => /\ Tail(a.todo) # <<>>
                                  /\ Head(Tail(a.todo)) \in {"check", "upload"}
  <2>1. a.user = a.user /\ Head(a.todo) # "authenticate"
    OBVIOUS
  <2> QED BY <1>1, <2>1, TailOrdered DEF WithFile
<1>3. Tail(a.todo) # <<>> => Head(Tail(a.todo)) \notin Awaited
  <2>1. a.todo \in Seq(Stages)
    BY <1>1 DEF WellOrdered
  <2>2. ASSUME Tail(a.todo) # <<>>
        PROVE  2 \in 1 .. Len(a.todo) /\ Head(Tail(a.todo)) = a.todo[2]
    BY <2>1, <2>2
  <2> QED BY <1>1, <2>2 DEF WellOrdered
<1>4. /\ b.todo = Tail(a.todo) /\ b.route = a.route /\ b.user = a.user /\ b.file = a.file
      /\ b.ip = a.ip /\ b.visitor = a.visitor /\ b.outcome = a.outcome /\ b.status = a.status
      /\ b \in Request
  <2>1. Tail(a.todo) \in Seq(Stages)
    BY <1>2 DEF WellOrdered
  <2> QED BY <1>1, <2>1 DEF Request
<1>5. a.route # "none" /\ a.status = 0
  BY UnderWay
<1> HIDE DEF b
<1>6. Told(b)
  BY <1>1, <1>4, <1>5 DEF Told
<1>7. Kept(b, r, present, failed)
  <2>1. r \in present => Head(a.todo) = "check" /\ a.file
    BY <1>1 DEF Kept, WithFile, Awaited
  <2>2. Head(b.todo) = "storing" => b.todo = <<>>
    BY <1>3, <1>4 DEF Awaited
  <2> QED BY <1>1, <1>2, <1>4, <2>1, <2>2 DEF Kept, WithFile
<1>8. Answered(b, r, present, effects)
  BY <1>1, <1>4, <1>5 DEF Answered, Awaited
<1> QED BY <1>2, <1>4, <1>6, <1>7, <1>8 DEF Good, b

\* It is answered: a file that stays behind is accounted for.
LEMMA Ending ==
  ASSUME NEW a, NEW r, NEW present, NEW effects, NEW failed, NEW left, NEW lost,
         Good(a, r, present, effects, failed), a.todo # <<>>,
         NEW status \in Statuses,
         r \in left => r \in present /\ r \in lost,
         a.outcome # 0 => status = a.outcome,
         a.outcome = 0 /\ status \in {200, 302} => a.route \in Probes \cup Web
  PROVE  Good([a EXCEPT !.todo = <<>>, !.status = status], r, left, effects, lost)
<1> DEFINE b == [a EXCEPT !.todo = <<>>, !.status = status]
<1>1. /\ a \in Request /\ Told(a) /\ Answered(a, r, present, effects)
      /\ a.route # "none"
  BY UnderWay DEF Good
<1>2. /\ b.todo = <<>> /\ b.route = a.route /\ b.user = a.user /\ b.file = a.file
      /\ b.ip = a.ip /\ b.visitor = a.visitor /\ b.outcome = a.outcome /\ b.status = status
      /\ b \in Request
  <2>1. <<>> \in Seq(Stages)
    OBVIOUS
  <2> QED BY <1>1, <2>1 DEF Request
<1> HIDE DEF b
<1>3. WellOrdered(b.todo, b.route, b.user)
  BY <1>2, EndOrdered
<1>4. Told(b) /\ Kept(b, r, left, lost) /\ Answered(b, r, left, effects)
  BY <1>1, <1>2 DEF Told, Kept, Answered
<1> QED BY <1>2, <1>3, <1>4 DEF Good, b

\* It goes on to another await of its middleware.
LEMMA Awaiting ==
  ASSUME NEW a, NEW r, NEW present, NEW effects, NEW failed, NEW there,
         Good(a, r, present, effects, failed), a.todo # <<>>,
         NEW stage \in Awaited \ {"cleaning"},
         IF stage = "storing" THEN Head(a.todo) = "receive" /\ r \in there
         ELSE Head(a.todo) \in {"check", "upload"} /\ a.file /\ there = present
  PROVE  Good([a EXCEPT !.todo = <<stage>> \o Tail(@)], r, there, effects, failed)
<1> DEFINE b == [a EXCEPT !.todo = <<stage>> \o Tail(@)]
<1>1. /\ a \in Request /\ WellOrdered(a.todo, a.route, a.user) /\ Told(a)
      /\ Kept(a, r, present, failed) /\ Answered(a, r, present, effects)
      /\ a.route # "none" /\ a.status = 0
  BY UnderWay DEF Good
<1>2. Head(a.todo) \in WithFile \cup {"receive"} /\ (stage = "storing" => Head(a.todo) = "receive")
  BY DEF WithFile
<1> DEFINE next == <<stage>> \o Tail(a.todo)
<1>3. WellOrdered(next, a.route, a.user) /\ next # <<>> /\ Head(next) = stage
  BY <1>1, <1>2, AwaitOrdered
<1> HIDE DEF next
<1>4. /\ b.todo = next /\ b.route = a.route /\ b.user = a.user /\ b.file = a.file
      /\ b.ip = a.ip /\ b.visitor = a.visitor /\ b.outcome = a.outcome /\ b.status = a.status
      /\ b \in Request
  <2>1. next \in Seq(Stages)
    BY <1>3 DEF WellOrdered
  <2> QED BY <1>1, <2>1 DEF Request, next
<1> HIDE DEF b
<1>5. r \in there
  BY <1>1 DEF Kept
<1>6. a.route \notin Public => a.user # NoUser
  BY <1>2, UnderWay DEF Guarded
<1>7. a.outcome = 0
  BY <1>1, <1>2 DEF Answered, Awaited
<1>8. Told(b) /\ Kept(b, r, there, failed) /\ Answered(b, r, there, effects)
  BY <1>1, <1>3, <1>4, <1>5, <1>6, <1>7 DEF Told, Kept, Answered, WithFile
<1> QED BY <1>3, <1>4, <1>8 DEF Good, b

-----------------------------------------------------------------------------
(* The actions.                                                            *)

\* What the limiters' stores hold are counts.
Tallies ==
  /\ hits \in [Limiters \X Keys -> Nat]
  /\ admitted \in [Limiters \X Keys -> Nat]

\* A step of one request leaves the others as they were.
LEMMA OthersStay ==
  ASSUME TypeOK, RequestsGood, NEW r \in Requests, NEW b,
         request' = [request EXCEPT ![r] = b],
         files' \ {r} = files \ {r}, done' \ {r} = done \ {r}, broken \subseteq broken',
         files' \subseteq Requests, done' \subseteq Requests, broken' \subseteq Requests,
         Good(b, r, files', done', broken'),
         UNCHANGED deployment, Tallies'
  PROVE  TypeOK' /\ RequestsGood'
<1>1. request'[r] = b /\ \A s \in Requests \ {r} : request'[s] = request[s]
  BY DEF TypeOK
<1>2. RequestsGood'
  <2> SUFFICES ASSUME NEW s \in Requests PROVE Good(request'[s], s, files', done', broken')
    BY DEF RequestsGood
  <2>1. CASE s = r
    BY <1>1, <2>1
  <2>2. CASE s # r
    <3>1. Good(request[s], s, files, done, broken)
      BY DEF RequestsGood
    <3>2. (s \in files' <=> s \in files) /\ (s \in done' <=> s \in done)
          /\ (s \in broken => s \in broken')
      BY <2>2
    <3>3. request'[s] = request[s]
      BY <1>1, <2>2
    <3> QED BY <3>1, <3>2, <3>3 DEF Good, Kept, Answered
  <2> QED BY <2>1, <2>2
<1>3. b \in Request
  BY DEF Good
<1>4. request' \in [Requests -> Request]
  BY <1>3 DEF TypeOK
<1> QED BY <1>2, <1>4 DEF TypeOK, Tallies

\* next()
LEMMA GoesOnGood ==
  ASSUME TypeOK, RequestsGood, NEW r \in Requests, Running(r), GoesOn(r),
         Head(request[r].todo) \notin Awaited \cup {"authenticate", "upload"},
         UNCHANGED <<deployment, files, done, broken>>, Tallies'
  PROVE  TypeOK' /\ RequestsGood'
<1>1. Good(request[r], r, files, done, broken) /\ request[r].todo # <<>>
  BY DEF RequestsGood, Running
<1> DEFINE b == [request[r] EXCEPT !.todo = Tail(@)]
<1>2. Good(b, r, files, done, broken)
  BY <1>1, Onward
<1>3. request' = [request EXCEPT ![r] = b]
  BY DEF GoesOn, TypeOK
<1> HIDE DEF b
<1> QED BY <1>2, <1>3, OthersStay DEF TypeOK

\* A response is sent, and a file left only with a reason.
LEMMA AnswersGood ==
  ASSUME TypeOK, RequestsGood, NEW r \in Requests, Running(r), NEW status \in Statuses,
         Answers(r, status),
         files' \in {files, files \ {r}}, broken' \in {broken, broken \cup {r}},
         r \in files' => r \in broken',
         IF Head(request[r].todo) = "cleaning" THEN status = request[r].outcome
         ELSE status \in {200, 302} => request[r].route \in Probes \cup Web,
         UNCHANGED <<deployment, done>>, Tallies'
  PROVE  TypeOK' /\ RequestsGood'
<1>1. Good(request[r], r, files, done, broken) /\ request[r].todo # <<>>
  BY DEF RequestsGood, Running
<1> DEFINE b == [request[r] EXCEPT !.todo = <<>>, !.status = status]
<1>2. Good(b, r, files', done, broken')
  <2>1. Answered(request[r], r, files, done)
    BY <1>1 DEF Good
  <2>2. request[r].outcome # 0 => status = request[r].outcome
    BY <1>1, <2>1 DEF Answered
  <2>3. request[r].outcome = 0 /\ status \in {200, 302} => request[r].route \in Probes \cup Web
    OBVIOUS
  <2>4. r \in files' => r \in files /\ r \in broken'
    OBVIOUS
  <2> QED BY <1>1, <2>2, <2>3, <2>4, Ending
<1>3. request' = [request EXCEPT ![r] = b]
  BY DEF Answers, TypeOK
<1> HIDE DEF b
<1>4. /\ files' \ {r} = files \ {r} /\ broken \subseteq broken'
      /\ files' \subseteq Requests /\ broken' \subseteq Requests
  BY DEF TypeOK
<1> QED BY <1>2, <1>3, <1>4, OthersStay DEF TypeOK

\* A further await.
LEMMA AwaitsGood ==
  ASSUME TypeOK, RequestsGood, NEW r \in Requests, Running(r),
         NEW stage \in Awaited \ {"cleaning"}, Awaits(r, stage),
         IF stage = "storing" THEN Head(request[r].todo) = "receive" /\ files' = files \cup {r}
         ELSE Head(request[r].todo) \in {"check", "upload"} /\ request[r].file /\ files' = files,
         UNCHANGED <<deployment, done, broken>>, Tallies'
  PROVE  TypeOK' /\ RequestsGood'
<1>1. Good(request[r], r, files, done, broken) /\ request[r].todo # <<>>
  BY DEF RequestsGood, Running
<1> DEFINE b == [request[r] EXCEPT !.todo = <<stage>> \o Tail(@)]
<1>2. Good(b, r, files', done, broken)
  <2>1. IF stage = "storing" THEN Head(request[r].todo) = "receive" /\ r \in files'
        ELSE Head(request[r].todo) \in {"check", "upload"} /\ request[r].file /\ files' = files
    OBVIOUS
  <2> QED BY <1>1, <2>1, Awaiting
<1>3. request' = [request EXCEPT ![r] = b]
  BY DEF Awaits, TypeOK
<1> HIDE DEF b
<1>4. files' \ {r} = files \ {r} /\ files' \subseteq Requests
  BY DEF TypeOK
<1> QED BY <1>2, <1>3, <1>4, OthersStay DEF TypeOK

\* Any step but those of the limiters leaves the counts.
LEMMA CountsStay ==
  ASSUME TypeOK, Counted, LimitsHold, UNCHANGED <<deployment, hits, admitted>>
  PROVE  Tallies' /\ Counted' /\ LimitsHold'
BY DEF TypeOK, Tallies, Counted, LimitsHold, Most

\* A request nobody has sent.
LEMMA NothingAsked ==
  /\ NoRequest \in Request
  /\ NoRequest.route = "none" /\ NoRequest.todo = <<>> /\ NoRequest.user = NoUser
  /\ NoRequest.file = FALSE /\ NoRequest.outcome = 0 /\ NoRequest.status = 0
<1> DEFINE nothing == <<>>
<1>1. nothing \in Seq(Stages)
  OBVIOUS
<1> HIDE DEF nothing
<1>2. NoRequest = [route |-> "none", todo |-> nothing, token |-> NoUser, visitor |-> NoUser,
                   ip |-> NoUser, user |-> NoUser, file |-> FALSE, outcome |-> 0, status |-> 0]
  BY DEF NoRequest, nothing
<1>3. /\ NoRequest.route = "none" /\ NoRequest.todo = nothing /\ NoRequest.user = NoUser
      /\ NoRequest.file = FALSE /\ NoRequest.outcome = 0 /\ NoRequest.status = 0
  BY <1>2
<1>4. NoRequest \in Request
  BY <1>1, <1>2 DEF Request, Statuses
<1> QED BY <1>3, <1>4 DEF nothing

\* Nobody is counted before or beside the route that asks for it.
LEMMA ArrivesKeeps ==
  ASSUME WayInv, NEW r \in Requests, NEW route \in Routes, NEW token \in Users \cup {NoUser},
         NEW visitor \in Visitors, NEW forged \in Forged, Arrives(r, route, token, visitor, forged)
  PROVE  WayInv'
<1> USE DEF WayInv
<1> DEFINE chain == Chain(deployment, route)
           ip    == ClientAddress(deployment, visitor, forged)
           b     == [NoRequest EXCEPT !.route = route, !.todo = chain, !.token = token,
                                      !.visitor = visitor, !.ip = ip]
<1>1. /\ request' = [request EXCEPT ![r] = b] /\ request[r].route = "none"
      /\ UNCHANGED <<deployment, files, hits, done, admitted, broken>>
  BY DEF Arrives
<1>2. ip = visitor /\ deployment \in Servers
  BY AddressTold DEF TypeOK
<1>3. WellOrdered(chain, route, NoUser) /\ chain # <<>> /\ route \in AllRoutes
  BY ChainOrdered, HttpAssumption
<1>4. Head(chain) \in {"json", "accept", "limit"}
  BY <1>3, ChainOrdered
<1> HIDE DEF chain, ip
<1>5. /\ NoRequest \in Request
      /\ NoRequest.user = NoUser /\ NoRequest.file = FALSE
      /\ NoRequest.outcome = 0 /\ NoRequest.status = 0
  BY NothingAsked
<1>6. visitor \in Addresses /\ chain \in Seq(Stages)
  BY <1>3 DEF Addresses, WellOrdered
<1>7. r \notin files \cup done
  BY <1>1 DEF RequestsGood, Good, Answered
<1>8. /\ b.route = route /\ b.todo = chain /\ b.user = NoUser /\ b.file = FALSE /\ b.outcome = 0
      /\ b.status = 0 /\ b.ip = visitor /\ b.visitor = visitor
      /\ b \in Request
  BY <1>2, <1>5, <1>6 DEF Request
<1> HIDE DEF b
<1>9. route # "none"
  BY <1>3 DEF AllRoutes, Unlimited, Limited, Public, Probes, Web
<1>10. Told(b) /\ Kept(b, r, files, broken) /\ Answered(b, r, files, done)
  BY <1>4, <1>7, <1>8, <1>9 DEF Told, Kept, Answered
<1>11. Good(b, r, files', done', broken')
  BY <1>1, <1>3, <1>8, <1>10 DEF Good
<1>12. Tallies' /\ Counted' /\ LimitsHold'
  BY <1>1, CountsStay
<1>13. TypeOK' /\ RequestsGood'
  BY <1>1, <1>11, <1>12, OthersStay DEF TypeOK
<1> QED BY <1>12, <1>13

\* Before its file is received a request has none.
LEMMA NoFileYet ==
  ASSUME RequestsGood, NEW r \in Requests, Running(r), Head(request[r].todo) \notin WithFile
  PROVE  r \notin files
BY DEF RequestsGood, Good, Kept, Running, WithFile, Awaited

\* The middlewares that touch nothing but their request.
LEMMA MiddlewareKeeps ==
  ASSUME WayInv, NEW r \in Requests,
         \/ Json(r) \/ Validate(r) \/ Missing(r) \/ Accept(r) \/ Probe(r) \/ Static(r)
  PROVE  WayInv'
<1> USE DEF WayInv
<1>1. UNCHANGED <<deployment, files, hits, done, admitted, broken>>
  BY DEF Json, Validate, Missing, Accept, Probe, Static
<1>2. Tallies' /\ Counted' /\ LimitsHold'
  BY <1>1, CountsStay
<1>3. /\ Running(r)
      /\ Head(request[r].todo) \in {"json", "params", "query", "body", "missing", "accept", "probe",
                                   "static"}
  BY DEF Json, Validate, Missing, Accept, Probe, Static, At
<1>4. /\ Head(request[r].todo) \notin WithFile \cup {"authenticate"}
      /\ Head(request[r].todo) \notin Awaited
      /\ r \notin files
  BY <1>3, NoFileYet DEF WithFile, Awaited
<1>5. \/ GoesOn(r)
      \/ \E status \in {400, 404, 500, 503} : Answers(r, status)
      \/ \E status \in {200, 302, 503} :
           Answers(r, status) /\ Head(request[r].todo) \in {"probe", "static"}
  BY DEF Json, Validate, Missing, Accept, Probe, Static, At
<1>6. CASE GoesOn(r)
  <2>1. Head(request[r].todo) \notin Awaited \cup {"authenticate", "upload"}
    BY <1>3, <1>4
  <2>2. TypeOK' /\ RequestsGood'
    BY <1>1, <1>2, <1>3, <1>6, <2>1, GoesOnGood
  <2> QED BY <1>2, <2>2
<1>7. ASSUME NEW status \in Statuses, Answers(r, status),
             status \in {200, 302} => request[r].route \in Probes \cup Web
      PROVE  WayInv'
  <2>1. files' \in {files, files \ {r}} /\ broken' \in {broken, broken \cup {r}}
    BY <1>1
  <2>2. r \in files' => r \in broken'
    BY <1>1, <1>4
  <2>3. Head(request[r].todo) # "cleaning"
    BY <1>3
  <2>4. TypeOK' /\ RequestsGood'
    BY <1>1, <1>2, <1>3, <1>7, <2>1, <2>2, <2>3, AnswersGood
  <2> QED BY <1>2, <2>4
<1>8. Head(request[r].todo) \in {"probe", "static"} => request[r].route \in Probes \cup Web
  <2>1. Good(request[r], r, files, done, broken) /\ request[r].todo # <<>>
    BY <1>3 DEF RequestsGood, Running
  <2>2. /\ WellOrdered(request[r].todo, request[r].route, request[r].user)
        /\ Head(request[r].todo) = request[r].todo[1] /\ 1 \in 1 .. Len(request[r].todo)
    BY <2>1, UnderWay DEF Good
  <2> QED BY <2>2 DEF WellOrdered
<1> QED BY <1>5, <1>6, <1>7, <1>8 DEF Statuses

\* A user becomes known, once and for all.
LEMMA AuthenticateKeeps ==
  ASSUME WayInv, NEW r \in Requests, Authenticate(r)
  PROVE  WayInv'
<1> USE DEF WayInv
<1> DEFINE a == request[r]
           b == [a EXCEPT !.todo = Rest(r), !.user = a.token]
<1>1. /\ UNCHANGED <<deployment, files, hits, done, admitted, broken>>
      /\ Running(r) /\ Head(a.todo) = "authenticate"
  BY DEF Authenticate, At
<1>2. Tallies' /\ Counted' /\ LimitsHold'
  BY <1>1, CountsStay
<1>3. r \notin files
  BY <1>1, NoFileYet DEF WithFile, Awaited
<1>4. Good(a, r, files, done, broken) /\ a.todo # <<>>
  BY <1>1 DEF RequestsGood, Running
<1>5. CASE Answers(r, 401)
  <2>1. TypeOK' /\ RequestsGood'
    BY <1>1, <1>2, <1>3, <1>5, AnswersGood DEF Statuses
  <2> QED BY <1>2, <2>1
<1>6. CASE a.token # NoUser /\ request' = [request EXCEPT ![r] = b]
  <2>1. /\ a \in Request /\ WellOrdered(a.todo, a.route, a.user) /\ Told(a)
        /\ Kept(a, r, files, broken) /\ Answered(a, r, files, done)
        /\ a.route # "none" /\ a.status = 0 /\ a.route \notin Public
    <3>1. /\ a.route # "none" /\ a.status = 0
          /\ Head(a.todo) = a.todo[1] /\ 1 \in 1 .. Len(a.todo)
      BY <1>4, UnderWay
    <3> QED BY <1>1, <1>4, <3>1 DEF Good, WellOrdered
  <2>2. WellOrdered(Tail(a.todo), a.route, a.token)
    BY <1>4, <1>6, <2>1, TailOrdered
  <2>3. Tail(a.todo) # <<>> => Head(Tail(a.todo)) \notin Awaited
    <3>1. a.todo \in Seq(Stages)
      BY <2>1 DEF WellOrdered
    <3>2. ASSUME Tail(a.todo) # <<>>
          PROVE  2 \in 1 .. Len(a.todo) /\ Head(Tail(a.todo)) = a.todo[2]
      BY <3>1, <3>2
    <3> QED BY <2>1, <3>2 DEF WellOrdered
  <2>4. /\ b.todo = Tail(a.todo) /\ b.route = a.route /\ b.user = a.token /\ b.file = a.file
        /\ b.ip = a.ip /\ b.visitor = a.visitor /\ b.outcome = a.outcome /\ b.status = a.status
        /\ b \in Request
    BY <2>1, <2>2 DEF Request, WellOrdered, Rest
  <2> HIDE DEF b, a
  <2>5. Told(b) /\ Kept(b, r, files, broken) /\ Answered(b, r, files, done)
    BY <1>1, <1>3, <1>4, <1>6, <2>1, <2>3, <2>4 DEF Told, Kept, Answered, Awaited
  <2>6. Good(b, r, files', done', broken')
    BY <1>1, <2>2, <2>4, <2>5 DEF Good
  <2>7. TypeOK' /\ RequestsGood'
    BY <1>1, <1>2, <1>6, <2>6, OthersStay DEF TypeOK
  <2> QED BY <1>2, <2>7
<1> QED BY <1>5, <1>6 DEF Authenticate

\* A limiter counts a request by whom it is from, and lets it through as long as it
\* has counted less than it admits.
LEMMA LimitKeeps ==
  ASSUME WayInv, NEW r \in Requests, Limit(r)
  PROVE  WayInv'
<1> USE DEF WayInv
<1> DEFINE a       == request[r]
           limiter == LimiterOf(a.route)
           lk      == <<limiter, Key(r)>>
<1>1. /\ UNCHANGED <<deployment, files, done, broken>>
      /\ Running(r) /\ Head(a.todo) = "limit"
      /\ hits' = [hits EXCEPT ![lk] = @ + 1]
      /\ \/ /\ hits[lk] < Most(limiter)
            /\ GoesOn(r) /\ admitted' = [admitted EXCEPT ![<<limiter, Person(r)>>] = @ + 1]
         \/ Answers(r, 429) /\ UNCHANGED admitted
  BY DEF Limit, At
<1>2. Good(a, r, files, done, broken) /\ a.todo # <<>>
  BY <1>1 DEF RequestsGood, Running
<1>3. /\ a \in Request /\ Told(a) /\ a.route \in Routes /\ a.route # "none"
  BY <1>2, UnderWay DEF Good
<1>4. Person(r) = Key(r) /\ Key(r) \in Keys
  <2>1. a.ip = a.visitor /\ a.ip \in Addresses
    BY <1>3 DEF Told, Addresses
  <2>2. a.user # NoUser => a.route \notin Public /\ a.user \in Users
    BY <1>3 DEF Told, Request
  <2> QED BY <2>1, <2>2 DEF Person, Key, AddressKey, Keys
<1>5. lk \in Limiters \X Keys
  BY <1>3, <1>4 DEF Limiters
<1>6. /\ hits \in [Limiters \X Keys -> Nat] /\ admitted \in [Limiters \X Keys -> Nat]
  BY DEF TypeOK
<1> DEFINE n == Most(limiter)
<1> HIDE DEF lk
<1>7. /\ hits' \in [Limiters \X Keys -> Nat]
      /\ hits'[lk] = hits[lk] + 1
      /\ \A other \in Limiters \X Keys : other # lk => hits'[other] = hits[other]
  BY <1>1, <1>5, <1>6
<1>8. \A other \in Limiters \X Keys : Most(other[1])' = Most(other[1])
  BY <1>1 DEF Most
<1>9. CASE Answers(r, 429) /\ UNCHANGED admitted
  <2>1. Tallies' /\ Counted' /\ LimitsHold'
    <3>1. Tallies'
      BY <1>6, <1>7, <1>9 DEF Tallies
    <3>2. Counted'
      <4> SUFFICES ASSUME NEW other \in Limiters \X Keys PROVE admitted'[other] <= hits'[other]
        BY DEF Counted
      <4>1. admitted[other] <= hits[other] /\ hits[other] \in Nat /\ admitted[other] \in Nat
        BY <1>6 DEF Counted
      <4> QED BY <1>7, <1>9, <4>1
    <3>3. LimitsHold'
      BY <1>8, <1>9 DEF LimitsHold
    <3> QED BY <3>1, <3>2, <3>3
  <2>2. r \notin files
    BY <1>1, NoFileYet DEF WithFile, Awaited
  <2>3. TypeOK' /\ RequestsGood'
    BY <1>1, <1>9, <2>1, <2>2, AnswersGood DEF Statuses
  <2> QED BY <2>1, <2>3
<1>10. CASE /\ hits[lk] < n
            /\ GoesOn(r) /\ admitted' = [admitted EXCEPT ![<<limiter, Person(r)>>] = @ + 1]
  <2>1. /\ admitted' \in [Limiters \X Keys -> Nat]
        /\ admitted'[lk] = admitted[lk] + 1
        /\ \A other \in Limiters \X Keys : other # lk => admitted'[other] = admitted[other]
    <3>1. admitted' = [admitted EXCEPT ![lk] = @ + 1]
      BY <1>4, <1>10 DEF lk
    <3> QED BY <1>5, <1>6, <3>1
  <2>2. Tallies'
    BY <1>7, <2>1 DEF Tallies
  <2>3. ASSUME NEW other \in Limiters \X Keys
        PROVE  /\ admitted'[other] <= hits'[other]
               /\ admitted'[other] <= Most(other[1])'
    <3>1. /\ admitted[other] <= hits[other] /\ admitted[other] <= Most(other[1])
          /\ hits[other] \in Nat /\ admitted[other] \in Nat
      BY <1>6 DEF Counted, LimitsHold
    <3>2. CASE other # lk
      BY <1>7, <1>8, <2>1, <3>1, <3>2
    <3>3. CASE other = lk
      <4>1. Most(other[1]) = n
        BY <3>3 DEF lk
      <4>2. n \in Int
        <5>1. deployment \in Servers
          BY DEF TypeOK
        <5>2. deployment.demoCommands \in Nat
          BY <5>1, SettingsAccepted
        <5> QED BY <5>2, HttpAssumption DEF Most
      <4> HIDE DEF n
      <4>3. admitted[lk] + 1 <= n /\ admitted[lk] + 1 <= hits[lk] + 1
        BY <1>10, <3>1, <3>3, <4>2
      <4> QED BY <1>7, <1>8, <2>1, <3>3, <4>1, <4>3
    <3> QED BY <3>2, <3>3
  <2>4. Counted' /\ LimitsHold'
    BY <2>3 DEF Counted, LimitsHold
  <2>5. Head(a.todo) \notin Awaited \cup {"authenticate", "upload"}
    BY <1>1 DEF Awaited
  <2>6. TypeOK' /\ RequestsGood'
    BY <1>1, <1>10, <2>2, <2>5, GoesOnGood
  <2> QED BY <2>2, <2>4, <2>6
<1> QED BY <1>1, <1>9, <1>10

\* The window of a key ends for what was counted and for what was let through.
LEMMA WindowKeeps ==
  ASSUME WayInv, NEW limiter \in Limiters, NEW key \in Keys, WindowEnds(limiter, key)
  PROVE  WayInv'
<1> USE DEF WayInv
<1> DEFINE lk == <<limiter, key>>
<1>1. /\ UNCHANGED <<deployment, request, files, done, broken>>
      /\ hits' = [hits EXCEPT ![lk] = 0] /\ admitted' = [admitted EXCEPT ![lk] = 0]
      /\ lk \in Limiters \X Keys
  BY DEF WindowEnds
<1>2. /\ hits \in [Limiters \X Keys -> Nat] /\ admitted \in [Limiters \X Keys -> Nat]
      /\ deployment \in Servers
  BY DEF TypeOK
<1> HIDE DEF lk
<1>3. /\ hits' \in [Limiters \X Keys -> Nat] /\ admitted' \in [Limiters \X Keys -> Nat]
      /\ \A other \in Limiters \X Keys :
           \/ hits'[other] = hits[other] /\ admitted'[other] = admitted[other]
           \/ hits'[other] = 0 /\ admitted'[other] = 0
  BY <1>1, <1>2
<1>4. TypeOK'
  BY <1>1, <1>3 DEF TypeOK
<1>5. RequestsGood'
  BY <1>1 DEF RequestsGood
<1>6. \A limit \in Limiters : Most(limit) \in Nat /\ Most(limit)' = Most(limit)
  BY <1>1, <1>2, SettingsAccepted, HttpAssumption DEF Most
<1>7. Counted' /\ LimitsHold'
  <2> SUFFICES ASSUME NEW other \in Limiters \X Keys
               PROVE  admitted'[other] <= hits'[other] /\ admitted'[other] <= Most(other[1])'
    BY DEF Counted, LimitsHold
  <2>1. /\ admitted[other] <= hits[other] /\ admitted[other] <= Most(other[1])
        /\ other[1] \in Limiters
    BY DEF Counted, LimitsHold
  <2> QED BY <1>3, <1>6, <2>1
<1> QED BY <1>4, <1>5, <1>7

\* The temporary file: received, stored, checked, and given to the controller.
LEMMA FileKeeps ==
  ASSUME WayInv, NEW r \in Requests,
         \/ Receive(r) \/ Store(r) \/ StoreFails(r) \/ CheckPasses(r) \/ CheckMismatch(r)
         \/ CheckFails(r) \/ Discard(r) \/ Upload(r) \/ Drop(r)
  PROVE  WayInv'
<1> USE DEF WayInv
<1> DEFINE a == request[r]
<1>1. UNCHANGED <<deployment, hits, done, admitted>> /\ Running(r)
  BY DEF Receive, Store, StoreFails, CheckPasses, CheckMismatch, CheckFails,
         Discard, Upload, Drop, At
<1>2. Tallies' /\ Counted' /\ LimitsHold'
  BY <1>1, CountsStay
<1>3. Good(a, r, files, done, broken) /\ a.todo # <<>>
  BY <1>1 DEF RequestsGood, Running
<1>4. ASSUME TypeOK' /\ RequestsGood' PROVE WayInv'
  BY <1>2, <1>4
\* One that ends here says nothing a page would.
<1>5. ASSUME NEW status \in {400, 413, 415, 500}, Answers(r, status),
             Head(a.todo) # "cleaning",
             files' \in {files, files \ {r}}, broken' \in {broken, broken \cup {r}},
             r \in files' => r \in broken'
      PROVE  WayInv'
  <2>1. status \in Statuses /\ status \notin {200, 302}
    BY <1>5 DEF Statuses
  <2>2. TypeOK' /\ RequestsGood'
    BY <1>1, <1>2, <1>5, <2>1, AnswersGood
  <2> QED BY <1>4, <2>2
<1>6. ASSUME GoesOn(r), Head(a.todo) \in {"receive", "check"}, UNCHANGED <<files, broken>>
      PROVE  WayInv'
  <2>1. Head(a.todo) \notin Awaited \cup {"authenticate", "upload"}
    BY <1>6 DEF Awaited
  <2>2. TypeOK' /\ RequestsGood'
    BY <1>1, <1>2, <1>6, <2>1, GoesOnGood
  <2> QED BY <1>4, <2>2
<1>7. ASSUME NEW stage \in {"storing", "discarding", "reading", "dropping"}, Awaits(r, stage),
             UNCHANGED broken,
             IF stage = "storing" THEN Head(a.todo) = "receive" /\ files' = files \cup {r}
             ELSE Head(a.todo) \in {"check", "upload"} /\ a.file /\ files' = files
      PROVE  WayInv'
  <2>1. stage \in Awaited \ {"cleaning"}
    BY DEF Awaited
  <2>2. TypeOK' /\ RequestsGood'
    BY <1>1, <1>2, <1>7, <2>1, AwaitsGood
  <2> QED BY <1>4, <2>2
<1>8. CASE Receive(r)
  <2>1. Head(a.todo) = "receive" /\ r \notin files
    BY <1>1, <1>8, NoFileYet DEF Receive, At, WithFile, Awaited
  <2>2. CASE Awaits(r, "storing") /\ files' = files \cup {r}
    BY <1>7, <1>8, <2>1, <2>2 DEF Receive
  <2>3. CASE GoesOn(r) /\ UNCHANGED files
    BY <1>6, <1>8, <2>1, <2>3 DEF Receive
  <2>4. CASE Answers(r, 415) /\ UNCHANGED files
    BY <1>5, <1>8, <2>1, <2>4 DEF Receive
  <2> QED BY <1>8, <2>2, <2>3, <2>4 DEF Receive
<1>9. CASE Store(r)
  <2> DEFINE b == [a EXCEPT !.todo = Rest(r), !.file = TRUE]
  <2>1. /\ Head(a.todo) = "storing" /\ UNCHANGED <<files, broken>>
        /\ request' = [request EXCEPT ![r] = b]
    BY <1>9 DEF Store, At
  <2>2. /\ a \in Request /\ WellOrdered(a.todo, a.route, a.user) /\ Told(a)
        /\ Kept(a, r, files, broken) /\ Answered(a, r, files, done)
        /\ a.route # "none" /\ a.status = 0
    BY <1>3, UnderWay DEF Good
  <2>3. /\ WellOrdered(Tail(a.todo), a.route, a.user)
        /\ Tail(a.todo) # <<>> /\ Head(Tail(a.todo)) \in {"check", "upload"}
    <3>1. a.user = a.user /\ Head(a.todo) # "authenticate"
      BY <2>1
    <3>2. /\ Head(a.todo) \in WithFile \cup {"receive"}
          /\ Head(a.todo) \in {"receive", "storing", "check"}
      BY <2>1 DEF WithFile, Awaited
    <3> QED BY <1>3, <2>2, <3>1, <3>2, TailOrdered
  <2>4. /\ b.todo = Tail(a.todo) /\ b.route = a.route /\ b.user = a.user /\ b.file = TRUE
        /\ b.ip = a.ip /\ b.visitor = a.visitor /\ b.outcome = a.outcome /\ b.status = a.status
        /\ b \in Request
    BY <2>2, <2>3 DEF Request, WellOrdered, Rest
  <2> HIDE DEF b, a
  <2>5. Told(b) /\ Kept(b, r, files, broken) /\ Answered(b, r, files, done)
    BY <1>3, <2>1, <2>2, <2>3, <2>4 DEF Told, Kept, Answered, WithFile, Awaited
  <2>6. Good(b, r, files', done', broken')
    BY <1>1, <2>1, <2>3, <2>4, <2>5 DEF Good
  <2>7. TypeOK' /\ RequestsGood'
    BY <1>1, <1>2, <2>1, <2>6, OthersStay DEF TypeOK
  <2> QED BY <1>4, <2>7
<1>10. CASE StoreFails(r)
  <2>1. Head(a.todo) # "cleaning"
    BY <1>10 DEF StoreFails, At
  <2>2. /\ files' \in {files, files \ {r}} /\ broken' \in {broken, broken \cup {r}}
        /\ r \in files' => r \in broken'
    BY <1>10 DEF StoreFails, Removes
  <2> QED BY <1>5, <1>10, <2>1, <2>2 DEF StoreFails
<1>11. CASE CheckPasses(r)
  BY <1>6, <1>11 DEF CheckPasses, At
<1>12. CASE CheckMismatch(r)
  BY <1>7, <1>12 DEF CheckMismatch, At
<1>13. CASE CheckFails(r)
  BY <1>5, <1>13 DEF CheckFails, At
<1>14. CASE Discard(r)
  <2>1. Head(a.todo) # "cleaning"
    BY <1>14 DEF Discard, At
  <2>2. /\ files' \in {files, files \ {r}} /\ broken' \in {broken, broken \cup {r}}
        /\ r \in files' => r \in broken'
    BY <1>14 DEF Discard, Removes
  <2> QED BY <1>5, <1>14, <2>1, <2>2 DEF Discard
<1>15. CASE Upload(r)
  <2>1. Head(a.todo) = "upload" /\ UNCHANGED <<files, broken>>
    BY <1>15 DEF Upload, At
  <2>2. ~a.file => r \notin files
    BY <1>3, <2>1 DEF Good, Kept
  <2>3. CASE a.file
    BY <1>7, <1>15, <2>1, <2>3 DEF Upload
  <2>4. CASE ~a.file
    BY <1>5, <1>15, <2>1, <2>2, <2>4 DEF Upload
  <2> QED BY <2>3, <2>4
<1>16. CASE Drop(r)
  <2>1. Head(a.todo) # "cleaning"
    BY <1>16 DEF Drop, At
  <2> QED BY <1>5, <1>16, <2>1 DEF Drop
<1> QED BY <1>8, <1>9, <1>10, <1>11, <1>12, <1>13, <1>14, <1>15, <1>16

\* What a use case may come to.
Results == {200, 422, 429, 500}

\* It has its effect with a success, and may have had it with a failure.
LEMMA EffectTold ==
  ASSUME NEW r, NEW status, status \in Results, Outcome(r, status), r \notin done
  PROVE  /\ done' \in {done, done \cup {r}}
         /\ r \in done' => status \in {200, 500}
         /\ status \in Statuses
<1>1. CASE status = 200
  BY <1>1 DEF Outcome, Statuses
<1>2. CASE status = 500
  BY <1>2 DEF Outcome, Statuses
<1>3. CASE status # 200 /\ status # 500
  <2>1. status \in {422, 429}
    BY <1>3 DEF Results
  <2>2. done' = done
    BY <1>3, <2>1 DEF Outcome
  <2> QED BY <2>1, <2>2 DEF Statuses
<1> QED BY <1>1, <1>2, <1>3

\* A use case answers what it came to, and has its effect only then.
LEMMA UseCaseKeeps ==
  ASSUME WayInv, NEW r \in Requests, ReadInvoice(r) \/ Cleanup(r) \/ Handle(r)
  PROVE  WayInv'
<1> USE DEF WayInv
<1> DEFINE a == request[r]
<1>1. UNCHANGED <<deployment, hits, admitted>> /\ Running(r)
  BY DEF ReadInvoice, Cleanup, Handle, At
<1>2. Tallies' /\ Counted' /\ LimitsHold'
  BY <1>1, CountsStay
<1>3. /\ Good(a, r, files, done, broken) /\ a.todo # <<>>
      /\ a \in Request /\ WellOrdered(a.todo, a.route, a.user) /\ Told(a)
      /\ Kept(a, r, files, broken) /\ Answered(a, r, files, done)
      /\ a.route # "none" /\ a.status = 0
      /\ Head(a.todo) \in Guarded /\ a.route \notin Public => a.user # NoUser
  <2>1. Good(a, r, files, done, broken) /\ a.todo # <<>>
    BY <1>1 DEF RequestsGood, Running
  <2> QED BY <2>1, UnderWay DEF Good
<1>5. ASSUME Head(a.todo) \in {"reading", "handle"}, NEW status, status \in Results, Outcome(r, status)
      PROVE  /\ done' \in {done, done \cup {r}}
             /\ r \in done' => status \in {200, 500}
             /\ a.route \notin Public => a.user # NoUser
             /\ status \in Statuses
  <2>1. a.outcome = 0
    BY <1>3, <1>5 DEF Answered
  <2>2. r \notin done
    BY <1>3, <2>1 DEF Answered
  <2>3. a.route \notin Public => a.user # NoUser
    BY <1>3, <1>5 DEF Guarded, WithFile, Awaited
  <2> QED BY <1>5, <2>2, <2>3, EffectTold
<1>6. CASE ReadInvoice(r)
  <2>0. request \in [Requests -> Request]
    BY DEF TypeOK
  <2>1. PICK status \in Results :
          /\ status = 200 => r \in files
          /\ Outcome(r, status)
          /\ request' = [request EXCEPT ![r] =
               [@ EXCEPT !.todo = <<"cleaning">>, !.outcome = status]]
    BY <1>6 DEF ReadInvoice, Results
  <2> DEFINE last == <<"cleaning">>
             b    == [a EXCEPT !.todo = last, !.outcome = status]
  <2>2. Head(a.todo) = "reading" /\ UNCHANGED <<files, broken>>
    BY <1>6 DEF ReadInvoice, At
  <2>3. /\ done' \in {done, done \cup {r}} /\ (r \in done' => status \in {200, 500})
        /\ a.route \notin Public => a.user # NoUser
        /\ status \in Statuses
    BY <1>5, <2>1, <2>2
  <2>4. /\ WellOrdered(last, a.route, a.user)
        /\ last \in Seq(Stages) /\ last # <<>> /\ Head(last) = "cleaning"
    BY <2>3, EndOrdered DEF WellOrdered
  <2> HIDE DEF last
  <2>5. /\ b.todo = last /\ b.route = a.route /\ b.user = a.user /\ b.file = a.file
        /\ b.ip = a.ip /\ b.visitor = a.visitor /\ b.outcome = status /\ b.status = a.status
        /\ b \in Request
    <3>1. a \in Request /\ last \in Seq(Stages) /\ a.status \in Statuses
      BY <1>3, <2>4 DEF Statuses
    <3>2. status \in Statuses
      BY <2>3
    <3> HIDE DEF a
    <3> QED BY <3>1, <3>2 DEF Request
  <2>6. request' = [request EXCEPT ![r] = b]
    BY <2>0, <2>1 DEF last
  <2> HIDE DEF b, a
  <2>7. Told(b) /\ Kept(b, r, files, broken) /\ Answered(b, r, files, done')
    BY <1>3, <2>2, <2>3, <2>4, <2>5 DEF Told, Kept, Answered, WithFile, Awaited
  <2>8. Good(b, r, files', done', broken')
    BY <2>2, <2>4, <2>5, <2>7 DEF Good
  <2>9. done' \ {r} = done \ {r} /\ done' \subseteq Requests
    BY <2>3 DEF TypeOK
  <2>10. TypeOK' /\ RequestsGood'
    BY <1>1, <1>2, <2>2, <2>6, <2>8, <2>9, OthersStay DEF TypeOK
  <2> QED BY <1>2, <2>10
<1>7. CASE Handle(r)
  <2>1. PICK status \in Results :
          /\ Outcome(r, status)
          /\ request' = [request EXCEPT ![r] =
               [a EXCEPT !.todo = <<>>, !.outcome = status, !.status = status]]
    <3>1. PICK status \in {200, 422, 500} :
            /\ Outcome(r, status)
            /\ request' = [request EXCEPT ![r] =
                 [a EXCEPT !.todo = <<>>, !.outcome = status, !.status = status]]
      BY <1>7 DEF Handle, TypeOK
    <3>2. status \in Results
      BY DEF Results
    <3> QED BY <3>1, <3>2
  <2> DEFINE none == <<>>
             b    == [a EXCEPT !.todo = none, !.outcome = status, !.status = status]
  <2>2. Head(a.todo) = "handle" /\ UNCHANGED <<files, broken>>
    BY <1>7 DEF Handle, At
  <2>3. /\ done' \in {done, done \cup {r}} /\ (r \in done' => status \in {200, 500})
        /\ a.route \notin Public => a.user # NoUser
        /\ status \in Statuses
    BY <1>5, <2>1, <2>2
  <2>4. WellOrdered(none, a.route, a.user) /\ none \in Seq(Stages)
    BY EndOrdered
  <2>5. r \notin files
    BY <1>1, <2>2, NoFileYet DEF WithFile, Awaited
  <2>6. request' = [request EXCEPT ![r] = b]
    BY <2>1
  <2>7. none = <<>>
    OBVIOUS
  <2> HIDE DEF none
  <2>8. /\ b.todo = none /\ b.route = a.route /\ b.user = a.user /\ b.file = a.file
        /\ b.ip = a.ip /\ b.visitor = a.visitor /\ b.outcome = status /\ b.status = status
        /\ b \in Request
    <3>1. a \in Request /\ none \in Seq(Stages)
      BY <1>3, <2>4
    <3>2. status \in Statuses
      BY <2>3
    <3> HIDE DEF a
    <3> QED BY <3>1, <3>2 DEF Request
  <2> HIDE DEF b, a
  <2>9. Told(b) /\ Kept(b, r, files, broken) /\ Answered(b, r, files, done')
    BY <1>3, <2>3, <2>5, <2>7, <2>8 DEF Told, Kept, Answered
  <2>10. Good(b, r, files', done', broken')
    BY <2>2, <2>4, <2>8, <2>9 DEF Good
  <2>11. done' \ {r} = done \ {r} /\ done' \subseteq Requests
    BY <2>3 DEF TypeOK
  <2>12. TypeOK' /\ RequestsGood'
    BY <1>1, <1>2, <2>2, <2>6, <2>10, <2>11, OthersStay DEF TypeOK
  <2> QED BY <1>2, <2>12
<1>8. CASE Cleanup(r)
  <2>1. /\ Head(a.todo) = "cleaning" /\ Answers(r, a.outcome) /\ UNCHANGED done
        /\ files' \in {files, files \ {r}} /\ broken' \in {broken, broken \cup {r}}
        /\ r \in files' => r \in broken'
    BY <1>8 DEF Cleanup, Removes, At
  <2>2. a.outcome \in Statuses
    BY <1>3 DEF Request
  <2>3. TypeOK' /\ RequestsGood'
    BY <1>1, <1>2, <2>1, <2>2, AnswersGood
  <2> QED BY <1>2, <2>3
<1> QED BY <1>6, <1>7, <1>8

\* A crash ends every request, and leaves a reason for every file there is.
LEMMA CrashKeeps ==
  ASSUME WayInv, Crash
  PROVE  WayInv'
<1> USE DEF WayInv
<1> DEFINE none == <<>>
<1>1. /\ UNCHANGED <<deployment, files, done>>
      /\ request' = [r \in Requests |-> [request[r] EXCEPT !.todo = none]]
      /\ hits' = [lk \in Limiters \X Keys |-> 0] /\ admitted' = [lk \in Limiters \X Keys |-> 0]
      /\ broken' = broken \cup {r \in files : Running(r)}
  BY DEF Crash
<1>2. none = <<>> /\ none \in Seq(Stages)
  OBVIOUS
<1> HIDE DEF none
<1>3. RequestsGood'
  <2> SUFFICES ASSUME NEW r \in Requests PROVE Good(request'[r], r, files, done, broken')
    BY <1>1 DEF RequestsGood
  <2> DEFINE a == request[r]
             b == [a EXCEPT !.todo = none]
  <2>1. /\ Good(a, r, files, done, broken) /\ a \in Request
        /\ Told(a) /\ Kept(a, r, files, broken) /\ Answered(a, r, files, done)
    BY DEF RequestsGood, Good
  <2>2. request'[r] = b
    BY <1>1
  <2>3. /\ b.todo = none /\ b.route = a.route /\ b.user = a.user /\ b.file = a.file
        /\ b.ip = a.ip /\ b.visitor = a.visitor /\ b.outcome = a.outcome /\ b.status = a.status
        /\ b \in Request
    BY <1>2, <2>1 DEF Request
  <2>4. WellOrdered(none, b.route, b.user)
    BY <1>2, EndOrdered
  <2>5. r \in files => r \in broken'
    BY <1>1, <2>1 DEF Kept, Running
  <2>6. a.route = "none" => b = NoRequest
    <3>1. ASSUME a.route = "none" PROVE b = NoRequest
      <4>1. a = NoRequest /\ a.todo = none
        BY <1>2, <2>1, <3>1, NothingAsked DEF Told
      <4>2. b = a
        BY <2>1, <4>1 DEF Request
      <4> QED BY <4>1, <4>2
    <3> QED BY <3>1
  <2> HIDE DEF a, b
  <2>7. Told(b) /\ Kept(b, r, files, broken') /\ Answered(b, r, files, done)
    BY <1>2, <2>1, <2>3, <2>5, <2>6 DEF Told, Kept, Answered
  <2> QED BY <2>2, <2>3, <2>4, <2>7 DEF Good
<1>4. TypeOK'
  <2>1. request' \in [Requests -> Request]
    BY <1>1, <1>3 DEF RequestsGood, Good
  <2>2. /\ hits' \in [Limiters \X Keys -> Nat] /\ admitted' \in [Limiters \X Keys -> Nat]
        /\ broken' \subseteq Requests
    BY <1>1 DEF TypeOK
  <2> QED BY <1>1, <2>1, <2>2 DEF TypeOK
<1>5. Counted' /\ LimitsHold'
  <2>1. \A limit \in Limiters : Most(limit)' \in Nat
    BY <1>1, SettingsAccepted, HttpAssumption DEF Most, TypeOK
  <2> QED BY <1>1, <2>1 DEF Counted, LimitsHold
<1> QED BY <1>3, <1>4, <1>5

-----------------------------------------------------------------------------
(* The theorems.                                                           *)

\* Before anybody asks, nothing is kept, done or counted.
LEMMA InitiallyGood == Init => WayInv
<1> SUFFICES ASSUME Init PROVE WayInv
  OBVIOUS
<1>1. /\ deployment \in Servers /\ request = [r \in Requests |-> NoRequest]
      /\ files = {} /\ done = {} /\ broken = {}
      /\ hits = [lk \in Limiters \X Keys |-> 0] /\ admitted = [lk \in Limiters \X Keys |-> 0]
  BY DEF Init
<1>2. TypeOK
  BY <1>1, NothingAsked DEF TypeOK
<1>3. RequestsGood
  <2>1. WellOrdered(NoRequest.todo, NoRequest.route, NoRequest.user)
    BY NothingAsked, EndOrdered
  <2>2. ASSUME NEW r PROVE Good(NoRequest, r, {}, {}, {})
    BY <2>1, NothingAsked DEF Good, Told, Kept, Answered
  <2> QED BY <1>1, <2>2 DEF RequestsGood
<1>4. Counted /\ LimitsHold
  <2>1. \A limiter \in Limiters : Most(limiter) \in Nat
    BY <1>1, SettingsAccepted, HttpAssumption DEF Most
  <2> QED BY <1>1, <2>1 DEF Counted, LimitsHold
<1> QED BY <1>2, <1>3, <1>4 DEF WayInv

\* Every step of every request, the end of a window and a crash keep it.
LEMMA StepsKeep == WayInv /\ [Next]_vars => WayInv'
<1> SUFFICES ASSUME WayInv, [Next]_vars PROVE WayInv'
  OBVIOUS
<1>1. ASSUME NEW r \in Requests, NEW route \in Routes, NEW token \in Users \cup {NoUser},
             NEW visitor \in Visitors, NEW forged \in Forged,
             Arrives(r, route, token, visitor, forged)
      PROVE  WayInv'
  BY <1>1, ArrivesKeeps
<1>2. ASSUME NEW r \in Requests, Progress(r) PROVE WayInv'
  <2>1. CASE \/ Json(r) \/ Validate(r) \/ Missing(r) \/ Accept(r) \/ Probe(r) \/ Static(r)
    BY <2>1, MiddlewareKeeps
  <2>2. CASE Authenticate(r)
    BY <2>2, AuthenticateKeeps
  <2>3. CASE Limit(r)
    BY <2>3, LimitKeeps
  <2>4. CASE \/ Receive(r) \/ Store(r) \/ StoreFails(r) \/ CheckPasses(r) \/ CheckMismatch(r)
             \/ CheckFails(r) \/ Discard(r) \/ Upload(r) \/ Drop(r)
    BY <2>4, FileKeeps
  <2>5. CASE ReadInvoice(r) \/ Cleanup(r) \/ Handle(r)
    BY <2>5, UseCaseKeeps
  <2> QED BY <1>2, <2>1, <2>2, <2>3, <2>4, <2>5 DEF Progress
<1>3. ASSUME NEW limiter \in Limiters, NEW key \in Keys, WindowEnds(limiter, key) PROVE WayInv'
  BY <1>3, WindowKeeps
<1>4. CASE Crash
  BY <1>4, CrashKeeps
<1>5. CASE UNCHANGED vars
  BY <1>5 DEF vars, WayInv, TypeOK, RequestsGood, Counted, LimitsHold, Most
<1> QED BY <1>1, <1>2, <1>3, <1>4, <1>5 DEF Next, Finished

\* Where every request, its file and the counts stand, always.
THEOREM WayInvariant == Spec => []WayInv
BY InitiallyGood, StepsKeep, PTL DEF Spec

\* A temporary file outlives its request only if the disk or the process failed, and
\* is there as long as the request needs it, whatever refuses the request and where.
THEOREM FilesAccountedFor == Spec => []HttpInv
<1>1. WayInv => HttpInv
  <2> SUFFICES ASSUME WayInv PROVE HttpInv
    OBVIOUS
  <2>1. ASSUME NEW r \in Requests
        PROVE  /\ r \in files => Running(r) \/ r \in broken
               /\ request[r].file /\ Running(r) => r \in files
    BY DEF WayInv, RequestsGood, Good, Kept, Running
  <2> QED BY <2>1 DEF WayInv, HttpInv, FilesAccounted, TypeOK
<1> QED BY <1>1, WayInvariant, PTL

\* No person gets more through a limiter in a window than it admits, with any number of
\* requests, users and addresses and whatever X-Forwarded-For says, on every server
\* whose proxies are what its settings declare.
THEOREM LimitsAreHeld == Spec => []LimitsHold
<1>1. WayInv => LimitsHold
  BY DEF WayInv
<1> QED BY <1>1, WayInvariant, PTL

\* An answer tells what the use case came to, and nobody unknown makes a route that
\* asks for a user write to the disk or the store.
THEOREM AnswersTold == Spec => []AnswersTell
<1>1. WayInv => AnswersTell
  <2> SUFFICES ASSUME WayInv, NEW r \in Requests
               PROVE  /\ request[r].status # 0 => IF request[r].outcome # 0
                                                  THEN request[r].status = request[r].outcome
                                                  ELSE /\ r \notin done
                                                       /\ request[r].status \in {200, 302} =>
                                                            request[r].route \in Probes \cup Web
                      /\ request[r].outcome \in {422, 429} => r \notin done
                      /\ r \in files \cup done /\ request[r].route \notin Public =>
                           request[r].user # NoUser
    BY DEF AnswersTell
  <2> DEFINE a == request[r]
  <2>1. Answered(a, r, files, done)
    BY DEF WayInv, RequestsGood, Good
  <2>2. a.status # 0 /\ a.outcome # 0 => a.status = a.outcome
    BY <2>1 DEF Answered
  <2>3. a.status # 0 /\ a.outcome = 0 =>
          r \notin done /\ (a.status \in {200, 302} => a.route \in Probes \cup Web)
    BY <2>1 DEF Answered
  <2>4. a.outcome \in {422, 429} => r \notin done
    BY <2>1 DEF Answered
  <2>5. r \in files \cup done /\ a.route \notin Public => a.user # NoUser
    BY <2>1 DEF Answered
  <2> QED BY <2>2, <2>3, <2>4, <2>5
<1> QED BY <1>1, WayInvariant, PTL

-----------------------------------------------------------------------------
(* The shutdown and the health cache, for any number of requests and checks*)
(* and any time to live.                                                   *)

Closing == {"disconnecting", "ending", "exited"}

\* The code tells what has gone wrong from the moment the shutdown starts.
CodeSoFar ==
  IF phase = "serving" THEN exitCode = 0 /\ trouble = {}
                       ELSE exitCode = 0 <=> trouble \subseteq {"fatalLater"}

\* Nobody is connected once the database is being closed, and the pool ends after.
ClosedInOrder ==
  /\ phase \in Closing => Connected = {}
  /\ pool = "ending" => phase \in {"ending", "exited"}

\* What is left of the time to live, counted from the last success.
CacheDated == freshFor > 0 => sinceHealthy = Ttl - freshFor

LifecycleInv ==
  LifecycleTypeOK /\ CodeSoFar /\ ClosedInOrder /\ NoTransactionCut /\ DrainedFirst /\ CacheDated

USE DEF Troubles, Phases, Closing

\* Init establishes the invariant.
LEMMA InitLifecycle == LifecycleInit => LifecycleInv
  BY LifecycleAssumption
  DEF LifecycleInit, LifecycleInv, LifecycleTypeOK, CodeSoFar, ClosedInOrder, Connected,
      NoTransactionCut, ClientsOut, DrainedFirst, CacheDated

\* Types, in every step.
LEMMA TypesKept == LifecycleTypeOK /\ [LifecycleNext]_lifecycleVars => LifecycleTypeOK'
<1> SUFFICES ASSUME LifecycleTypeOK, [LifecycleNext]_lifecycleVars PROVE LifecycleTypeOK'
  OBVIOUS
<1> USE LifecycleAssumption DEF LifecycleTypeOK, shutdownVars, healthVars
<1>1. ASSUME NEW r \in Calls, Dispatch(r) \/ HandlerStep(r) PROVE LifecycleTypeOK'
  BY <1>1 DEF Dispatch, HandlerStep, TakeClient, ReleaseClient, Answer
<1>2. ASSUME NEW k \in Checks, CheckHealth(k) PROVE LifecycleTypeOK'
  BY <1>2 DEF CheckHealth
<1>3. CASE ProbeStep
  <2>1. ASSUME NEW answer \in {"ok", "unavailable"}, AnswerWaiting(answer)
        PROVE  check' \in [Checks -> {"idle", "arriving", "waiting", "ok", "unavailable"}]
    BY <2>1 DEF AnswerWaiting
  <2>2. check' \in [Checks -> {"idle", "arriving", "waiting", "ok", "unavailable"}]
    BY <1>3, <2>1 DEF ProbeStep, ProbeSucceeds, ProbeFails
  <2>3. UNCHANGED <<shutdownVars, handler, gone, pool>> /\ probe' = "none"
    BY <1>3 DEF ProbeStep, ProbeSucceeds, ProbeFails
  <2>4. freshFor' \in 0 .. Ttl /\ sinceHealthy' \in 0 .. Ttl + 1
    <3>1. CASE ProbeSucceeds
      BY <3>1 DEF ProbeSucceeds
    <3>2. CASE ProbeFails
      BY <3>2 DEF ProbeFails
    <3> QED
      BY <1>3, <3>1, <3>2 DEF ProbeStep
  <2> QED
    BY <2>2, <2>3, <2>4
<1>4. CASE Tick
  BY <1>4 DEF Tick
<1>5. CASE Connect \/ ConnectionLost
  BY <1>5 DEF Connect, ConnectionLost, Connected
<1>6. CASE Signal \/ FatalError
  BY <1>6 DEF Signal, FatalError, Shutdown
<1>7. CASE ShutdownStep
  BY <1>7 DEF ShutdownStep, Drained, CloseFails, DeadlinePasses, Disconnect, PoolEnds, Connected
<1>8. CASE Exited \/ UNCHANGED lifecycleVars
  BY <1>8 DEF Exited, lifecycleVars
<1> HIDE DEF LifecycleTypeOK, shutdownVars, healthVars
<1> QED
  BY <1>1, <1>2, <1>3, <1>4, <1>5, <1>6, <1>7, <1>8 DEF LifecycleNext

\* The exit code, in every step.
LEMMA CodeKept == LifecycleTypeOK /\ CodeSoFar /\ [LifecycleNext]_lifecycleVars => CodeSoFar'
<1> SUFFICES ASSUME LifecycleTypeOK, CodeSoFar, [LifecycleNext]_lifecycleVars PROVE CodeSoFar'
  OBVIOUS
<1> USE DEF LifecycleTypeOK, CodeSoFar, shutdownVars
<1>1. CASE Signal
  BY <1>1 DEF Signal, Shutdown
<1>2. CASE FatalError
  BY <1>2 DEF FatalError, Shutdown
<1>3. CASE Drained
  BY <1>3 DEF Drained
<1>4. CASE CloseFails
  BY <1>4 DEF CloseFails
<1>5. CASE DeadlinePasses
  BY <1>5 DEF DeadlinePasses
<1>6. CASE Disconnect
  <2>1. phase # "serving" /\ phase' # "serving"
    BY <1>6 DEF Disconnect
  <2>2. CASE UNCHANGED <<exitCode, trouble>>
    BY <2>1, <2>2
  <2>3. CASE exitCode' = 1 /\ trouble' = trouble \cup {"disconnectFailed"}
    BY <2>1, <2>3
  <2> QED
    BY <1>6, <2>2, <2>3 DEF Disconnect
<1>7. CASE PoolEnds
  BY <1>7 DEF PoolEnds
<1>8. CASE UNCHANGED shutdownVars
  BY <1>8
<1>9. Signal \/ FatalError \/ ShutdownStep \/ UNCHANGED shutdownVars
  BY DEF LifecycleNext, Dispatch, HandlerStep, TakeClient, ReleaseClient, Answer, CheckHealth,
         ProbeStep, ProbeSucceeds, ProbeFails, Tick, Connect, ConnectionLost, Exited, lifecycleVars
<1> HIDE DEF LifecycleTypeOK, CodeSoFar, shutdownVars
<1> QED
  BY <1>1, <1>2, <1>3, <1>4, <1>5, <1>6, <1>7, <1>8, <1>9 DEF ShutdownStep

\* The order of the closing, in every step.
LEMMA OrderKept ==
  LifecycleTypeOK /\ ClosedInOrder /\ DrainedFirst /\ [LifecycleNext]_lifecycleVars
    => (ClosedInOrder /\ DrainedFirst)'
<1> SUFFICES ASSUME LifecycleTypeOK, ClosedInOrder, DrainedFirst, [LifecycleNext]_lifecycleVars
             PROVE  (ClosedInOrder /\ DrainedFirst)'
  OBVIOUS
<1> USE DEF LifecycleTypeOK, ClosedInOrder, DrainedFirst, Connected, shutdownVars, healthVars
<1>1. ASSUME NEW r \in Calls, Dispatch(r) PROVE (ClosedInOrder /\ DrainedFirst)'
  BY <1>1 DEF Dispatch, Alive
<1>2. ASSUME NEW r \in Calls, TakeClient(r) PROVE (ClosedInOrder /\ DrainedFirst)'
  BY <1>2 DEF TakeClient, Alive
<1>3. ASSUME NEW r \in Calls, ReleaseClient(r) \/ Answer(r)
      PROVE  (ClosedInOrder /\ DrainedFirst)'
  BY <1>3 DEF ReleaseClient, Answer, Alive
<1>4. ASSUME NEW k \in Checks, CheckHealth(k) PROVE (ClosedInOrder /\ DrainedFirst)'
  BY <1>4 DEF CheckHealth, Alive
<1>5. CASE ProbeStep
  BY <1>5 DEF ProbeStep, ProbeSucceeds, ProbeFails, AnswerWaiting, Alive
<1>6. CASE Tick
  BY <1>6 DEF Tick
<1>7. CASE Connect
  BY <1>7 DEF Connect
<1>8. CASE ConnectionLost
  BY <1>8 DEF ConnectionLost
<1>9. CASE Signal \/ FatalError
  BY <1>9 DEF Signal, FatalError, Shutdown
<1>10. CASE Drained
  BY <1>10 DEF Drained
<1>11. CASE CloseFails
  BY <1>11 DEF CloseFails
<1>12. CASE DeadlinePasses
  BY <1>12 DEF DeadlinePasses
<1>13. CASE Disconnect \/ PoolEnds
  BY <1>13 DEF Disconnect, PoolEnds
<1>14. CASE Exited \/ UNCHANGED lifecycleVars
  BY <1>14 DEF Exited, lifecycleVars
<1> QED
  BY <1>1, <1>2, <1>3, <1>4, <1>5, <1>6, <1>7, <1>8, <1>9, <1>10, <1>11, <1>12, <1>13, <1>14
  DEF LifecycleNext, HandlerStep, ShutdownStep

\* Every step keeps the invariant: an exited process takes no step that would
\* hand out a client, and the cache is dated by the success that filled it.
LEMMA NextLifecycle == LifecycleInv /\ [LifecycleNext]_lifecycleVars => LifecycleInv'
<1> SUFFICES ASSUME LifecycleInv, [LifecycleNext]_lifecycleVars PROVE LifecycleInv'
  OBVIOUS
<1>1. LifecycleTypeOK' /\ CodeSoFar' /\ (ClosedInOrder /\ DrainedFirst)'
  BY TypesKept, CodeKept, OrderKept DEF LifecycleInv
<1>2. NoTransactionCut'
  <2> USE DEF LifecycleInv, LifecycleTypeOK, NoTransactionCut, ClientsOut, shutdownVars, healthVars
  <2>1. CASE phase = "exited"
    <3>1. CASE FatalError \/ Signal
      BY <2>1, <3>1 DEF FatalError, Signal, Alive
    <3>2. CASE UNCHANGED lifecycleVars
      BY <2>1, <3>2 DEF lifecycleVars
    <3> QED
      BY <2>1, <3>1, <3>2
      DEF LifecycleNext, Dispatch, HandlerStep, TakeClient, ReleaseClient, Answer, CheckHealth,
          ProbeStep, ProbeSucceeds, ProbeFails, Tick, Connect, ConnectionLost, ShutdownStep, Drained,
          CloseFails, DeadlinePasses, Disconnect, PoolEnds, Exited, Alive
  <2>2. CASE phase # "exited" /\ PoolEnds
    BY <2>2 DEF PoolEnds
  <2>3. CASE phase # "exited" /\ ~PoolEnds
    <3>1. phase' # "exited"
      BY <2>3
      DEF LifecycleNext, Dispatch, HandlerStep, TakeClient, ReleaseClient, Answer, CheckHealth,
          ProbeStep, ProbeSucceeds, ProbeFails, Tick, Connect, ConnectionLost, ShutdownStep, Drained,
          CloseFails, DeadlinePasses, Disconnect, Signal, FatalError, Shutdown, Exited,
          lifecycleVars
    <3> QED
      BY <3>1
  <2> QED
    BY <2>1, <2>2, <2>3
<1>3. CacheDated'
  <2> USE LifecycleAssumption DEF LifecycleInv, LifecycleTypeOK, CacheDated, shutdownVars, healthVars
  <2>1. CASE ProbeSucceeds
    BY <2>1 DEF ProbeSucceeds
  <2>2. CASE Tick
    BY <2>2 DEF Tick
  <2>3. CASE UNCHANGED <<freshFor, sinceHealthy>>
    BY <2>3
  <2> QED
    BY <2>1, <2>2, <2>3
    DEF LifecycleNext, Dispatch, HandlerStep, TakeClient, ReleaseClient, Answer, CheckHealth,
        ProbeStep, ProbeFails, Connect, ConnectionLost, ShutdownStep, Drained, CloseFails, DeadlinePasses,
        Disconnect, PoolEnds, Signal, FatalError, Exited, lifecycleVars
<1> QED
  BY <1>1, <1>2, <1>3 DEF LifecycleInv

\* The invariant holds in every state of every behaviour.
THEOREM LifecycleInvariant == LifecycleSpec => []LifecycleInv
  BY InitLifecycle, NextLifecycle, PTL DEF LifecycleSpec

\* The code the process leaves tells the truth about its end, whichever of the
\* signals, fatal errors, the drain and the deadline came first.
THEOREM ExitCodeTold == LifecycleSpec => []ExitCodeTells
<1>1. LifecycleInv => ExitCodeTells
  BY DEF LifecycleInv, CodeSoFar, ExitCodeTells
<1> QED
  BY <1>1, LifecycleInvariant, PTL

\* No statement or transaction is cut by the exit, and no request whose client
\* is there is refused the database.
THEOREM ShutdownSafe == LifecycleSpec => []DatabaseClosedLast
<1>1. LifecycleInv => DatabaseClosedLast
  BY DEF LifecycleInv, DatabaseClosedLast
<1> QED
  BY <1>1, LifecycleInvariant, PTL

\* A check is answered ok on a success within the time to live only, however
\* many checks share a probe.
THEOREM HealthFresh == LifecycleSpec => HealthyAnswersFresh
<1> DEFINE Fresh == \A k \in Checks : check[k] # "ok" /\ check'[k] = "ok" => sinceHealthy' < Ttl
<1>1. LifecycleInv /\ [LifecycleNext]_lifecycleVars => [Fresh]_lifecycleVars
  <2> SUFFICES ASSUME LifecycleInv, [LifecycleNext]_lifecycleVars PROVE Fresh
    OBVIOUS
  <2> USE LifecycleAssumption DEF LifecycleInv, LifecycleTypeOK, CacheDated, shutdownVars, healthVars
  <2>1. ASSUME NEW k \in Checks, CheckHealth(k) PROVE Fresh
    BY <2>1 DEF CheckHealth
  <2>2. CASE ProbeSucceeds
    BY <2>2 DEF ProbeSucceeds
  <2>3. CASE ProbeFails
    BY <2>3 DEF ProbeFails, AnswerWaiting
  <2>4. CASE Connect
    BY <2>4 DEF Connect
  <2>5. CASE check' = check
    BY <2>5
  <2> QED
    BY <2>1, <2>2, <2>3, <2>4, <2>5
    DEF LifecycleNext, Dispatch, HandlerStep, TakeClient, ReleaseClient, Answer, ProbeStep, Tick,
        ConnectionLost, ShutdownStep, Drained, CloseFails, DeadlinePasses, Disconnect, PoolEnds,
        Signal, FatalError, Exited, lifecycleVars
<1>2. HealthyAnswersFresh <=> [][Fresh]_lifecycleVars
  BY DEF HealthyAnswersFresh
<1> QED
  BY <1>1, <1>2, LifecycleInvariant, PTL DEF LifecycleSpec
=============================================================================
