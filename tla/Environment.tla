----------------------------- MODULE Environment -----------------------------
(***************************************************************************)
(* createEnv: what the process makes of its environment variables, or that *)
(* it refuses to start.  A secret is known by its length, a decimal number *)
(* by its hundredths, any other value that does not parse is Malformed.    *)
(*                                                                         *)
(* An operator called X_Faulty... is X with a plausible mistake in it: no  *)
(* definition uses it, the mutation runs put it in X's place.              *)
(***************************************************************************)
EXTENDS Integers

CONSTANTS
  Unset,      (* A variable that is absent or blank.                       *)
  Malformed,  (* Text that is neither a number nor a word expected.        *)
  Refused     (* createEnv throws.                                         *)

\* Least length of what must be there.
Secrets == [DATABASE_URL |-> 1, GEMINI_API_KEY |-> 1, JWT_SECRET |-> 32, INVITE_CODE |-> 8]

Within(default, least, most) == [default |-> default, least |-> least, most |-> most]

Numbers ==
  [PORT                            |-> Within(3333, 1, 65535),
   GEMINI_TIMEOUT_MS               |-> Within(30000, 1000, 30000),
   GEMINI_MAX_ATTEMPTS             |-> Within(2, 1, 2),
   TRUST_PROXY_HOPS                |-> Within(0, 0, 10),
   REQUEST_TIMEOUT_MS              |-> Within(120000, 30000, 300000),
   SHUTDOWN_TIMEOUT_MS             |-> Within(30000, 1000, 120000),
   SIMILARITY_CONFIDENCE_THRESHOLD |-> Within(70, 0, 100),
   DANFE_MAX_ITEMS                 |-> Within(100, 1, 1000),
   GEMINI_GLOBAL_REQUESTS_PER_DAY  |-> Within(18, 1, 20),
   GEMINI_USER_REQUESTS_PER_DAY    |-> Within(5, 1, 20),
   DEMO_COMMANDS_PER_MINUTE        |-> Within(5, 1, 60)]

Switches ==
  [GEMINI_ENABLED |-> TRUE, GEMINI_QUOTA_ENFORCEMENT_ENABLED |-> FALSE, DEMO_ENABLED |-> FALSE]

Variables == DOMAIN Secrets \cup DOMAIN Numbers \cup DOMAIN Switches
             \cup {"TRUST_PROXY_MODE", "RENDER", "CORS_ALLOWED_ORIGINS"}

\* required, requireJwtSecret, requireInviteCode
Required(value, least) == IF value # Unset /\ value >= least THEN value ELSE Refused

\* parsePort, parseIntegerInRange, parseDecimalInRange
Parsed(value, number) ==
  CASE value = Unset                         -> number.default
    [] value \in number.least .. number.most -> value
    [] OTHER                                 -> Refused

\* parseCorsAllowedOrigins: a list is known by its entries; one that is anything
\* but an http or https origin, "*" included, is Malformed.
Origins(value) ==
  CASE value = Unset         -> {}
    [] Malformed \in value   -> Refused
    [] OTHER                 -> value

\* parseBoolean
Switched(value, default) ==
  CASE value = Unset   -> default
    [] value = "true"  -> TRUE
    [] value = "false" -> FALSE
    [] OTHER           -> Refused

\* The platform is not asked for.
TrustProxyMode_FaultyAnywhere(environment, hops) ==
  LET mode == environment["TRUST_PROXY_MODE"] IN
  CASE mode \in {Unset, "hops"}                -> "hops"
    [] mode = "render-cloudflare" /\ hops = 0 -> mode
    [] OTHER                                  -> Refused

\* parseTrustProxyMode: trust by place needs the platform that guarantees it.
TrustProxyMode(environment, hops) ==
  LET mode == environment["TRUST_PROXY_MODE"] IN
  CASE mode \in {Unset, "hops"} -> "hops"
    [] mode = "render-cloudflare" /\ hops = 0 /\ environment["RENDER"] = "true" -> mode
    [] OTHER -> Refused

CreateEnv(environment) ==
  LET numbers == [name \in DOMAIN Numbers |-> Parsed(environment[name], Numbers[name])]
      env     == [name \in Variables \ {"RENDER"} |->
        CASE name \in DOMAIN Numbers      -> numbers[name]
          [] name \in DOMAIN Switches     -> Switched(environment[name], Switches[name])
          [] name \in DOMAIN Secrets      -> Required(environment[name], Secrets[name])
          [] name = "TRUST_PROXY_MODE"     -> TrustProxyMode(environment, numbers["TRUST_PROXY_HOPS"])
          [] name = "CORS_ALLOWED_ORIGINS" -> Origins(environment[name])]
  IN IF \E name \in DOMAIN env : env[name] = Refused THEN Refused ELSE env

\* The numbers a process that has started may run with.
Accepted(name) == Numbers[name].least .. Numbers[name].most

=============================================================================
