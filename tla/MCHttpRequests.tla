--------------------------- MODULE MCHttpRequests ---------------------------
(***************************************************************************)
(* A small instance of HttpRequests: a server without a proxy, one behind  *)
(* a proxy that is counted, and one on Render, reached through Cloudflare  *)
(* or not; and environments in which none is started.                      *)
(***************************************************************************)
EXTENDS HttpRequests

CONSTANTS v1, v2, edge, proxy, r1, r2

Plain == [name \in Variables |-> IF name \in DOMAIN Secrets THEN 32 ELSE Unset]

Demonstration ==
  [Plain EXCEPT !["DEMO_ENABLED"] = "true", !["DEMO_COMMANDS_PER_MINUTE"] = 1]

Cloudflare == [Demonstration EXCEPT !["TRUST_PROXY_MODE"] = "render-cloudflare"]
OnRender   == [Cloudflare EXCEPT !["RENDER"] = "true"]

Placements ==
  {[environment |-> Plain, proxies |-> <<>>, web |-> FALSE],
   [environment |-> [Demonstration EXCEPT !["TRUST_PROXY_HOPS"] = 1],
    proxies |-> <<proxy>>, web |-> TRUE],
   [environment |-> OnRender, proxies |-> <<edge, proxy>>, web |-> TRUE],
   [environment |-> OnRender, proxies |-> <<proxy>>, web |-> TRUE],
   \* Refused:
   [environment |-> Cloudflare, proxies |-> <<>>, web |-> TRUE],
   [environment |-> [OnRender EXCEPT !["TRUST_PROXY_HOPS"] = 2],
    proxies |-> <<edge, proxy>>, web |-> TRUE],
   [environment |-> [Plain EXCEPT !["JWT_SECRET"] = 31], proxies |-> <<>>, web |-> FALSE],
   [environment |-> [Plain EXCEPT !["TRUST_PROXY_HOPS"] = 11], proxies |-> <<>>, web |-> FALSE],
   [environment |-> [Plain EXCEPT !["DEMO_ENABLED"] = Malformed], proxies |-> <<>>, web |-> FALSE],
   [environment |-> [Plain EXCEPT !["CORS_ALLOWED_ORIGINS"] = {Malformed}],
    proxies |-> <<>>, web |-> FALSE]}

\* Nothing, or the address of another visitor, perhaps behind an edge.
Headers == {<<>>, <<v2>>, <<v2, edge>>}

\* Bound: requests are named in the order they arrive, the first from the visitor
\* whose address is forged by none; one that neither counts nor keeps a file is
\* not the second.
Shares(route) == route \in {"upload", "login", "demo:restart", "health", "version"}

Ordered ==
  /\ request[r1].route # "none" => request[r1].visitor = v1
  /\ request[r2].route # "none" => request[r1].route # "none" /\ Shares(request[r2].route)

MCSpec == Init /\ [][Next /\ Ordered']_vars /\ \A r \in Requests : WF_vars(Progress(r))

=============================================================================
