---------------------------- MODULE MCBrowserTab ----------------------------
(***************************************************************************)
(* A small instance of BrowserTab, and of Accounts in it.                  *)
(***************************************************************************)
EXTENDS BrowserTab, TLC

CONSTANTS ana, bia, p1, p2, r1, r2, r3, r4

\* One account exists, the other e-mail is free.
MCInitial == (ana :> [hash |-> Hash(p1), authVersion |-> 1]) @@ (bia :> Absent)

\* Requests are named as one likes, but for the last to be made.
AnyRequest == Permutations(Requests \ {r4})

Untouched == route = "/" /\ \A r \in Requests : mail[r] = "none"

LogsInOrChanges(r) == job[r].kind \in {"login", "change"}

\* Bound: that one is made only where the tab takes no part, and beside the tab
\* the other clients only log in and change passwords.
Room == \/ Untouched /\ (pc[r4] = "idle" \/ \A r \in Requests : pc[r] # "idle")
        \/ /\ pc[r4] = "idle"
           /\ \A r \in Requests : pc[r] # "idle" /\ mail[r] = "none" => LogsInOrChanges(r)

MCSpec == TabInit /\ [][TabNext /\ Room']_tabVars
=============================================================================
