------------------------------ MODULE AiBudget ------------------------------
(***************************************************************************)
(* What the AI budget promises, without rows, locks, timers or retries: a  *)
(* request is charged to its user and to everybody together, before or as  *)
(* it is sent, and while the caps are enforced no day is charged more than *)
(* they allow.                                                             *)
(***************************************************************************)
EXTENDS Naturals

CONSTANTS
  Users,      (* Authenticated users.                                      *)
  LastDay,    (* Bound: UTC days.                                          *)
  GlobalCap,  (* Requests a day for everybody together.                    *)
  UserCap,    (* Requests a day for one user.                              *)
  Enforced    (* Whether the caps are enforced.                            *)

VARIABLES
  charged,    (* Requests charged to each user on each day.                *)
  total,      (* Requests charged to everybody on each day.                *)
  sent        (* Requests sent for each user on each day.                  *)

budgetVars == <<charged, total, sent>>

Days == 1 .. LastDay

BudgetInit ==
  /\ charged = [user \in Users |-> [day \in Days |-> 0]]
  /\ total = [day \in Days |-> 0]
  /\ sent = [user \in Users |-> [day \in Days |-> 0]]

Charge(user, day) ==
  /\ Enforced => charged[user][day] < UserCap /\ total[day] < GlobalCap
  /\ charged' = [charged EXCEPT ![user][day] = @ + 1]
  /\ total' = [total EXCEPT ![day] = @ + 1]
  /\ sent' \in {sent, [sent EXCEPT ![user][day] = @ + 1]}

BudgetNext == \E user \in Users, day \in Days : Charge(user, day)

BudgetSpec == BudgetInit /\ [][BudgetNext]_budgetVars

=============================================================================
