------------------------------ MODULE AiLedger ------------------------------
(***************************************************************************)
(* The table ai_usage_ledger, which limits how many requests a day are     *)
(* sent to the AI provider: one row per scope (everybody together, and     *)
(* each user) and UTC day, with the requests reserved and the requests     *)
(* spent. A reservation is one transaction over the global and the user's  *)
(* row, reconciliation another; each takes the global row first and has it *)
(* locked until it ends. A row that does not exist yet counts as zero.     *)
(*                                                                         *)
(* An operator called X_Faulty... is X with a plausible mistake in it: no   *)
(* definition uses it, the mutation runs put it in X's place.              *)
(***************************************************************************)
EXTENDS Environment, FiniteSets

CONSTANTS
  Users,      (* Authenticated users.                                      *)
  Global,     (* The scope of everybody together.                          *)
  Calls,      (* AI operations: extractions and similarity questions.      *)
  CallerOf,   (* The user each call is made for.                           *)
  LastDay,    (* Bound: UTC days.                                          *)
  GlobalCap,  (* GEMINI_GLOBAL_REQUESTS_PER_DAY                            *)
  UserCap,    (* GEMINI_USER_REQUESTS_PER_DAY                              *)
  Enforced    (* GEMINI_QUOTA_ENFORCEMENT_ENABLED                          *)

ASSUME LedgerAssumption ==
  /\ Global \notin Users
  /\ CallerOf \in [Calls -> Users]
  /\ LastDay \in Nat \ {0}
  /\ GlobalCap \in Accepted("GEMINI_GLOBAL_REQUESTS_PER_DAY")
  /\ UserCap \in Accepted("GEMINI_USER_REQUESTS_PER_DAY")
  /\ Enforced \in BOOLEAN

Scopes == Users \cup {Global}
Days   == 1 .. LastDay
Rows   == Scopes \X Days

VARIABLES
  ledger,  (* reservedRequests and spentRequests of each committed row.    *)
  held     (* The rows the open transaction of each call has written.      *)

ledgerVars == <<ledger, held>>

LedgerTypeOK ==
  /\ ledger \in [Rows -> [reserved : Int, spent : Nat]]
  /\ held \in [Calls -> SUBSET Rows]

LedgerInit ==
  /\ ledger = [row \in Rows |-> [reserved |-> 0, spent |-> 0]]
  /\ held = [c \in Calls |-> {}]

Charged(row) == ledger[row].reserved + ledger[row].spent

Cap(scope) == IF scope = Global THEN GlobalCap ELSE UserCap

RowFree(c, row) == \A d \in Calls \ {c} : row \notin held[d]

WithinCap_FaultyCountsSpentOnly(row) == Enforced => ledger[row].spent + 1 <= Cap(row[1])

\* The first statement of a transaction: its row stays locked.
LockRow(c, row) ==
  /\ RowFree(c, row)
  /\ held' = [held EXCEPT ![c] = {row}]
  /\ UNCHANGED ledger

\* What the upsert returns, one more than is committed, respects the cap.
WithinCap(row) == Enforced => Charged(row) + 1 <= Cap(row[1])

\* Both rows of a request of user on day.
RowsOf(user, day) == {<<Global, day>>, <<user, day>>}

CommitReservation(c, user, day) ==
  /\ ledger' = [row \in Rows |-> IF row \in RowsOf(user, day)
                                 THEN [ledger[row] EXCEPT !.reserved = @ + 1]
                                 ELSE ledger[row]]
  /\ held' = [held EXCEPT ![c] = {}]

Rollback(c) ==
  /\ held' = [held EXCEPT ![c] = {}]
  /\ UNCHANGED ledger

\* From reserved to spent in both scopes, in the period of the reservation: the second
\* UPDATE and COMMIT.
CommitReconciliation(c, user, day) ==
  /\ \A row \in RowsOf(user, day) : RowFree(c, row)
  /\ ledger' = [row \in Rows |-> IF row \in RowsOf(user, day)
                                 THEN [reserved |-> ledger[row].reserved - 1,
                                       spent |-> ledger[row].spent + 1]
                                 ELSE ledger[row]]
  /\ held' = [held EXCEPT ![c] = {}]

=============================================================================
