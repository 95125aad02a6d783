------------------------- MODULE SuggestionDecision -------------------------
(***************************************************************************)
(* ConfirmProductSuggestionUseCase and RejectProductSuggestionUseCase with *)
(* the transactions of PrismaProductSuggestionRepository. Each decision is *)
(* a process of its own: two people, or one person twice, may decide the   *)
(* same suggestion while invoices enter the same products.                 *)
(*                                                                         *)
(* An operator called X_Faulty... is X with a plausible mistake in it: no   *)
(* definition uses it, the mutation runs put it in X's place.              *)
(***************************************************************************)
EXTENDS StockStore

VARIABLE
  decision     (* Where each decision stands and what it decides.          *)

DecisionStates == {"idle", "claiming", "applying", "committing",
                   "auditing", "done", "failed"}
Verdicts == {"CONFIRMED", "REJECTED"}
Decision == [state : DecisionStates, verdict : Verdicts \cup {Absent},
             line : Lines \cup {Absent}, user : Users \cup {Absent}]

DecisionTypeOK == decision \in [Decisions -> Decision]

DecisionInit ==
  decision = [d \in Decisions |->
                [state |-> "idle", verdict |-> Absent, line |-> Absent, user |-> Absent]]

DecisionMoves(d, from, to) ==
  /\ decision[d].state = from
  /\ decision' = [decision EXCEPT ![d].state = to]

SuggestionOf(d) == suggestions[decision[d].line]

-----------------------------------------------------------------------------
Decide_FaultyNoAccessCheck(d, user, line, verdict) ==
  /\ decision[d].state = "idle"
  /\ suggestions[line] # Absent
  /\ decision' = [decision EXCEPT ![d] =
       [state |-> "claiming", verdict |-> verdict, line |-> line, user |-> user]]
  /\ UNCHANGED <<storeVars, audited>>

(* authorizeProductSuggestion: the suggestion is read, then the access of  *)
(* the user to the suggestion's stock. Unknown suggestions and foreign     *)
(* stocks change nothing.                                                  *)
Decide(d, user, line, verdict) ==
  /\ decision[d].state = "idle"
  /\ suggestions[line] # Absent
  /\ <<user, suggestions[line].stock>> \in Access
  /\ decision' = [decision EXCEPT ![d] =
       [state |-> "claiming", verdict |-> verdict, line |-> line, user |-> user]]
  /\ UNCHANGED <<storeVars, audited>>

\* The conditional update waits while another open decision has the row.
SuggestionFree(d) ==
  \A e \in Decisions \ {d} :
    decision[e].state \in {"applying", "committing"} => decision[e].line # decision[d].line

ClaimSuggestion_FaultyUnconditional(d) ==
  /\ decision[d].state = "claiming"
  /\ SuggestionFree(d)
  /\ DecisionMoves(d, "claiming", "applying")
  /\ UNCHANGED <<storeVars, audited>>

ClaimSuggestion(d) ==
  /\ decision[d].state = "claiming"
  /\ SuggestionFree(d)
  /\ SuggestionOf(d).status = "PENDING"
  /\ DecisionMoves(d, "claiming", "applying")
  /\ UNCHANGED <<storeVars, audited>>

AlreadyDecided(d) ==
  /\ decision[d].state = "claiming"
  /\ SuggestionFree(d)
  /\ SuggestionOf(d).status # "PENDING"
  /\ DecisionMoves(d, "claiming", "failed")
  /\ UNCHANGED <<storeVars, audited>>

AbandonDecision(d) ==
  /\ DecisionMoves(d, "applying", "failed")
  /\ Rollback(d)
  /\ UNCHANGED audited

\* The rows of the suggested product: one, as an identifier is unique.
SuggestedRows(d) ==
  {r \in Rows : products[r] # Absent /\ products[r].id = SuggestionOf(d).suggestedProduct}

ConfirmAccepted_FaultyAnyUnit(d, r) == r[1] = SuggestionOf(d).stock

ConfirmAccepted(d, r) ==
  /\ r[1] = SuggestionOf(d).stock
  /\ EntryAccepted(d, r, SuggestionOf(d).unit, NoSupplier, FALSE)

ApplyConfirm(d, r) ==
  /\ decision[d].state = "applying"
  /\ decision[d].verdict = "CONFIRMED"
  /\ DecisionMoves(d, "applying", "committing")
  /\ r \in SuggestedRows(d)
  /\ RowFree(d, r)
  /\ ConfirmAccepted(d, r)
  /\ UpsertWeightedProductEntry(d, r, products[r].id, SuggestionOf(d).unit,
                                NoSupplier, decision[d].line)
  /\ UNCHANGED <<processed, products, suggestions, audited>>

RefuseConfirm(d, r) ==
  /\ decision[d].state = "applying"
  /\ decision[d].verdict = "CONFIRMED"
  /\ r \in SuggestedRows(d)
  /\ RowFree(d, r)
  /\ ~ConfirmAccepted(d, r)
  /\ AbandonDecision(d)

ReceivedRow(d) == <<SuggestionOf(d).stock, SuggestionOf(d).receivedCode>>

\* insertNewProductEntry: a plain insert, never an accumulation.
ApplyReject(d) ==
  /\ decision[d].state = "applying"
  /\ decision[d].verdict = "REJECTED"
  /\ DecisionMoves(d, "applying", "committing")
  /\ RowFree(d, ReceivedRow(d))
  /\ Visible(d, ReceivedRow(d)) = Absent
  /\ writes' = [writes EXCEPT ![d][ReceivedRow(d)] =
       NewProduct(decision[d].line, SuggestionOf(d).unit,
                  SuggestionOf(d).receivedSupplier, decision[d].line)]
  /\ UNCHANGED <<processed, products, suggestions, audited>>

RefuseReject(d) ==
  /\ decision[d].state = "applying"
  /\ decision[d].verdict = "REJECTED"
  /\ RowFree(d, ReceivedRow(d))
  /\ Visible(d, ReceivedRow(d)) # Absent
  /\ AbandonDecision(d)

CommitDecision(d) ==
  /\ \E outcome \in {"auditing", "failed"} : DecisionMoves(d, "committing", outcome)
  /\ CommitProducts(d)
  /\ suggestions' = [suggestions EXCEPT ![decision[d].line] =
       [@ EXCEPT !.status = decision[d].verdict, !.decidedBy = decision[d].user]]
  /\ UNCHANGED <<processed, audited>>

\* Deadlock victim, past the transaction timeout, connection lost.
AbortDecision(d) ==
  /\ \E from \in {"claiming", "applying", "committing"} : DecisionMoves(d, from, "failed")
  /\ Rollback(d)
  /\ UNCHANGED audited

AuditDecision(d) ==
  /\ DecisionMoves(d, "auditing", "done")
  /\ audited' \in {audited, audited \cup {decision[d].line}}
  /\ UNCHANGED storeVars

\* What the handler does next when nothing goes wrong beneath it.
DecisionProgress(d) ==
  \/ ClaimSuggestion(d)
  \/ AlreadyDecided(d)
  \/ \E r \in Rows : ApplyConfirm(d, r) \/ RefuseConfirm(d, r)
  \/ ApplyReject(d)
  \/ RefuseReject(d)
  \/ CommitDecision(d)
  \/ AuditDecision(d)

DecisionStep(d) == DecisionProgress(d) \/ AbortDecision(d)

=============================================================================
