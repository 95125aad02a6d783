--------------------------- MODULE GoodsReceiving ---------------------------
(***************************************************************************)
(* Invoice uploads and suggestion decisions running concurrently over one  *)
(* store, in one server process that may crash and restart at any moment.  *)
(***************************************************************************)
EXTENDS InvoiceUpload, SuggestionDecision

CONSTANT
  InitialProducts  (* Contents the products table may start with.          *)

\* Products older than the model: entered by no line of it, named by their row.
ASSUME InitialAssumption ==
  \A contents \in InitialProducts :
    /\ contents \in [Rows -> Product \cup {Absent}]
    /\ \A r \in Rows : contents[r] # Absent =>
         contents[r].id = r /\ contents[r].entered = NoEntries

vars == <<storeVars, uploadVars, decision, audited>>

TypeOK == StoreTypeOK /\ UploadTypeOK /\ DecisionTypeOK

Init == StoreInit(InitialProducts) /\ UploadInit /\ DecisionInit

EndedUpload(u)   == upload[u] \in {"done", "failed"}
RunningDecision(d) == decision[d].state \notin {"idle", "done", "failed"}

\* The process dies: its requests are gone, PostgreSQL rolls back what is open.
Crash ==
  /\ \/ \E u \in Uploads : upload[u] \notin {"received", "done", "failed"}
     \/ \E d \in Decisions : RunningDecision(d)
  /\ upload' = [u \in Uploads |->
       IF upload[u] = "received" THEN "received"
       ELSE IF upload[u] = "done" THEN "done" ELSE "failed"]
  /\ applied' = [u \in Uploads |-> IF upload[u] = "persisting" THEN {} ELSE applied[u]]
  /\ decision' = [d \in Decisions |->
       IF RunningDecision(d) THEN [decision[d] EXCEPT !.state = "failed"] ELSE decision[d]]
  /\ writes' = [p \in Processes |-> NoWrites]
  /\ UNCHANGED <<processed, products, suggestions, request, document, snapshot,
                 plan, audited>>

\* No request is left: the server stays up.
Finished ==
  /\ \A u \in Uploads : EndedUpload(u)
  /\ \A d \in Decisions : ~RunningDecision(d)
  /\ UNCHANGED vars

Next ==
  \/ \E u \in Uploads : UploadStep(u) /\ UNCHANGED decision
  \/ \E d \in Decisions : DecisionStep(d) /\ UNCHANGED uploadVars
  \/ \E d \in Decisions, user \in Users, line \in Lines, verdict \in Verdicts :
       Decide(d, user, line, verdict) /\ UNCHANGED uploadVars
  \/ Crash
  \/ Finished

Spec == Init /\ [][Next]_vars

-----------------------------------------------------------------------------
(* Waiting. A statement waits for the transaction that holds the access    *)
(* key, the suggestion row or the product row it needs.                    *)

UploadWaitsFor(u, p) ==
  \/ /\ p \in Uploads \ {u}
     /\ upload[u] = "matching" /\ FullyMatched(u)
     /\ upload[p] = "persisting" /\ document[p].accessKey = document[u].accessKey
  \/ /\ upload[u] = "persisting" /\ p # u
     /\ \E i \in Items : NextToApply(u, i) /\ writes[p][RowOf(u, i)] # Absent

DecisionWaitsFor(d, p) ==
  \/ /\ p \in Decisions \ {d}
     /\ decision[d].state = "claiming"
     /\ decision[p].state \in {"applying", "committing"} /\ decision[p].line = decision[d].line
  \/ /\ decision[d].state = "applying" /\ p # d
     /\ \E r \in IF decision[d].verdict = "CONFIRMED" THEN SuggestedRows(d) ELSE {ReceivedRow(d)} :
          writes[p][r] # Absent

WaitsFor(p, q) == IF p \in Uploads THEN UploadWaitsFor(p, q) ELSE DecisionWaitsFor(p, q)

Abort(p) ==
  \/ p \in Uploads /\ AbortInvoice(p) /\ UNCHANGED decision
  \/ p \in Decisions /\ AbortDecision(p) /\ UNCHANGED uploadVars

\* PostgreSQL aborts one of the transactions that wait for each other.
BreakDeadlock ==
  \E cycle \in SUBSET Processes \ {{}} :
    /\ \A p \in cycle : \E q \in cycle : WaitsFor(p, q)
    /\ \E p \in cycle : Abort(p)

(***************************************************************************)
(* The event loop runs what is ready and provider calls have a timeout, so *)
(* a request the server has begun takes its next step once nothing blocks  *)
(* it, and a deadlock is broken. Nothing else ends a transaction for sure: *)
(* aborts, failed reads and crashes may happen but none is counted on. A   *)
(* user may never decide, so Decide is not fair either.                    *)
(***************************************************************************)
FairSpec ==
  /\ Spec
  /\ \A u \in Uploads : WF_vars(UploadProgress(u) /\ UNCHANGED decision)
  /\ \A d \in Decisions : WF_vars(DecisionProgress(d) /\ UNCHANGED uploadVars)
  /\ WF_vars(BreakDeadlock)

-----------------------------------------------------------------------------
\* The invoice of u is the one recorded under its access key.
Recorded(u) == document[u] # Absent /\ processed[document[u].accessKey] = u

Decided(l) == suggestions[l] # Absent /\ suggestions[l].status # "PENDING"

\* The product a line of a recorded invoice is to be found in, if any.
Enters(u, i, r) ==
  /\ Recorded(u)
  /\ i \in ItemsOf(u)
  /\ \/ IsOperation(u, i) /\ r = RowOf(u, i)
     \/ /\ suggestions[<<u, i>>] # Absent
        /\ \/ suggestions[<<u, i>>].status = "REJECTED" /\ r = RowOf(u, i)
           \/ /\ suggestions[<<u, i>>].status = "CONFIRMED"
              /\ products[r] # Absent
              /\ products[r].id = suggestions[<<u, i>>].suggestedProduct

(***************************************************************************)
(* No quantity is lost, counted twice or counted in the wrong product: a   *)
(* line is in a product exactly once if the invoice is recorded and the    *)
(* line was an automatic entry, or a decision put it there, and not at all *)
(* otherwise. In particular a pending item is not in the stock.            *)
(***************************************************************************)
EachLineOnce ==
  \A u \in Uploads, i \in Items, r \in Rows :
    IF Enters(u, i, r)
    THEN products[r] # Absent /\ products[r].entered[<<u, i>>] = 1
    ELSE products[r] # Absent => products[r].entered[<<u, i>>] = 0

(***************************************************************************)
(* An invoice is applied as a whole or not at all: when its key is         *)
(* recorded each of its lines is an entry or a suggestion, and an upload   *)
(* that did not record its invoice left no suggestion either.              *)
(***************************************************************************)
InvoiceAllOrNothing ==
  \A u \in Uploads, i \in Items :
    suggestions[<<u, i>>] # Absent
      <=> Recorded(u) /\ i \in ItemsOf(u) /\ ~IsOperation(u, i)

(***************************************************************************)
(* Automatic accumulation never mixes suppliers, and nothing ever mixes    *)
(* units: every line in a product has its unit, and its source unless a    *)
(* person confirmed the line into it.                                      *)
(***************************************************************************)
OriginsUnmixed ==
  \A u \in Uploads, i \in Items, r \in Rows :
    products[r] # Absent /\ products[r].entered[<<u, i>>] > 0 =>
      /\ products[r].unit = ItemOf(u, i).unit
      /\ \/ SameOrigin(products[r], document[u].supplier)
         \/ suggestions[<<u, i>>] # Absent /\ suggestions[<<u, i>>].status = "CONFIRMED"

(***************************************************************************)
(* What every product holds is exactly what was entered in it: no line     *)
(* more than once, none of another supplier or unit.                       *)
(***************************************************************************)
StockExact == EachLineOnce /\ OriginsUnmixed

(***************************************************************************)
(* What a suggestion proposes is a product of its own stock, even when the *)
(* product was new in the same invoice and another upload created its code *)
(* first.                                                                  *)
(***************************************************************************)
SuggestionsResolve ==
  \A l \in Lines : suggestions[l] # Absent =>
    \E c \in Codes :
      /\ products[<<suggestions[l].stock, c>>] # Absent
      /\ products[<<suggestions[l].stock, c>>].id = suggestions[l].suggestedProduct

(***************************************************************************)
(* A stock changes only by uploads sent to it by users with access, and a  *)
(* suggestion is decided only by a user with access to its stock.          *)
(***************************************************************************)
StocksIsolated ==
  /\ \A u \in Uploads, i \in Items, r \in Rows :
       products[r] # Absent /\ products[r].entered[<<u, i>>] > 0 =>
         r[1] = request[u].stock /\ <<request[u].user, r[1]>> \in Access
  /\ \A l \in Lines : Decided(l) =>
       <<suggestions[l].decidedBy, suggestions[l].stock>> \in Access

\* The audit log never reports an entry the stock does not contain.
AuditedLinesEntered ==
  \A l \in audited : \E r \in Rows : products[r] # Absent /\ products[r].entered[l] > 0

(***************************************************************************)
(* A decision is made once and never revised, and a recorded access key    *)
(* never changes hands.                                                    *)
(***************************************************************************)
DecisionsFinal ==
  [][/\ \A l \in Lines : Decided(l) => suggestions'[l] = suggestions[l]
     /\ \A k \in AccessKeys : processed[k] # Absent => processed'[k] = processed[k]]_vars

(***************************************************************************)
(* Every request the server has begun ends, also when transactions wait    *)
(* for each other's rows, suggestions or access keys.                      *)
(***************************************************************************)
RequestsEnd ==
  /\ \A u \in Uploads : upload[u] # "received" ~> EndedUpload(u)
  /\ \A d \in Decisions : RunningDecision(d) ~> ~RunningDecision(d)

-----------------------------------------------------------------------------
(* The receiving contract, with a line "in" when it is in one product, once. *)

EnteredOnce(l) ==
  \E r \in Rows :
    /\ products[r] # Absent /\ products[r].entered[l] = 1
    /\ \A q \in Rows \ {r} : products[q] # Absent => products[q].entered[l] = 0

Receipt(k) ==
  [by |-> processed[k],
   items |-> IF processed[k] = Absent THEN 0 ELSE Len(document[processed[k]].items)]

Stage(l) ==
  IF suggestions[l] # Absent /\ suggestions[l].status = "PENDING" THEN "pending"
  ELSE IF EnteredOnce(l) THEN "in" ELSE "out"

Contract == INSTANCE ReceivingContract WITH
  receipt <- [k \in AccessKeys |-> Receipt(k)],
  stage   <- [l \in Lines |-> Stage(l)]

\* Uploads, decisions and crashes together implement the receiving contract.
ImplementsContract == Contract!ContractSpec

=============================================================================
