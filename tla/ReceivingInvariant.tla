------------------------ MODULE ReceivingInvariant --------------------------
(***************************************************************************)
(* The inductive invariant of GoodsReceiving: what is true of requests in  *)
(* the middle of their handlers, and why the properties of GoodsReceiving  *)
(* hold when they end. Each conjunct is a fact of its own.                 *)
(***************************************************************************)
EXTENDS GoodsReceiving

\* A decision that has begun names a stored suggestion.
DecisionsNamed ==
  \A d \in Decisions : decision[d].state # "idle" =>
    /\ decision[d].verdict \in Verdicts
    /\ decision[d].user \in Users
    /\ decision[d].line \in Lines
    /\ suggestions[decision[d].line] # Absent

Claimed(d) == decision[d].state \in {"applying", "committing"}

\* A claimed suggestion is still pending for everyone else, and claimed once.
ClaimsExclusive ==
  \A d \in Decisions : Claimed(d) =>
    /\ suggestions[decision[d].line].status = "PENDING"
    /\ \A e \in Decisions \ {d} : Claimed(e) => decision[e].line # decision[d].line

KeyOf(u) == document[u].accessKey

\* What holds of an upload at each point of its handler.
UploadPhases ==
  \A u \in Uploads :
    /\ upload[u] \in {"received", "extracting"} => document[u] = Absent
    /\ upload[u] \in {"reading", "matching", "persisting", "auditing", "done"} =>
         document[u] # Absent
    /\ upload[u] = "persisting" => FullyMatched(u) /\ processed[KeyOf(u)] = Absent
    /\ upload[u] \in {"auditing", "done"} => Recorded(u)
    /\ Recorded(u) => /\ upload[u] \in {"auditing", "done", "failed"}
                      /\ FullyMatched(u) /\ applied[u] = Operations(u)
    /\ applied[u] # {} => upload[u] = "persisting" \/ Recorded(u)
    /\ applied[u] \subseteq Operations(u)

\* A recorded access key is that of the invoice that recorded it.
KeysOwned ==
  \A k \in AccessKeys : processed[k] # Absent =>
    document[processed[k]] # Absent /\ KeyOf(processed[k]) = k

\* Two open invoice transactions never hold the same access key.
KeysExclusive ==
  \A u, v \in Uploads :
    upload[u] = "persisting" /\ upload[v] = "persisting" /\ u # v => KeyOf(u) # KeyOf(v)

\* Row locks: only open transactions have written rows, and none of them twice.
LocksExclusive ==
  /\ \A p \in Processes, r \in Rows : writes[p][r] # Absent =>
       \/ p \in Uploads /\ upload[p] = "persisting"
       \/ p \in Decisions /\ decision[p].state = "committing"
  /\ \A p, q \in Processes, r \in Rows :
       writes[p][r] # Absent /\ writes[q][r] # Absent => p = q

\* A suggestion carries what its invoice line says.
SuggestionsMatchLines ==
  \A u \in Uploads, i \in Items : suggestions[<<u, i>>] # Absent =>
    /\ suggestions[<<u, i>>].stock = request[u].stock
    /\ suggestions[<<u, i>>].receivedCode = ItemOf(u, i).code
    /\ suggestions[<<u, i>>].unit = ItemOf(u, i).unit
    /\ suggestions[<<u, i>>].receivedSupplier = document[u].supplier

\* A product was there before the model, or was created in the row of the line
\* it is named for.
Creates(u, i, r) ==
  /\ i \in ItemsOf(u) /\ r = RowOf(u, i)
  /\ Recorded(u)
  /\ IsOperation(u, i) \/ suggestions[<<u, i>>].status = "REJECTED"

ProductsNamed ==
  \A r \in Rows : products[r] # Absent =>
    \/ products[r].id = r
    \/ \E u \in Uploads, i \in Items : products[r].id = <<u, i>> /\ Creates(u, i, r)

\* What is suggested for a line is a product of some stock.
SuggestedExist ==
  \A l \in Lines : suggestions[l] # Absent =>
    \E r \in Rows : products[r] # Absent /\ products[r].id = suggestions[l].suggestedProduct

CountBefore(r, l) == IF products[r] = Absent THEN 0 ELSE products[r].entered[l]

SameCard(p, q) == p.id = q.id /\ p.unit = q.unit /\ p.source = q.source

\* What an open invoice transaction has written is the committed row plus the
\* operations it has applied to it.
InvoiceWrites(u) ==
  /\ \A i \in applied[u] : upload[u] = "persisting" => writes[u][RowOf(u, i)] # Absent
  /\ \A r \in Rows : writes[u][r] # Absent =>
       /\ \A l \in Lines : writes[u][r].entered[l] =
            IF l[1] = u /\ l[2] \in applied[u] /\ RowOf(u, l[2]) = r
            THEN 1 ELSE CountBefore(r, l)
       /\ products[r] # Absent => SameCard(writes[u][r], products[r])
       /\ products[r] = Absent =>
            \E i \in applied[u] : writes[u][r].id = <<u, i>> /\ RowOf(u, i) = r
       /\ \A i \in applied[u] : RowOf(u, i) = r =>
            Accumulates(writes[u][r], ItemOf(u, i).unit, document[u].supplier, TRUE)

\* What a decision about to commit has written: one row, one more line in it.
DecisionTarget(d, r) ==
  IF decision[d].verdict = "CONFIRMED" THEN r \in SuggestedRows(d)
  ELSE r = ReceivedRow(d) /\ products[r] = Absent

DecisionWrote(d, r) ==
  /\ DecisionTarget(d, r)
  /\ writes[d][r] # Absent
  /\ \A q \in Rows \ {r} : writes[d][q] = Absent
  /\ \A l \in Lines : writes[d][r].entered[l] =
       IF l = decision[d].line THEN 1 ELSE CountBefore(r, l)
  /\ products[r] # Absent => SameCard(writes[d][r], products[r])
  /\ products[r] = Absent =>
       /\ writes[d][r].id = decision[d].line
       /\ writes[d][r].source = SuggestionOf(d).receivedSupplier
  /\ writes[d][r].unit = SuggestionOf(d).unit

DecisionWrites(d) ==
  decision[d].state = "committing" => \E r \in Rows : DecisionWrote(d, r)

-----------------------------------------------------------------------------
(* Who asked, what was read and what was answered.                         *)

\* Suggested products are products of the upload's stock, or will be; nothing is
\* planned before the catalog is read.
PlanResolves(u) ==
  /\ upload[u] \in {"received", "extracting", "reading"} => plan[u] = NoPlan
  /\ \A c \in Codes : snapshot[u][c] # Absent =>
       /\ products[<<request[u].stock, c>>] # Absent
       /\ products[<<request[u].stock, c>>].id = snapshot[u][c].id
  /\ \A i \in Suggested(u) : plan[u][i].suggestedProduct \in Candidates(u)

PlansResolve == \A u \in Uploads : PlanResolves(u)

\* Only an acceptable reading gets past the checks of the use case.
AcceptedOnly ==
  \A u \in Uploads : upload[u] \in {"reading", "matching", "persisting"} =>
    Acceptable(document[u])

AuthorizedUploads ==
  \A u \in Uploads : upload[u] \notin {"received", "failed"} \/ Recorded(u) =>
    <<request[u].user, request[u].stock>> \in Access

AuthorizedDecisions ==
  /\ \A d \in Decisions : decision[d].state # "idle" =>
       <<decision[d].user, SuggestionOf(d).stock>> \in Access
  /\ \A l \in Lines : Decided(l) =>
       <<suggestions[l].decidedBy, suggestions[l].stock>> \in Access

\* A line that is for good in the stock: entered automatically, or decided.
Settled(l) ==
  /\ Recorded(l[1])
  /\ l[2] \in ItemsOf(l[1])
  /\ IsOperation(l[1], l[2]) \/ Decided(l)

\* Lines are audited once they are settled, and a decision when it is made.
AuditedSettled ==
  /\ \A l \in audited : Settled(l)
  /\ \A d \in Decisions : decision[d].state = "auditing" => Decided(decision[d].line)

(***************************************************************************)
(* The inductive invariant. Its first part is about requests alone and is  *)
(* enough for DecisionsFinal; its second part is about the rows, committed *)
(* and not; the third about what requests know and may do.                 *)
(***************************************************************************)
ProtocolInv ==
  /\ TypeOK
  /\ DecisionsNamed
  /\ ClaimsExclusive
  /\ UploadPhases
  /\ KeysOwned
  /\ KeysExclusive
  /\ InvoiceAllOrNothing

CommittedInv ==
  /\ SuggestionsMatchLines
  /\ ProductsNamed
  /\ SuggestedExist
  /\ EachLineOnce
  /\ OriginsUnmixed

OpenInv ==
  /\ LocksExclusive
  /\ \A u \in Uploads : InvoiceWrites(u)
  /\ \A d \in Decisions : DecisionWrites(d)

StockInv == CommittedInv /\ OpenInv

RequestsInv ==
  /\ PlansResolve
  /\ SuggestionsResolve
  /\ AcceptedOnly
  /\ AuthorizedUploads
  /\ AuthorizedDecisions
  /\ AuditedSettled

ReceivingInv == ProtocolInv /\ StockInv /\ RequestsInv

=============================================================================
