------------------------ MODULE GoodsReceivingProofs ------------------------
(***************************************************************************)
(* Proofs about GoodsReceiving for every value of its constants.           *)
(***************************************************************************)
EXTENDS ReceivingInvariant, SequenceTheorems, TLAPS

\* The items of an upload's invoice are numbered within the bound, and each
\* names a row of the upload's stock.
LEMMA ItemTyped ==
  ASSUME TypeOK, NEW u \in Uploads, NEW i \in ItemsOf(u)
  PROVE  /\ document[u] \in Documents
         /\ i \in Items
         /\ ItemOf(u, i) \in Item
         /\ RowOf(u, i) \in Rows
         /\ document[u].supplier \in Suppliers
         /\ document[u].accessKey \in AccessKeys
<1>1. document[u] # Absent /\ i \in DOMAIN document[u].items
  BY DEF ItemsOf
<1>2. document[u] \in Documents
  BY <1>1 DEF TypeOK, UploadTypeOK
<1>3. /\ document[u].items \in Seq(Item) /\ Len(document[u].items) <= MaxItems
      /\ document[u].supplier \in Suppliers /\ document[u].accessKey \in AccessKeys
  BY <1>2, DocumentAssumption
<1>4. /\ Len(document[u].items) \in Nat
      /\ DOMAIN document[u].items = 1 .. Len(document[u].items)
      /\ document[u].items \in [1 .. Len(document[u].items) -> Item]
  BY <1>3, LenProperties
<1>5. i \in Items /\ ItemOf(u, i) \in Item
  BY <1>1, <1>3, <1>4, StoreAssumption DEF Items, ItemOf
<1>6. request[u].stock \in Stocks
  BY DocumentAssumption DEF TypeOK, UploadTypeOK
<1> QED BY <1>2, <1>3, <1>5, <1>6 DEF RowOf, Rows, Item

-----------------------------------------------------------------------------
(* Type correctness.                                                       *)

\* The rows a transaction sees, and what an entry makes of them, are products.
LEMMA VisibleTyped ==
  ASSUME StoreTypeOK, NEW p \in Processes, NEW r \in Rows
  PROVE  Visible(p, r) \in Product \cup {Absent}
BY DEF StoreTypeOK, Visible

\* A row created by a first entry is a product.
LEMMA NewProductTyped ==
  ASSUME NEW id \in ProductIds, NEW unit \in Units,
         NEW source \in Suppliers \cup {NoSupplier}, NEW l \in Lines
  PROVE  NewProduct(id, unit, source, l) \in Product
BY DEF NewProduct, Product, NoEntries

\* What an entry makes of a row, new or already there, is a product.
LEMMA EntryTyped ==
  ASSUME StoreTypeOK, NEW p \in Processes, NEW r \in Rows,
         NEW id \in ProductIds, NEW unit \in Units,
         NEW source \in Suppliers \cup {NoSupplier}, NEW l \in Lines
  PROVE  EntryResult(p, r, id, unit, source, l) \in Product
<1>1. CASE Visible(p, r) = Absent
  BY <1>1, NewProductTyped DEF EntryResult
<1>2. CASE Visible(p, r) # Absent
  <2>1. Visible(p, r) \in Product
    BY <1>2, VisibleTyped
  <2>2. [Visible(p, r) EXCEPT !.entered[l] = @ + 1] \in Product
    BY <2>1 DEF Product
  <2> QED BY <1>2, <2>2 DEF EntryResult
<1> QED BY <1>1, <1>2

\* An empty set of uncommitted writes has the type of one.
LEMMA NoWritesTyped == NoWrites \in [Rows -> Product \cup {Absent}]
BY DEF NoWrites

\* A commit publishes the transaction's rows and empties its writes, both within
\* their types (the persistence repository's COMMIT).
LEMMA CommitProductsTyped ==
  ASSUME StoreTypeOK, NEW p \in Processes, CommitProducts(p)
  PROVE  /\ products' \in [Rows -> Product \cup {Absent}]
         /\ writes' \in [Processes -> [Rows -> Product \cup {Absent}]]
<1>1. products' \in [Rows -> Product \cup {Absent}]
  BY VisibleTyped DEF CommitProducts
<1>2. writes' \in [Processes -> [Rows -> Product \cup {Absent}]]
  BY NoWritesTyped DEF CommitProducts, StoreTypeOK
<1> QED BY <1>1, <1>2

\* A rollback drops uncommitted writes and leaves the store well typed.
LEMMA RollbackTyped ==
  ASSUME StoreTypeOK, NEW p \in Processes, Rollback(p), UNCHANGED audited
  PROVE  StoreTypeOK'
BY NoWritesTyped DEF Rollback, StoreTypeOK

\* Writing one product inside a transaction leaves the store well typed.
LEMMA WriteTyped ==
  ASSUME StoreTypeOK, NEW p \in Processes, NEW r \in Rows, NEW product \in Product,
         writes' = [writes EXCEPT ![p][r] = product],
         UNCHANGED <<processed, products, suggestions, audited>>
  PROVE  StoreTypeOK'
BY DEF StoreTypeOK

\* A handler's move between two of its states leaves its state within its type.
LEMMA MovesTyped ==
  ASSUME UploadTypeOK, NEW u \in Uploads, NEW from, NEW to \in UploadStates,
         Moves(u, from, to)
  PROVE  upload' \in [Uploads -> UploadStates]
BY DEF UploadTypeOK, Moves

\* The initial states are well typed.
LEMMA TypeInit == Init => TypeOK
<1> SUFFICES ASSUME Init PROVE TypeOK
  OBVIOUS
<1>1. StoreTypeOK
  BY InitialAssumption, NoWritesTyped DEF Init, StoreInit, StoreTypeOK
<1>2. UploadTypeOK
  BY DEF Init, UploadInit, UploadTypeOK, UploadStates, NoPlan, PlanStep
<1>3. DecisionTypeOK
  BY DEF Init, DecisionInit, DecisionTypeOK, Decision, DecisionStates
<1> QED BY <1>1, <1>2, <1>3 DEF TypeOK

\* Cards read from the store.
LEMMA CommittedCardTyped ==
  ASSUME TypeOK, NEW r \in Rows
  PROVE  CommittedCard(r) \in Card \cup {Absent}
BY DEF TypeOK, StoreTypeOK, CommittedCard, CardOf, Card, Product

\* The products offered to the model are identifiers of products.
LEMMA CandidatesTyped ==
  ASSUME TypeOK, NEW u \in Uploads
  PROVE  Candidates(u) \subseteq ProductIds
<1>1. \A c \in Codes : snapshot[u][c] # Absent => snapshot[u][c].id \in ProductIds
  BY DEF TypeOK, UploadTypeOK, Card
<1>2. \A i \in Created(u) : <<u, i>> \in ProductIds
  BY ItemTyped DEF Created, ProductIds, Lines
<1> QED BY <1>1, <1>2 DEF Candidates

\* Planning one line leaves the state well typed.
LEMMA PlanItemTyped ==
  ASSUME TypeOK, NEW u \in Uploads, NEW i \in Items, NEW kind, NEW product,
         [kind |-> kind, suggestedProduct |-> product] \in PlanStep,
         PlanItem(u, i, kind, product), UNCHANGED decision
  PROVE  TypeOK'
<1>1. plan' \in [Uploads -> [Items -> PlanStep]]
  BY DEF TypeOK, UploadTypeOK, PlanItem
<1>2. StoreTypeOK'
  BY DEF TypeOK, StoreTypeOK, PlanItem, storeVars
<1>3. UploadTypeOK'
  BY <1>1 DEF TypeOK, UploadTypeOK, PlanItem
<1>4. DecisionTypeOK'
  BY DEF TypeOK, DecisionTypeOK
<1> QED BY <1>2, <1>3, <1>4 DEF TypeOK

\* A step that only moves the handler.
LEMMA MoveTyped ==
  ASSUME TypeOK, NEW u \in Uploads, NEW from, NEW to \in UploadStates,
         Moves(u, from, to),
         UNCHANGED <<storeVars, request, document, snapshot, plan, applied, audited>>,
         UNCHANGED decision
  PROVE  TypeOK'
<1>1. upload' \in [Uploads -> UploadStates]
  BY MovesTyped DEF TypeOK
<1>2. StoreTypeOK'
  BY DEF TypeOK, StoreTypeOK, storeVars
<1>3. UploadTypeOK'
  BY <1>1 DEF TypeOK, UploadTypeOK
<1>4. DecisionTypeOK'
  BY DEF TypeOK, DecisionTypeOK
<1> QED BY <1>2, <1>3, <1>4 DEF TypeOK

\* A failed transaction that ends leaves the state well typed.
LEMMA EndWithRollbackTyped ==
  ASSUME TypeOK, NEW u \in Uploads, EndWithRollback(u), UNCHANGED decision
  PROVE  TypeOK'
<1>1. upload' \in [Uploads -> UploadStates]
  BY MovesTyped DEF TypeOK, EndWithRollback, UploadStates
<1>2. StoreTypeOK'
  BY RollbackTyped DEF TypeOK, EndWithRollback, Processes
<1>3. UploadTypeOK'
  BY <1>1 DEF TypeOK, UploadTypeOK, EndWithRollback
<1>4. DecisionTypeOK'
  BY DEF TypeOK, DecisionTypeOK
<1> QED BY <1>2, <1>3, <1>4 DEF TypeOK

\* The suggestion recorded for a line is a suggestion.
LEMMA NewSuggestionTyped ==
  ASSUME TypeOK, NEW u \in Uploads, NEW i \in Suggested(u)
  PROVE  NewSuggestion(u, i) \in Suggestion /\ NewSuggestion(u, i) # Absent
<1>1. i \in ItemsOf(u) /\ plan[u][i].kind = "suggest"
  BY DEF Suggested
<1>2. ItemOf(u, i) \in Item /\ i \in Items /\ document[u].supplier \in Suppliers
  BY <1>1, ItemTyped
<1>3. request[u].stock \in Stocks
  BY DocumentAssumption DEF TypeOK, UploadTypeOK
<1>4. plan[u][i].suggestedProduct \in ProductIds
  BY <1>1, <1>2 DEF TypeOK, UploadTypeOK, PlanStep
<1>5. NewSuggestion(u, i) \in Suggestion
  BY <1>2, <1>3, <1>4 DEF NewSuggestion, Suggestion, Item
<1> QED BY <1>5, AbsentAssumption

\* An upload's steps up to its transaction leave the state well typed.
LEMMA TypeUploadProgress ==
  ASSUME TypeOK, NEW u \in Uploads, UploadProgress(u), UNCHANGED decision
  PROVE  TypeOK'
<1> USE DEF UploadStates
<1>1. CASE Authorize(u)
  BY <1>1, MoveTyped DEF Authorize
<1>2. CASE DenyUpload(u)
  BY <1>2, MoveTyped DEF DenyUpload
<1>3. CASE Extract(u)
  <2>1. PICK d \in Documents :
          /\ document' = [document EXCEPT ![u] = d]
          /\ Moves(u, "extracting", IF Acceptable(d) THEN "reading" ELSE "failed")
    BY <1>3 DEF Extract
  <2>2. upload' \in [Uploads -> UploadStates]
    BY <2>1, MovesTyped DEF TypeOK
  <2>3. document' \in [Uploads -> Documents \cup {Absent}]
    BY <2>1 DEF TypeOK, UploadTypeOK
  <2> QED BY <1>3, <2>2, <2>3
          DEF Extract, TypeOK, StoreTypeOK, UploadTypeOK, DecisionTypeOK, storeVars
<1>4. CASE ReadCatalog(u)
  <2>1. upload' \in [Uploads -> UploadStates]
    BY <1>4, MovesTyped DEF TypeOK, ReadCatalog
  <2>2. \A c \in Codes : CommittedCard(<<request[u].stock, c>>) \in Card \cup {Absent}
    BY CommittedCardTyped, DocumentAssumption DEF TypeOK, UploadTypeOK, Rows
  <2>3. snapshot' \in [Uploads -> [Codes -> Card \cup {Absent}]]
    BY <1>4, <2>2 DEF ReadCatalog, TypeOK, UploadTypeOK
  <2> QED BY <1>4, <2>1, <2>3
          DEF ReadCatalog, TypeOK, StoreTypeOK, UploadTypeOK, DecisionTypeOK, storeVars
<1>5. ASSUME NEW i \in Items, AddToKnownProduct(u, i)
      PROVE  TypeOK'
  BY <1>5, PlanItemTyped DEF AddToKnownProduct, PlanStep
<1>6. ASSUME NEW i \in Items, RefuseIncompatible(u, i)
      PROVE  TypeOK'
  BY <1>6, MoveTyped DEF RefuseIncompatible, AbandonMatching
<1>7. ASSUME NEW i \in Items, CreateProduct(u, i)
      PROVE  TypeOK'
  BY <1>7, PlanItemTyped DEF CreateProduct, PlanStep
<1>8. ASSUME NEW i \in Items, SuggestProduct(u, i)
      PROVE  TypeOK'
  BY <1>8, PlanItemTyped, CandidatesTyped DEF SuggestProduct, PlanStep
<1>9. ASSUME NEW i \in Items, SimilarityUnavailable(u, i)
      PROVE  TypeOK'
  BY <1>9, MoveTyped DEF SimilarityUnavailable, AbandonMatching
<1>10. ASSUME NEW i \in Items, ApplyOperation(u, i)
       PROVE  TypeOK'
  <2>1. i \in ItemsOf(u)
    BY <1>10 DEF ApplyOperation, NextToApply, Operations
  <2>2. /\ RowOf(u, i) \in Rows /\ ItemOf(u, i).unit \in Units
        /\ document[u].supplier \in Suppliers
    BY <2>1, ItemTyped DEF Item
  <2>3. <<u, i>> \in Lines /\ <<u, i>> \in ProductIds /\ u \in Processes
    BY <1>10 DEF Lines, ProductIds, Processes
  <2>4. EntryResult(u, RowOf(u, i), <<u, i>>, ItemOf(u, i).unit,
                    document[u].supplier, <<u, i>>) \in Product
    BY <2>2, <2>3, EntryTyped DEF TypeOK
  <2>5. StoreTypeOK'
    BY <1>10, <2>2, <2>3, <2>4, WriteTyped
    DEF ApplyOperation, UpsertWeightedProductEntry, TypeOK
  <2>6. applied' \in [Uploads -> SUBSET Items]
    BY <1>10 DEF ApplyOperation, TypeOK, UploadTypeOK
  <2> QED BY <1>10, <2>5, <2>6
          DEF ApplyOperation, TypeOK, UploadTypeOK, DecisionTypeOK
<1>11. ASSUME NEW i \in Items, RefuseOperation(u, i)
       PROVE  TypeOK'
  BY <1>11, EndWithRollbackTyped DEF RefuseOperation
<1>12. CASE BeginPersist(u)
  BY <1>12, MoveTyped DEF BeginPersist
<1>13. CASE CommitInvoice(u)
  <2>1. u \in Processes
    BY DEF Processes
  <2>2. upload' \in [Uploads -> UploadStates]
    BY <1>13, MovesTyped DEF CommitInvoice, TypeOK
  <2>3. processed' \in [AccessKeys -> Uploads \cup {Absent}]
    BY <1>13 DEF CommitInvoice, TypeOK, StoreTypeOK
  <2>4. \A l \in Lines : l[1] = u /\ l[2] \in Suggested(u) =>
          NewSuggestion(u, l[2]) \in Suggestion
    BY NewSuggestionTyped
  <2>5. suggestions' \in [Lines -> Suggestion \cup {Absent}]
    BY <1>13, <2>4 DEF CommitInvoice, TypeOK, StoreTypeOK
  <2> QED BY <1>13, <2>1, <2>2, <2>3, <2>5, CommitProductsTyped
          DEF CommitInvoice, TypeOK, StoreTypeOK, UploadTypeOK, DecisionTypeOK
<1>14. CASE RefuseSuggestions(u)
  BY <1>14, EndWithRollbackTyped DEF RefuseSuggestions
<1>15. CASE AuditOperations(u)
  <2>1. upload' \in [Uploads -> UploadStates]
    BY <1>15, MovesTyped DEF AuditOperations, TypeOK
  <2>2. audited' \subseteq Lines
    <3>1. \A i \in Operations(u) : <<u, i>> \in Lines
      BY ItemTyped DEF Operations, Lines
    <3> QED BY <1>15, <3>1 DEF AuditOperations, TypeOK, StoreTypeOK
  <2> QED BY <1>15, <2>1, <2>2
          DEF AuditOperations, TypeOK, StoreTypeOK, UploadTypeOK, DecisionTypeOK, storeVars
<1> QED
  BY <1>1, <1>2, <1>3, <1>4, <1>5, <1>6, <1>7, <1>8, <1>9, <1>10, <1>11, <1>12,
     <1>13, <1>14, <1>15
  DEF UploadProgress

\* A step that only moves a decision.
LEMMA DecisionMoveTyped ==
  ASSUME TypeOK, NEW d \in Decisions, NEW from, NEW to \in DecisionStates,
         DecisionMoves(d, from, to)
  PROVE  DecisionTypeOK'
BY DEF TypeOK, DecisionTypeOK, DecisionMoves, Decision

\* The store of a decision's rollback.
LEMMA AbandonTyped ==
  ASSUME TypeOK, NEW d \in Decisions, AbandonDecision(d), UNCHANGED uploadVars
  PROVE  TypeOK'
<1>1. StoreTypeOK'
  BY RollbackTyped DEF TypeOK, AbandonDecision, Processes
<1>2. DecisionTypeOK'
  BY DecisionMoveTyped DEF AbandonDecision, DecisionStates
<1> QED BY <1>1, <1>2 DEF TypeOK, UploadTypeOK, uploadVars

\* The suggestion a decision names is a recorded one.
LEMMA SuggestionOfTyped ==
  ASSUME TypeOK, DecisionsNamed, NEW d \in Decisions, decision[d].state # "idle"
  PROVE  SuggestionOf(d) \in Suggestion
BY DEF TypeOK, StoreTypeOK, DecisionsNamed, SuggestionOf

\* A decision's steps leave the state well typed.
LEMMA TypeDecisionStep ==
  ASSUME TypeOK, DecisionsNamed, NEW d \in Decisions, DecisionStep(d), UNCHANGED uploadVars
  PROVE  TypeOK'
<1> USE DEF DecisionStates
<1>0. UploadTypeOK' /\ d \in Processes
  BY DEF TypeOK, UploadTypeOK, uploadVars, Processes
<1>1. CASE ClaimSuggestion(d)
  BY <1>0, <1>1, DecisionMoveTyped DEF ClaimSuggestion, TypeOK, StoreTypeOK, storeVars
<1>2. CASE AlreadyDecided(d)
  BY <1>0, <1>2, DecisionMoveTyped DEF AlreadyDecided, TypeOK, StoreTypeOK, storeVars
<1>3. ASSUME NEW r \in Rows, ApplyConfirm(d, r)
      PROVE  TypeOK'
  <2>1. DecisionTypeOK'
    BY <1>3, DecisionMoveTyped DEF ApplyConfirm
  <2>2. SuggestionOf(d) \in Suggestion /\ decision[d].line \in Lines
    BY <1>3, SuggestionOfTyped DEF ApplyConfirm, DecisionsNamed
  <2>3. products[r].id \in ProductIds
    BY <1>3 DEF ApplyConfirm, SuggestedRows, TypeOK, StoreTypeOK, Product
  <2>4. SuggestionOf(d).unit \in Units
    BY <2>2 DEF Suggestion
  <2>5. EntryResult(d, r, products[r].id, SuggestionOf(d).unit, NoSupplier,
                    decision[d].line) \in Product
    BY <1>0, <2>2, <2>3, <2>4, EntryTyped DEF TypeOK
  <2>6. StoreTypeOK'
    BY <1>0, <1>3, <2>5, WriteTyped DEF ApplyConfirm, UpsertWeightedProductEntry, TypeOK
  <2> QED BY <1>0, <2>1, <2>6 DEF TypeOK
<1>4. ASSUME NEW r \in Rows, RefuseConfirm(d, r)
      PROVE  TypeOK'
  BY <1>4, AbandonTyped DEF RefuseConfirm
<1>5. CASE ApplyReject(d)
  <2>1. DecisionTypeOK'
    BY <1>5, DecisionMoveTyped DEF ApplyReject
  <2>2. SuggestionOf(d) \in Suggestion /\ decision[d].line \in Lines
    BY <1>5, SuggestionOfTyped DEF ApplyReject, DecisionsNamed
  <2>3. /\ ReceivedRow(d) \in Rows /\ SuggestionOf(d).unit \in Units
        /\ SuggestionOf(d).receivedSupplier \in Suppliers
    BY <2>2 DEF ReceivedRow, Rows, Suggestion
  <2>4. NewProduct(decision[d].line, SuggestionOf(d).unit,
                   SuggestionOf(d).receivedSupplier, decision[d].line) \in Product
    BY <2>2, <2>3, NewProductTyped DEF ProductIds
  <2>5. StoreTypeOK'
    BY <1>0, <1>5, <2>3, <2>4, WriteTyped DEF ApplyReject, TypeOK
  <2> QED BY <1>0, <2>1, <2>5 DEF TypeOK
<1>6. CASE RefuseReject(d)
  BY <1>6, AbandonTyped DEF RefuseReject
<1>7. CASE CommitDecision(d)
  <2>1. DecisionTypeOK'
    BY <1>7, DecisionMoveTyped DEF CommitDecision
  <2>2. SuggestionOf(d) \in Suggestion /\ decision[d].line \in Lines
        /\ decision[d].verdict \in Verdicts /\ decision[d].user \in Users
    BY <1>7, SuggestionOfTyped DEF CommitDecision, DecisionMoves, DecisionsNamed
  <2>3. [SuggestionOf(d) EXCEPT !.status = decision[d].verdict,
                                !.decidedBy = decision[d].user] \in Suggestion
    BY <2>2 DEF Suggestion, Verdicts
  <2>4. suggestions' \in [Lines -> Suggestion \cup {Absent}]
    BY <1>7, <2>2, <2>3 DEF CommitDecision, SuggestionOf, TypeOK, StoreTypeOK
  <2>5. StoreTypeOK'
    BY <1>0, <1>7, <2>4, CommitProductsTyped DEF CommitDecision, TypeOK, StoreTypeOK
  <2> QED BY <1>0, <2>1, <2>5 DEF TypeOK
<1>8. CASE AbortDecision(d)
  <2>1. DecisionTypeOK'
    BY <1>8, DecisionMoveTyped DEF AbortDecision
  <2>2. StoreTypeOK'
    BY <1>0, <1>8, RollbackTyped DEF AbortDecision, TypeOK
  <2> QED BY <1>0, <2>1, <2>2 DEF TypeOK
<1>9. CASE AuditDecision(d)
  <2>1. DecisionTypeOK'
    BY <1>9, DecisionMoveTyped DEF AuditDecision
  <2>2. decision[d].line \in Lines
    BY <1>9 DEF AuditDecision, DecisionMoves, DecisionsNamed
  <2> QED BY <1>0, <1>9, <2>1, <2>2 DEF AuditDecision, TypeOK, StoreTypeOK, storeVars
<1> QED
  BY <1>1, <1>2, <1>3, <1>4, <1>5, <1>6, <1>7, <1>8, <1>9
  DEF DecisionStep, DecisionProgress

\* The decision's transaction leaves the state well typed.
LEMMA TypeDecide ==
  ASSUME TypeOK, NEW d \in Decisions, NEW user \in Users, NEW line \in Lines,
         NEW verdict \in Verdicts, Decide(d, user, line, verdict), UNCHANGED uploadVars
  PROVE  TypeOK'
BY DEF Decide, TypeOK, StoreTypeOK, UploadTypeOK, DecisionTypeOK, Decision, DecisionStates,
       storeVars, uploadVars

\* A process that dies leaves the state well typed.
LEMMA TypeCrash ==
  ASSUME TypeOK, Crash
  PROVE  TypeOK'
<1>1. StoreTypeOK'
  BY NoWritesTyped DEF Crash, TypeOK, StoreTypeOK
<1>2. UploadTypeOK'
  BY DEF Crash, TypeOK, UploadTypeOK, UploadStates
<1>3. DecisionTypeOK'
  BY DEF Crash, TypeOK, DecisionTypeOK, Decision, DecisionStates
<1> QED BY <1>1, <1>2, <1>3 DEF TypeOK

\* Every step of an upload leaves the state well typed.
LEMMA TypeUploadStep ==
  ASSUME TypeOK, NEW u \in Uploads, UploadStep(u), UNCHANGED decision
  PROVE  TypeOK'
<1>1. CASE UploadProgress(u)
  BY <1>1, TypeUploadProgress
<1>2. CASE ExtractionFails(u)
  BY <1>2, MoveTyped DEF ExtractionFails, UploadStates
<1>3. CASE StatementFails(u)
  BY <1>3, MoveTyped DEF StatementFails, UploadStates
<1>4. CASE AbortInvoice(u)
  BY <1>4, EndWithRollbackTyped DEF AbortInvoice
<1> QED BY <1>1, <1>2, <1>3, <1>4 DEF UploadStep

-----------------------------------------------------------------------------
(* The protocol part of the invariant: requests and their claims.          *)

\* The protocol invariant holds in the initial states.
LEMMA ProtocolInit == Init => ProtocolInv
<1> SUFFICES ASSUME Init PROVE ProtocolInv
  OBVIOUS
<1>1. TypeOK
  BY TypeInit
<1>2. DecisionsNamed /\ ClaimsExclusive
  BY DEF Init, DecisionInit, DecisionsNamed, ClaimsExclusive, Claimed
<1>3. \A u \in Uploads : ~Recorded(u) /\ ItemsOf(u) = {}
  BY DEF Init, UploadInit, StoreInit, Recorded, ItemsOf
<1>4. UploadPhases /\ KeysOwned /\ KeysExclusive
  BY <1>3 DEF Init, UploadInit, StoreInit, UploadPhases, KeysOwned, KeysExclusive
<1>5. InvoiceAllOrNothing
  BY <1>3 DEF Init, StoreInit, InvoiceAllOrNothing, Lines
<1> QED BY <1>1, <1>2, <1>4, <1>5 DEF ProtocolInv

\* The transitions of a handler that leave store, plan and document alone.
QuietMoves ==
  { <<"received", "extracting">>, <<"received", "failed">>, <<"extracting", "failed">>,
    <<"reading", "matching">>, <<"reading", "failed">>, <<"matching", "failed">>,
    <<"matching", "persisting">>, <<"auditing", "done">> }

\* A step that only moves an upload's handler before its transaction keeps the
\* protocol invariant.
LEMMA ProtocolMove ==
  ASSUME ProtocolInv, TypeOK', NEW u \in Uploads, NEW from, NEW to,
         <<from, to>> \in QuietMoves, Moves(u, from, to),
         to = "persisting" =>
           KeyFree(u) /\ FullyMatched(u) /\ processed[KeyOf(u)] = Absent,
         UNCHANGED <<processed, suggestions, document, plan, applied, decision>>
  PROVE  ProtocolInv'
<1>1. DecisionsNamed' /\ ClaimsExclusive'
  BY DEF ProtocolInv, DecisionsNamed, ClaimsExclusive, Claimed
<1>2. \A v \in Uploads :
        /\ Recorded(v)' <=> Recorded(v)
        /\ FullyMatched(v)' <=> FullyMatched(v)
        /\ Operations(v)' = Operations(v)
        /\ ItemsOf(v)' = ItemsOf(v)
        /\ KeyOf(v)' = KeyOf(v)
        /\ \A i : IsOperation(v, i)' <=> IsOperation(v, i)
  BY DEF Recorded, FullyMatched, Operations, ItemsOf, KeyOf, IsOperation
<1>3. /\ upload[u] = from /\ upload'[u] = to
      /\ \A v \in Uploads \ {u} : upload'[v] = upload[v]
  BY DEF Moves, ProtocolInv, TypeOK, UploadTypeOK
<1>4. UploadPhases'
  BY <1>2, <1>3 DEF UploadPhases, ProtocolInv, QuietMoves
<1>5. KeysOwned'
  BY DEF KeysOwned, KeyOf, ProtocolInv
<1>6. KeysExclusive'
  BY <1>2, <1>3 DEF KeysExclusive, KeyOf, KeyFree, ProtocolInv, QuietMoves
<1>7. InvoiceAllOrNothing'
  BY <1>2 DEF InvoiceAllOrNothing, ProtocolInv
<1> QED BY <1>1, <1>4, <1>5, <1>6, <1>7 DEF ProtocolInv

\* A step of an upload that has recorded nothing and keeps doing so.
LEMMA ProtocolUnrecorded ==
  ASSUME ProtocolInv, TypeOK', NEW u \in Uploads, ~Recorded(u), ~Recorded(u)',
         \A v \in Uploads \ {u} :
           /\ upload'[v] = upload[v] /\ document'[v] = document[v]
           /\ plan'[v] = plan[v] /\ applied'[v] = applied[v],
         upload'[u] \in {"reading", "matching", "persisting", "failed"},
         upload'[u] # "failed" => document'[u] # Absent,
         upload'[u] = "persisting" =>
           /\ upload[u] = "persisting" /\ UNCHANGED document
           /\ FullyMatched(u)',
         applied'[u] # {} => upload'[u] = "persisting",
         applied'[u] \subseteq Operations(u)',
         UNCHANGED <<processed, suggestions, decision>>
  PROVE  ProtocolInv'
<1>1. DecisionsNamed' /\ ClaimsExclusive'
  BY DEF ProtocolInv, DecisionsNamed, ClaimsExclusive, Claimed
<1>2. \A v \in Uploads \ {u} :
        /\ Recorded(v)' <=> Recorded(v)
        /\ FullyMatched(v)' <=> FullyMatched(v)
        /\ Operations(v)' = Operations(v)
        /\ ItemsOf(v)' = ItemsOf(v)
        /\ KeyOf(v)' = KeyOf(v)
        /\ \A i : IsOperation(v, i)' <=> IsOperation(v, i)
  BY DEF Recorded, FullyMatched, Operations, ItemsOf, KeyOf, IsOperation
<1>3. UploadPhases'
  <2>1. \A v \in Uploads \ {u} :
          /\ upload'[v] \in {"received", "extracting"} => document'[v] = Absent
          /\ upload'[v] \in {"reading", "matching", "persisting", "auditing", "done"} =>
               document'[v] # Absent
          /\ upload'[v] = "persisting" => FullyMatched(v)' /\ processed'[KeyOf(v)'] = Absent
          /\ upload'[v] \in {"auditing", "done"} => Recorded(v)'
          /\ Recorded(v)' => /\ upload'[v] \in {"auditing", "done", "failed"}
                             /\ FullyMatched(v)' /\ applied'[v] = Operations(v)'
          /\ applied'[v] # {} => upload'[v] = "persisting" \/ Recorded(v)'
          /\ applied'[v] \subseteq Operations(v)'
    BY <1>2 DEF UploadPhases, ProtocolInv
  <2>2. upload'[u] = "persisting" => processed'[KeyOf(u)'] = Absent
    BY DEF UploadPhases, ProtocolInv, KeyOf
  <2> QED BY <2>1, <2>2 DEF UploadPhases
<1>4. KeysOwned'
  <2> SUFFICES ASSUME NEW k \in AccessKeys, processed[k] # Absent
               PROVE  document'[processed[k]] # Absent /\ document'[processed[k]].accessKey = k
    BY DEF KeysOwned, KeyOf
  <2>1. processed[k] \in Uploads
    BY DEF ProtocolInv, TypeOK, StoreTypeOK
  <2>2. document[processed[k]] # Absent /\ document[processed[k]].accessKey = k
    BY DEF ProtocolInv, KeysOwned, KeyOf
  <2>3. processed[k] # u
    BY <2>2 DEF Recorded
  <2> QED BY <2>1, <2>2, <2>3
<1>5. KeysExclusive'
  BY <1>2 DEF KeysExclusive, KeyOf, ProtocolInv
<1>6. InvoiceAllOrNothing'
  BY <1>2 DEF InvoiceAllOrNothing, ProtocolInv
<1> QED BY <1>1, <1>3, <1>4, <1>5, <1>6 DEF ProtocolInv

\* An upload whose transaction has not committed has recorded nothing.
LEMMA NotYetRecorded ==
  ASSUME ProtocolInv, NEW u \in Uploads, upload[u] \notin {"auditing", "done", "failed"}
  PROVE  /\ ~Recorded(u)
         /\ upload[u] # "persisting" => applied[u] = {}
BY DEF ProtocolInv, UploadPhases

\* Matching one item leaves the protocol part of the invariant alone.
LEMMA ProtocolPlanItem ==
  ASSUME ProtocolInv, TypeOK', NEW u \in Uploads, NEW i \in Items, NEW kind, NEW product,
         upload[u] = "matching", PlanItem(u, i, kind, product), UNCHANGED decision
  PROVE  ProtocolInv'
<1>1. ~Recorded(u) /\ applied[u] = {} /\ document[u] # Absent
  BY NotYetRecorded DEF ProtocolInv, UploadPhases
<1>2. /\ \A v \in Uploads \ {u} : plan'[v] = plan[v]
      /\ UNCHANGED <<processed, suggestions, upload, document, applied>>
  BY DEF PlanItem, ProtocolInv, TypeOK, UploadTypeOK, storeVars
<1>3. ~Recorded(u)'
  BY <1>1, <1>2 DEF Recorded
<1> QED BY <1>1, <1>2, <1>3, ProtocolUnrecorded

\* So does rolling an invoice back.
LEMMA ProtocolRollback ==
  ASSUME ProtocolInv, TypeOK', NEW u \in Uploads, EndWithRollback(u), UNCHANGED decision
  PROVE  ProtocolInv'
<1>1. upload[u] = "persisting" /\ ~Recorded(u)
  BY NotYetRecorded DEF EndWithRollback, Moves
<1>2. /\ upload'[u] = "failed" /\ applied'[u] = {}
      /\ \A v \in Uploads \ {u} : upload'[v] = upload[v] /\ applied'[v] = applied[v]
      /\ UNCHANGED <<processed, suggestions, document, plan>>
  BY DEF EndWithRollback, Moves, Rollback, ProtocolInv, TypeOK, UploadTypeOK
<1>3. ~Recorded(u)'
  BY <1>1, <1>2 DEF Recorded
<1> QED BY <1>1, <1>2, <1>3, ProtocolUnrecorded

\* Committing an invoice records it under its key, which was free, and no other.
LEMMA CommitRecords ==
  ASSUME ProtocolInv, NEW u \in Uploads, CommitInvoice(u)
  PROVE  /\ upload[u] = "persisting" /\ ~Recorded(u) /\ FullyMatched(u)
         /\ document[u] # Absent /\ processed[KeyOf(u)] = Absent
         /\ applied[u] = Operations(u)
         /\ processed'[KeyOf(u)] = u
         /\ \A k \in AccessKeys : k # KeyOf(u) => processed'[k] = processed[k]
         /\ Recorded(u)'
         /\ \A v \in Uploads \ {u} : Recorded(v)' <=> Recorded(v)
<1>1. /\ upload[u] = "persisting" /\ ~Recorded(u) /\ FullyMatched(u)
      /\ document[u] # Absent /\ processed[KeyOf(u)] = Absent
      /\ applied[u] = Operations(u)
  BY NotYetRecorded DEF CommitInvoice, ProtocolInv, UploadPhases
<1>2. KeyOf(u) \in AccessKeys /\ u # Absent /\ UNCHANGED document
  BY <1>1, AbsentAssumption, DocumentAssumption
  DEF KeyOf, ProtocolInv, TypeOK, UploadTypeOK, CommitInvoice
<1>4. /\ processed'[KeyOf(u)] = u
      /\ \A k \in AccessKeys : k # KeyOf(u) => processed'[k] = processed[k]
  BY <1>2 DEF CommitInvoice, KeyOf, ProtocolInv, TypeOK, StoreTypeOK
<1>6. Recorded(u)'
  BY <1>1, <1>2, <1>4 DEF Recorded, KeyOf
<1>7. \A v \in Uploads \ {u} : Recorded(v)' <=> Recorded(v)
  <2> SUFFICES ASSUME NEW v \in Uploads \ {u}, document[v] # Absent
               PROVE  processed'[KeyOf(v)] = v <=> processed[KeyOf(v)] = v
    BY <1>2 DEF Recorded, KeyOf
  <2>1. KeyOf(v) \in AccessKeys
    BY DocumentAssumption DEF KeyOf, ProtocolInv, TypeOK, UploadTypeOK
  <2>2. CASE KeyOf(v) = KeyOf(u)
    <3>1. v # Absent
      BY AbsentAssumption
    <3> QED BY <1>1, <1>4, <2>2, <3>1
  <2>3. CASE KeyOf(v) # KeyOf(u)
    BY <1>4, <2>1, <2>3
  <2> QED BY <2>2, <2>3
<1> QED BY <1>1, <1>4, <1>6, <1>7

\* And committing an invoice: its key was free, and all it leaves behind is
\* its key, its suggestions and its finished plan.
LEMMA ProtocolCommitInvoice ==
  ASSUME ProtocolInv, TypeOK', NEW u \in Uploads, CommitInvoice(u), UNCHANGED decision
  PROVE  ProtocolInv'
<1>1. /\ upload[u] = "persisting" /\ ~Recorded(u) /\ FullyMatched(u)
      /\ document[u] # Absent /\ processed[KeyOf(u)] = Absent
      /\ applied[u] = Operations(u)
  BY CommitRecords
<1>3. /\ upload'[u] \in {"auditing", "failed"}
      /\ \A v \in Uploads \ {u} : upload'[v] = upload[v]
      /\ UNCHANGED <<request, document, snapshot, plan, applied, audited, decision>>
  BY DEF CommitInvoice, Moves, ProtocolInv, TypeOK, UploadTypeOK
<1>4. /\ processed'[KeyOf(u)] = u
      /\ \A k \in AccessKeys : k # KeyOf(u) => processed'[k] = processed[k]
  BY CommitRecords
<1>5. \A v \in Uploads :
        /\ FullyMatched(v)' <=> FullyMatched(v)
        /\ Operations(v)' = Operations(v)
        /\ ItemsOf(v)' = ItemsOf(v)
        /\ KeyOf(v)' = KeyOf(v)
        /\ \A i : IsOperation(v, i)' <=> IsOperation(v, i)
  BY <1>3 DEF FullyMatched, Operations, ItemsOf, KeyOf, IsOperation
<1>6. Recorded(u)'
  BY CommitRecords
<1>7. \A v \in Uploads \ {u} : Recorded(v)' <=> Recorded(v)
  BY CommitRecords
<1>8. \A l \in Lines : suggestions'[l] = IF l[1] = u /\ l[2] \in Suggested(u)
                                         THEN NewSuggestion(u, l[2]) ELSE suggestions[l]
  BY DEF CommitInvoice
<1>9. \A l \in Lines : l[1] = u => suggestions[l] = Absent
  BY <1>1 DEF InvoiceAllOrNothing, ProtocolInv, Lines
<1>10. DecisionsNamed'
  BY <1>3, <1>8, NewSuggestionTyped DEF DecisionsNamed, ProtocolInv
<1>11. ClaimsExclusive'
  <2>1. \A d \in Decisions : Claimed(d) =>
          suggestions'[decision[d].line] = suggestions[decision[d].line]
    BY <1>8, <1>9 DEF ProtocolInv, DecisionsNamed, Claimed
  <2> QED BY <1>3, <2>1 DEF ClaimsExclusive, Claimed, ProtocolInv
<1>12. UploadPhases'
  <2>1. \A v \in Uploads \ {u} : upload[v] = "persisting" => processed'[KeyOf(v)] = Absent
    <3> SUFFICES ASSUME NEW v \in Uploads \ {u}, upload[v] = "persisting"
                 PROVE  processed'[KeyOf(v)] = Absent
      OBVIOUS
    <3>1. KeyOf(v) # KeyOf(u) /\ processed[KeyOf(v)] = Absent /\ document[v] # Absent
      BY <1>1 DEF ProtocolInv, KeysExclusive, UploadPhases
    <3>2. KeyOf(v) \in AccessKeys
      BY <3>1, DocumentAssumption DEF KeyOf, ProtocolInv, TypeOK, UploadTypeOK
    <3> QED BY <1>4, <3>1, <3>2
  <2>2. \A v \in Uploads \ {u} :
          /\ upload'[v] \in {"received", "extracting"} => document'[v] = Absent
          /\ upload'[v] \in {"reading", "matching", "persisting", "auditing", "done"} =>
               document'[v] # Absent
          /\ upload'[v] = "persisting" => FullyMatched(v)' /\ processed'[KeyOf(v)'] = Absent
          /\ upload'[v] \in {"auditing", "done"} => Recorded(v)'
          /\ Recorded(v)' => /\ upload'[v] \in {"auditing", "done", "failed"}
                             /\ FullyMatched(v)' /\ applied'[v] = Operations(v)'
          /\ applied'[v] # {} => upload'[v] = "persisting" \/ Recorded(v)'
          /\ applied'[v] \subseteq Operations(v)'
    BY <1>3, <1>5, <1>7, <2>1 DEF UploadPhases, ProtocolInv
  <2> QED BY <1>1, <1>3, <1>5, <1>6, <2>2 DEF UploadPhases
<1>13. KeysOwned'
  BY <1>1, <1>3, <1>4 DEF KeysOwned, KeyOf, ProtocolInv
<1>14. KeysExclusive'
  BY <1>3, <1>5 DEF KeysExclusive, ProtocolInv
<1>15. InvoiceAllOrNothing'
  <2>1. \A v \in Uploads \ {u}, i \in Items : suggestions'[<<v, i>>] = suggestions[<<v, i>>]
    BY <1>8 DEF Lines
  <2>2. \A v \in Uploads \ {u}, i \in Items :
          suggestions'[<<v, i>>] # Absent
            <=> Recorded(v)' /\ i \in ItemsOf(v)' /\ ~IsOperation(v, i)'
    BY <1>5, <1>7, <2>1 DEF InvoiceAllOrNothing, ProtocolInv
  <2>3. \A i \in Items : i \in Suggested(u) <=> i \in ItemsOf(u) /\ ~IsOperation(u, i)
    BY <1>1 DEF FullyMatched, Suggested, IsOperation, ProtocolInv, TypeOK, UploadTypeOK, PlanStep
  <2>4. \A i \in Items : suggestions'[<<u, i>>] # Absent <=> i \in Suggested(u)
    BY <1>8, <1>9, NewSuggestionTyped DEF ProtocolInv, Lines
  <2> QED BY <1>5, <1>6, <2>2, <2>3, <2>4 DEF InvoiceAllOrNothing
<1> QED BY <1>10, <1>11, <1>12, <1>13, <1>14, <1>15 DEF ProtocolInv

\* Every step of an upload keeps the protocol part of the invariant.
LEMMA ProtocolUploadStep ==
  ASSUME ProtocolInv, NEW u \in Uploads, UploadStep(u), UNCHANGED decision
  PROVE  ProtocolInv'
<1>0. TypeOK'
  BY TypeUploadStep DEF ProtocolInv
<1> USE DEF QuietMoves
<1>1. CASE Authorize(u)
  BY <1>0, <1>1, ProtocolMove DEF Authorize, storeVars
<1>2. CASE DenyUpload(u)
  BY <1>0, <1>2, ProtocolMove DEF DenyUpload, storeVars
<1>3. CASE Extract(u)
  <2>1. PICK d \in Documents :
          /\ document' = [document EXCEPT ![u] = d]
          /\ Moves(u, "extracting", IF Acceptable(d) THEN "reading" ELSE "failed")
    BY <1>3 DEF Extract
  <2>2. upload[u] = "extracting" /\ document[u] = Absent /\ ~Recorded(u) /\ applied[u] = {}
    BY <2>1, NotYetRecorded DEF Moves, ProtocolInv, UploadPhases
  <2>3. /\ document'[u] = d /\ upload'[u] \in {"reading", "failed"}
        /\ \A v \in Uploads \ {u} : upload'[v] = upload[v] /\ document'[v] = document[v]
        /\ UNCHANGED <<processed, suggestions, plan, applied>>
    BY <1>3, <2>1 DEF Extract, Moves, ProtocolInv, TypeOK, UploadTypeOK, storeVars
  <2>4. d # Absent /\ d.accessKey \in AccessKeys
    BY DocumentAssumption
  <2>5. ~Recorded(u)'
    BY <2>2, <2>3, <2>4, AbsentAssumption DEF Recorded, ProtocolInv, KeysOwned
  <2> QED BY <1>0, <2>2, <2>3, <2>4, <2>5, ProtocolUnrecorded
<1>4. CASE ReadCatalog(u)
  BY <1>0, <1>4, ProtocolMove DEF ReadCatalog, storeVars
<1>5. ASSUME NEW i \in Items, AddToKnownProduct(u, i)
      PROVE  ProtocolInv'
  BY <1>0, <1>5, ProtocolPlanItem DEF AddToKnownProduct
<1>6. ASSUME NEW i \in Items, RefuseIncompatible(u, i)
      PROVE  ProtocolInv'
  BY <1>0, <1>6, ProtocolMove DEF RefuseIncompatible, AbandonMatching, storeVars
<1>7. ASSUME NEW i \in Items, CreateProduct(u, i)
      PROVE  ProtocolInv'
  BY <1>0, <1>7, ProtocolPlanItem DEF CreateProduct
<1>8. ASSUME NEW i \in Items, SuggestProduct(u, i)
      PROVE  ProtocolInv'
  BY <1>0, <1>8, ProtocolPlanItem DEF SuggestProduct
<1>9. ASSUME NEW i \in Items, SimilarityUnavailable(u, i)
      PROVE  ProtocolInv'
  BY <1>0, <1>9, ProtocolMove DEF SimilarityUnavailable, AbandonMatching, storeVars
<1>10. ASSUME NEW i \in Items, ApplyOperation(u, i)
       PROVE  ProtocolInv'
  <2>1. /\ upload[u] = "persisting" /\ ~Recorded(u) /\ document[u] # Absent
        /\ FullyMatched(u) /\ applied[u] \subseteq Operations(u) /\ i \in Operations(u)
    BY <1>10, NotYetRecorded DEF ApplyOperation, NextToApply, ProtocolInv, UploadPhases
  <2>2. /\ applied'[u] = applied[u] \cup {i}
        /\ \A v \in Uploads \ {u} : applied'[v] = applied[v]
        /\ UNCHANGED <<processed, suggestions, upload, document, plan>>
    BY <1>10 DEF ApplyOperation, ProtocolInv, TypeOK, UploadTypeOK
  <2>3. ~Recorded(u)' /\ FullyMatched(u)' /\ Operations(u)' = Operations(u)
    BY <2>1, <2>2 DEF Recorded, FullyMatched, Operations, ItemsOf, IsOperation
  <2> QED BY <1>0, <2>1, <2>2, <2>3, ProtocolUnrecorded
<1>11. ASSUME NEW i \in Items, RefuseOperation(u, i)
       PROVE  ProtocolInv'
  BY <1>0, <1>11, ProtocolRollback DEF RefuseOperation
<1>12. CASE BeginPersist(u)
  BY <1>0, <1>12, ProtocolMove DEF BeginPersist, KeyOf, storeVars
<1>13. CASE CommitInvoice(u)
  BY <1>0, <1>13, ProtocolCommitInvoice
<1>14. CASE RefuseSuggestions(u)
  BY <1>0, <1>14, ProtocolRollback DEF RefuseSuggestions
<1>15. CASE AuditOperations(u)
  BY <1>0, <1>15, ProtocolMove DEF AuditOperations, storeVars
<1>16. CASE ExtractionFails(u)
  BY <1>0, <1>16, ProtocolMove DEF ExtractionFails, storeVars
<1>17. CASE StatementFails(u)
  BY <1>0, <1>17, ProtocolMove DEF StatementFails, storeVars
<1>18. CASE AbortInvoice(u)
  BY <1>0, <1>18, ProtocolRollback DEF AbortInvoice
<1> QED
  BY <1>1, <1>2, <1>3, <1>4, <1>5, <1>6, <1>7, <1>8, <1>9, <1>10, <1>11, <1>12,
     <1>13, <1>14, <1>15, <1>16, <1>17, <1>18
  DEF UploadStep, UploadProgress

\* What a decision leaves alone: uploads, keys and which lines have a suggestion.
LEMMA ProtocolSuggestionsKept ==
  ASSUME ProtocolInv, TypeOK', DecisionsNamed', ClaimsExclusive',
         UNCHANGED <<processed, upload, document, plan, applied>>,
         \A l \in Lines : suggestions'[l] = Absent <=> suggestions[l] = Absent
  PROVE  ProtocolInv'
<1>1. \A v \in Uploads :
        /\ Recorded(v)' <=> Recorded(v)
        /\ FullyMatched(v)' <=> FullyMatched(v)
        /\ Operations(v)' = Operations(v)
        /\ ItemsOf(v)' = ItemsOf(v)
        /\ KeyOf(v)' = KeyOf(v)
        /\ \A i : IsOperation(v, i)' <=> IsOperation(v, i)
  BY DEF Recorded, FullyMatched, Operations, ItemsOf, KeyOf, IsOperation
<1>2. UploadPhases' /\ KeysOwned' /\ KeysExclusive'
  BY <1>1 DEF UploadPhases, KeysOwned, KeysExclusive, KeyOf, ProtocolInv
<1>3. InvoiceAllOrNothing'
  BY <1>1 DEF InvoiceAllOrNothing, ProtocolInv, Lines
<1> QED BY <1>2, <1>3 DEF ProtocolInv

\* A decision that moves on without touching a suggestion; it may claim one
\* that is pending and that no other decision holds.
LEMMA ProtocolDecisionMove ==
  ASSUME ProtocolInv, TypeOK', NEW d \in Decisions, NEW from, NEW to,
         DecisionMoves(d, from, to), from # "idle",
         to \in {"applying", "committing"} =>
           \/ from \in {"applying", "committing"}
           \/ SuggestionFree(d) /\ SuggestionOf(d).status = "PENDING",
         UNCHANGED <<processed, suggestions, uploadVars>>
  PROVE  ProtocolInv'
<1>1. /\ decision[d].state = from /\ decision'[d].state = to
      /\ decision'[d].line = decision[d].line /\ decision'[d].user = decision[d].user
      /\ decision'[d].verdict = decision[d].verdict
      /\ \A e \in Decisions \ {d} : decision'[e] = decision[e]
  BY DEF DecisionMoves, ProtocolInv, TypeOK, DecisionTypeOK, Decision
<1>2. DecisionsNamed'
  BY <1>1 DEF DecisionsNamed, ProtocolInv
<1>3. ClaimsExclusive'
  BY <1>1 DEF ClaimsExclusive, Claimed, SuggestionFree, SuggestionOf, ProtocolInv
<1> QED BY <1>2, <1>3, ProtocolSuggestionsKept DEF uploadVars

\* Every step of a decision keeps the protocol part of the invariant.
LEMMA ProtocolDecisionStep ==
  ASSUME ProtocolInv, NEW d \in Decisions, DecisionStep(d), UNCHANGED uploadVars
  PROVE  ProtocolInv'
<1>0. TypeOK'
  BY TypeDecisionStep DEF ProtocolInv
<1>1. CASE ClaimSuggestion(d)
  BY <1>0, <1>1, ProtocolDecisionMove DEF ClaimSuggestion, storeVars
<1>2. CASE AlreadyDecided(d)
  BY <1>0, <1>2, ProtocolDecisionMove DEF AlreadyDecided, storeVars
<1>3. ASSUME NEW r \in Rows, ApplyConfirm(d, r)
      PROVE  ProtocolInv'
  BY <1>0, <1>3, ProtocolDecisionMove DEF ApplyConfirm
<1>4. ASSUME NEW r \in Rows, RefuseConfirm(d, r)
      PROVE  ProtocolInv'
  BY <1>0, <1>4, ProtocolDecisionMove DEF RefuseConfirm, AbandonDecision, Rollback
<1>5. CASE ApplyReject(d)
  BY <1>0, <1>5, ProtocolDecisionMove DEF ApplyReject
<1>6. CASE RefuseReject(d)
  BY <1>0, <1>6, ProtocolDecisionMove DEF RefuseReject, AbandonDecision, Rollback
<1>7. CASE CommitDecision(d)
  <2>1. decision[d].state = "committing" /\ decision[d].line \in Lines
    BY <1>7 DEF CommitDecision, DecisionMoves, ProtocolInv, DecisionsNamed
  <2>2. /\ decision'[d].state \in {"auditing", "failed"}
        /\ decision'[d].line = decision[d].line /\ decision'[d].user = decision[d].user
        /\ decision'[d].verdict = decision[d].verdict
        /\ \A e \in Decisions \ {d} : decision'[e] = decision[e]
    BY <1>7 DEF CommitDecision, DecisionMoves, ProtocolInv, TypeOK, DecisionTypeOK, Decision
  <2>3. SuggestionOf(d) \in Suggestion
    BY <2>1, SuggestionOfTyped DEF ProtocolInv
  <2>4. /\ suggestions'[decision[d].line] \in Suggestion
        /\ \A l \in Lines : l # decision[d].line => suggestions'[l] = suggestions[l]
    BY <1>0, <1>7, <2>1, <2>3
    DEF CommitDecision, ProtocolInv, DecisionsNamed, TypeOK, StoreTypeOK, SuggestionOf,
        Suggestion, Verdicts
  <2>5. \A l \in Lines : suggestions'[l] = Absent <=> suggestions[l] = Absent
    BY <2>1, <2>3, <2>4, AbsentAssumption DEF SuggestionOf
  <2>6. DecisionsNamed'
    BY <2>1, <2>2, <2>5 DEF DecisionsNamed, ProtocolInv
  <2>7. ClaimsExclusive'
    BY <2>1, <2>2, <2>4 DEF ClaimsExclusive, Claimed, ProtocolInv, DecisionsNamed
  <2> QED BY <1>0, <1>7, <2>5, <2>6, <2>7, ProtocolSuggestionsKept
          DEF CommitDecision, uploadVars
<1>8. CASE AbortDecision(d)
  BY <1>0, <1>8, ProtocolDecisionMove DEF AbortDecision, Rollback
<1>9. CASE AuditDecision(d)
  BY <1>0, <1>9, ProtocolDecisionMove DEF AuditDecision, storeVars
<1> QED
  BY <1>1, <1>2, <1>3, <1>4, <1>5, <1>6, <1>7, <1>8, <1>9
  DEF DecisionStep, DecisionProgress

\* A person starts to decide.
LEMMA ProtocolDecide ==
  ASSUME ProtocolInv, NEW d \in Decisions, NEW user \in Users, NEW line \in Lines,
         NEW verdict \in Verdicts, Decide(d, user, line, verdict), UNCHANGED uploadVars
  PROVE  ProtocolInv'
<1>1. TypeOK'
  BY TypeDecide DEF ProtocolInv
<1>2. /\ decision'[d] = [state |-> "claiming", verdict |-> verdict, line |-> line, user |-> user]
      /\ \A e \in Decisions \ {d} : decision'[e] = decision[e]
      /\ UNCHANGED <<processed, suggestions>> /\ suggestions[line] # Absent
  BY DEF Decide, ProtocolInv, TypeOK, DecisionTypeOK, storeVars
<1>3. DecisionsNamed'
  BY <1>2 DEF DecisionsNamed, ProtocolInv
<1>4. ClaimsExclusive'
  BY <1>2 DEF ClaimsExclusive, Claimed, ProtocolInv
<1> QED BY <1>1, <1>2, <1>3, <1>4, ProtocolSuggestionsKept DEF uploadVars

\* The server process dies.
LEMMA ProtocolCrash ==
  ASSUME ProtocolInv, Crash
  PROVE  ProtocolInv'
<1>1. TypeOK'
  BY TypeCrash DEF ProtocolInv
<1>2. \A d \in Decisions :
        /\ decision'[d].state # "idle" => decision[d].state # "idle"
        /\ decision'[d].state \notin {"applying", "committing"}
        /\ decision'[d].line = decision[d].line /\ decision'[d].user = decision[d].user
        /\ decision'[d].verdict = decision[d].verdict
  BY DEF Crash, RunningDecision, ProtocolInv, TypeOK, DecisionTypeOK, Decision, DecisionStates
<1>3. DecisionsNamed' /\ ClaimsExclusive'
  BY <1>2 DEF Crash, DecisionsNamed, ClaimsExclusive, Claimed, ProtocolInv
<1>4. \A v \in Uploads :
        /\ Recorded(v)' <=> Recorded(v)
        /\ FullyMatched(v)' <=> FullyMatched(v)
        /\ Operations(v)' = Operations(v)
        /\ ItemsOf(v)' = ItemsOf(v)
        /\ KeyOf(v)' = KeyOf(v)
        /\ \A i : IsOperation(v, i)' <=> IsOperation(v, i)
  BY DEF Crash, Recorded, FullyMatched, Operations, ItemsOf, KeyOf, IsOperation
<1>5. \A v \in Uploads :
        /\ upload'[v] = IF upload[v] = "received" THEN "received"
                        ELSE IF upload[v] = "done" THEN "done" ELSE "failed"
        /\ applied'[v] = IF upload[v] = "persisting" THEN {} ELSE applied[v]
        /\ document'[v] = document[v]
  BY DEF Crash
<1>6. UploadPhases'
  BY <1>4, <1>5 DEF UploadPhases, ProtocolInv
<1>7. KeysOwned' /\ KeysExclusive'
  BY <1>4, <1>5 DEF Crash, KeysOwned, KeysExclusive, KeyOf, ProtocolInv
<1>8. InvoiceAllOrNothing'
  BY <1>4 DEF Crash, InvoiceAllOrNothing, ProtocolInv
<1> QED BY <1>1, <1>3, <1>6, <1>7, <1>8 DEF ProtocolInv

\* Nothing happens.
LEMMA ProtocolStutter ==
  ASSUME ProtocolInv, UNCHANGED vars
  PROVE  ProtocolInv'
<1>1. TypeOK'
  BY DEF vars, storeVars, uploadVars, ProtocolInv, TypeOK, StoreTypeOK, UploadTypeOK,
         DecisionTypeOK
<1>2. DecisionsNamed' /\ ClaimsExclusive'
  BY DEF vars, storeVars, DecisionsNamed, ClaimsExclusive, Claimed, ProtocolInv
<1> QED BY <1>1, <1>2, ProtocolSuggestionsKept DEF vars, storeVars, uploadVars

\* The protocol part of the invariant is kept by every step.
LEMMA ProtocolStep ==
  ASSUME ProtocolInv, [Next]_vars
  PROVE  ProtocolInv'
<1>1. ASSUME NEW u \in Uploads, UploadStep(u), UNCHANGED decision PROVE ProtocolInv'
  BY <1>1, ProtocolUploadStep
<1>2. ASSUME NEW d \in Decisions, DecisionStep(d), UNCHANGED uploadVars PROVE ProtocolInv'
  BY <1>2, ProtocolDecisionStep
<1>3. ASSUME NEW d \in Decisions, NEW user \in Users, NEW line \in Lines,
             NEW verdict \in Verdicts, Decide(d, user, line, verdict), UNCHANGED uploadVars
      PROVE  ProtocolInv'
  BY <1>3, ProtocolDecide
<1>4. CASE Crash
  BY <1>4, ProtocolCrash
<1>5. CASE Finished \/ UNCHANGED vars
  BY <1>5, ProtocolStutter DEF Finished
<1> QED BY <1>1, <1>2, <1>3, <1>4, <1>5 DEF Next

\* The protocol part of the invariant holds in every reachable state.
THEOREM ProtocolInvariant == Spec => []ProtocolInv
<1>1. ProtocolInv /\ [Next]_vars => ProtocolInv'
  BY ProtocolStep
<1> QED BY <1>1, ProtocolInit, PTL DEF Spec

\* Every variable keeps to its type.
THEOREM TypeCorrect == Spec => []TypeOK
<1>1. ProtocolInv => TypeOK
  BY DEF ProtocolInv
<1> QED BY <1>1, ProtocolInvariant, PTL

\* An invoice is applied as a whole or not at all: whatever interleaves,
\* aborts or crashes, an upload has left a suggestion for exactly those lines
\* of a recorded invoice that were not entered automatically.
THEOREM AllOrNothing == Spec => []InvoiceAllOrNothing
<1>1. ProtocolInv => InvoiceAllOrNothing
  BY DEF ProtocolInv
<1> QED BY <1>1, ProtocolInvariant, PTL

\* The step behind DecisionsFinal.
LEMMA StepKeepsDecisions ==
  ASSUME ProtocolInv, [Next]_vars
  PROVE  /\ \A l \in Lines : Decided(l) => suggestions'[l] = suggestions[l]
         /\ \A k \in AccessKeys : processed[k] # Absent => processed'[k] = processed[k]
<1> DEFINE Kept == UNCHANGED <<processed, suggestions>>
<1>1. ASSUME NEW u \in Uploads, UploadStep(u), ~Kept
      PROVE  CommitInvoice(u)
  BY <1>1 DEF UploadStep, UploadProgress, Authorize, DenyUpload, Extract, ExtractionFails,
     ReadCatalog, AddToKnownProduct, RefuseIncompatible, CreateProduct, SuggestProduct,
     SimilarityUnavailable, PlanItem, AbandonMatching, ApplyOperation, RefuseOperation,
     BeginPersist, RefuseSuggestions, AbortInvoice, EndWithRollback, Rollback, StatementFails,
     AuditOperations, storeVars
<1>2. ASSUME NEW d \in Decisions, DecisionStep(d), ~Kept
      PROVE  CommitDecision(d)
  BY <1>2 DEF DecisionStep, DecisionProgress, ClaimSuggestion, AlreadyDecided, ApplyConfirm,
     RefuseConfirm, ApplyReject, RefuseReject, AbandonDecision, Rollback, AbortDecision,
     AuditDecision, storeVars
<1>3. CASE Kept
  BY <1>3
<1>4. ASSUME NEW u \in Uploads, CommitInvoice(u)
      PROVE  /\ \A l \in Lines : Decided(l) => suggestions'[l] = suggestions[l]
             /\ \A k \in AccessKeys : processed[k] # Absent => processed'[k] = processed[k]
  <2>1. ~Recorded(u) /\ processed[KeyOf(u)] = Absent
    BY <1>4, NotYetRecorded DEF CommitInvoice, ProtocolInv, UploadPhases
  <2>2. \A l \in Lines : l[1] = u => suggestions[l] = Absent
    BY <2>1 DEF InvoiceAllOrNothing, ProtocolInv, Lines
  <2> QED BY <1>4, <2>1, <2>2 DEF CommitInvoice, Decided, KeyOf, ProtocolInv, TypeOK, StoreTypeOK
<1>5. ASSUME NEW d \in Decisions, CommitDecision(d)
      PROVE  /\ \A l \in Lines : Decided(l) => suggestions'[l] = suggestions[l]
             /\ \A k \in AccessKeys : processed[k] # Absent => processed'[k] = processed[k]
  <2>1. ~Decided(decision[d].line)
    BY <1>5 DEF CommitDecision, DecisionMoves, ProtocolInv, ClaimsExclusive, Claimed, Decided
  <2> QED BY <1>5, <2>1 DEF CommitDecision, ProtocolInv, TypeOK, StoreTypeOK
<1>6. ASSUME NEW d \in Decisions, NEW user, NEW line, NEW verdict, Decide(d, user, line, verdict)
      PROVE  Kept
  BY <1>6 DEF Decide, storeVars
<1>7. Crash \/ Finished \/ UNCHANGED vars => Kept
  BY DEF Crash, Finished, vars, storeVars
<1> QED BY <1>1, <1>2, <1>3, <1>4, <1>5, <1>6, <1>7 DEF Next

\* A suggestion is decided at most once, and an access key has one invoice for
\* ever, whatever requests race for them.
THEOREM FinalDecisions == Spec => DecisionsFinal
<1>1. ProtocolInv /\ [Next]_vars =>
        [/\ \A l \in Lines : Decided(l) => suggestions'[l] = suggestions[l]
         /\ \A k \in AccessKeys : processed[k] # Absent => processed'[k] = processed[k]]_vars
  BY StepKeepsDecisions
<1> QED BY <1>1, ProtocolInvariant, PTL DEF Spec, DecisionsFinal

-----------------------------------------------------------------------------
(* The committed rows: products and suggestions.                           *)

\* A product named for an invoice line is not named for a row.
LEMMA NamesApart ==
  ASSUME NEW u \in Uploads, NEW i, NEW r \in Rows
  PROVE  <<u, i>> # r
BY StoreAssumption DEF Rows

\* No two rows hold products of the same identifier.
LEMMA IdUnique ==
  ASSUME ProductsNamed, NEW r \in Rows, NEW q \in Rows,
         products[r] # Absent, products[q] # Absent, products[r].id = products[q].id
  PROVE  r = q
<1>1. CASE products[r].id = r /\ products[q].id = q
  BY <1>1
<1>2. ASSUME NEW u \in Uploads, NEW i \in Items, products[r].id = <<u, i>>, Creates(u, i, r)
      PROVE  r = q
  <2>1. products[q].id # q
    BY <1>2, NamesApart
  <2>2. PICK v \in Uploads, j \in Items : products[q].id = <<v, j>> /\ Creates(v, j, q)
    BY <2>1 DEF ProductsNamed
  <2>3. <<v, j>> = <<u, i>>
    BY <1>2, <2>2
  <2>4. v = u /\ j = i
    BY <2>3
  <2> QED BY <1>2, <2>2, <2>4 DEF Creates
<1>3. ASSUME NEW u \in Uploads, NEW i \in Items, products[q].id = <<u, i>>, products[r].id = r
      PROVE  r = q
  BY <1>3, NamesApart
<1> QED BY <1>1, <1>2, <1>3 DEF ProductsNamed

\* A recorded upload's lines are those of the protocol: entered automatically, or suggested.
LEMMA LineOfSuggestion ==
  ASSUME ProtocolInv, NEW u \in Uploads, NEW i \in Items, suggestions[<<u, i>>] # Absent
  PROVE  Recorded(u) /\ i \in ItemsOf(u) /\ ~IsOperation(u, i)
BY DEF ProtocolInv, InvoiceAllOrNothing

\* The committed rows say the same of every invoice when no recorded one changes.
LEMMA CommittedKept ==
  ASSUME ProtocolInv, CommittedInv,
         UNCHANGED <<processed, products, suggestions, request>>,
         \A v \in Uploads : Recorded(v) \/ Recorded(v)' =>
           document'[v] = document[v] /\ plan'[v] = plan[v]
  PROVE  CommittedInv'
<1>1. \A v \in Uploads : Recorded(v)' <=> Recorded(v)
  BY DEF Recorded
<1>2. \A v \in Uploads : Recorded(v) =>
        /\ document'[v] = document[v]
        /\ ItemsOf(v)' = ItemsOf(v)
        /\ \A i : /\ IsOperation(v, i)' <=> IsOperation(v, i)
                  /\ ItemOf(v, i)' = ItemOf(v, i)
                  /\ RowOf(v, i)' = RowOf(v, i)
  BY DEF ItemsOf, IsOperation, ItemOf, RowOf
<1>3. \A v \in Uploads : \A i, r : Enters(v, i, r)' <=> Enters(v, i, r)
  BY <1>1, <1>2 DEF Enters
<1>4. \A v \in Uploads : \A i, r : Creates(v, i, r)' <=> Creates(v, i, r)
  BY <1>1, <1>2 DEF Creates
<1>5. SuggestionsMatchLines'
  BY <1>2, LineOfSuggestion DEF SuggestionsMatchLines, CommittedInv
<1>6. ProductsNamed'
  BY <1>4 DEF ProductsNamed, CommittedInv
<1>7. SuggestedExist'
  BY DEF SuggestedExist, CommittedInv
<1>8. EachLineOnce'
  BY <1>3 DEF EachLineOnce, CommittedInv
<1>9. OriginsUnmixed'
  <2> SUFFICES ASSUME NEW u \in Uploads, NEW i \in Items, NEW r \in Rows,
                      products[r] # Absent, products[r].entered[<<u, i>>] > 0
               PROVE  /\ products[r].unit = ItemOf(u, i)'.unit
                      /\ \/ SameOrigin(products[r], document'[u].supplier)
                         \/ suggestions[<<u, i>>] # Absent /\ suggestions[<<u, i>>].status = "CONFIRMED"
    BY DEF OriginsUnmixed, SameOrigin
  <2>1. Enters(u, i, r)
    BY DEF EachLineOnce, CommittedInv
  <2>2. Recorded(u)
    BY <2>1 DEF Enters
  <2> QED BY <1>2, <2>2 DEF OriginsUnmixed, CommittedInv
<1> QED BY <1>5, <1>6, <1>7, <1>8, <1>9 DEF CommittedInv

\* What a suggestion names is one product, in one row.
LEMMA SuggestedRow ==
  ASSUME ProductsNamed, SuggestedExist, NEW l \in Lines, suggestions[l] # Absent
  PROVE  \E r \in Rows :
           /\ products[r] # Absent /\ products[r].id = suggestions[l].suggestedProduct
           /\ \A q \in Rows :
                products[q] # Absent /\ products[q].id = suggestions[l].suggestedProduct => q = r
<1>1. PICK r \in Rows : products[r] # Absent /\ products[r].id = suggestions[l].suggestedProduct
  BY DEF SuggestedExist
<1> QED BY <1>1, IdUnique

\* What an invoice's commit makes of each row.
LEMMA InvoiceCommitRows ==
  ASSUME ProtocolInv, StockInv, NEW u \in Uploads, CommitInvoice(u), NEW r \in Rows
  PROVE  /\ products[r] # Absent => products'[r] # Absent /\ SameCard(products'[r], products[r])
         /\ products'[r] # Absent => \A l \in Lines : products'[r].entered[l] =
              IF l[1] = u /\ l[2] \in applied[u] /\ RowOf(u, l[2]) = r
              THEN 1 ELSE CountBefore(r, l)
         /\ products[r] = Absent /\ products'[r] # Absent =>
              \E i \in applied[u] : products'[r].id = <<u, i>> /\ RowOf(u, i) = r
         /\ \A i \in applied[u] : RowOf(u, i) = r =>
              /\ products'[r] # Absent
              /\ Accumulates(products'[r], ItemOf(u, i).unit, document[u].supplier, TRUE)
<1>1. upload[u] = "persisting" /\ InvoiceWrites(u)
  BY CommitRecords DEF StockInv, OpenInv
<1>2. products'[r] = IF writes[u][r] # Absent THEN writes[u][r] ELSE products[r]
  BY DEF CommitInvoice, CommitProducts, Visible
<1>3. CASE writes[u][r] = Absent
  <2>1. \A i \in applied[u] : RowOf(u, i) # r
    BY <1>1, <1>3 DEF InvoiceWrites
  <2> QED BY <1>2, <1>3, <2>1 DEF SameCard, CountBefore
<1>4. CASE writes[u][r] # Absent
  BY <1>1, <1>2, <1>4 DEF InvoiceWrites
<1> QED BY <1>3, <1>4

\* Committing an invoice enters its operations, each once and in its own row,
\* and leaves what other invoices entered as it was.
LEMMA CommittedAfterInvoice ==
  ASSUME ProtocolInv, StockInv, NEW u \in Uploads, CommitInvoice(u)
  PROVE  CommittedInv'
<1>1. /\ upload[u] = "persisting" /\ ~Recorded(u) /\ FullyMatched(u)
      /\ applied[u] = Operations(u) /\ Recorded(u)'
      /\ \A v \in Uploads \ {u} : Recorded(v)' <=> Recorded(v)
  BY CommitRecords
<1>2. UNCHANGED <<request, document, plan>>
  BY DEF CommitInvoice
<1>3. \A v \in Uploads :
        /\ ItemsOf(v)' = ItemsOf(v)
        /\ \A i : /\ IsOperation(v, i)' <=> IsOperation(v, i)
                  /\ ItemOf(v, i)' = ItemOf(v, i)
                  /\ RowOf(v, i)' = RowOf(v, i)
  BY <1>2 DEF ItemsOf, IsOperation, ItemOf, RowOf
<1>4. \A i \in Items : suggestions[<<u, i>>] = Absent
  BY <1>1, LineOfSuggestion
<1>5. \A v \in Uploads \ {u}, i \in Items : suggestions'[<<v, i>>] = suggestions[<<v, i>>]
  BY DEF CommitInvoice, Lines
<1>6. \A i \in Items : suggestions'[<<u, i>>] =
        IF i \in Suggested(u) THEN NewSuggestion(u, i) ELSE Absent
  BY <1>4 DEF CommitInvoice, Lines
<1>7. SuggestionsMatchLines'
  <2>1. ASSUME NEW v \in Uploads \ {u}, NEW i \in Items, suggestions'[<<v, i>>] # Absent
        PROVE  /\ suggestions'[<<v, i>>].stock = request[v].stock
               /\ suggestions'[<<v, i>>].receivedCode = ItemOf(v, i).code
               /\ suggestions'[<<v, i>>].unit = ItemOf(v, i).unit
               /\ suggestions'[<<v, i>>].receivedSupplier = document[v].supplier
    BY <1>5, <2>1 DEF SuggestionsMatchLines, StockInv, CommittedInv
  <2>2. ASSUME NEW i \in Items, suggestions'[<<u, i>>] # Absent
        PROVE  /\ suggestions'[<<u, i>>].stock = request[u].stock
               /\ suggestions'[<<u, i>>].receivedCode = ItemOf(u, i).code
               /\ suggestions'[<<u, i>>].unit = ItemOf(u, i).unit
               /\ suggestions'[<<u, i>>].receivedSupplier = document[u].supplier
    <3>1. suggestions'[<<u, i>>] = NewSuggestion(u, i)
      BY <1>6, <2>2
    <3> QED BY <3>1 DEF NewSuggestion
  <2> QED BY <1>2, <1>3, <2>1, <2>2 DEF SuggestionsMatchLines
<1>8. ProductsNamed'
  <2> SUFFICES ASSUME NEW r \in Rows, products'[r] # Absent
               PROVE  \/ products'[r].id = r
                      \/ \E v \in Uploads, i \in Items :
                           products'[r].id = <<v, i>> /\ Creates(v, i, r)'
    BY DEF ProductsNamed
  <2>1. CASE products[r] = Absent
    <3>1. PICK i \in applied[u] : products'[r].id = <<u, i>> /\ RowOf(u, i) = r
      BY <2>1, InvoiceCommitRows
    <3>2. i \in ItemsOf(u) /\ IsOperation(u, i)
      BY <1>1 DEF Operations
    <3>3. i \in Items
      BY <3>2, ItemTyped DEF ProtocolInv
    <3> QED BY <1>1, <1>3, <3>1, <3>2, <3>3 DEF Creates
  <2>2. CASE products[r] # Absent
    <3>1. products'[r].id = products[r].id
      BY <2>2, InvoiceCommitRows DEF SameCard
    <3>2. ASSUME NEW v \in Uploads, NEW i \in Items, Creates(v, i, r)
          PROVE  Creates(v, i, r)'
      <4>1. v # u
        BY <1>1, <3>2 DEF Creates
      <4> QED BY <1>1, <1>3, <1>5, <3>2, <4>1 DEF Creates
    <3> QED BY <2>2, <3>1, <3>2 DEF ProductsNamed, StockInv, CommittedInv
  <2> QED BY <2>1, <2>2
<1>9. SuggestedExist'
  <2>1. ASSUME NEW v \in Uploads \ {u}, NEW i \in Items, suggestions'[<<v, i>>] # Absent
        PROVE  \E r \in Rows : products'[r] # Absent
                              /\ products'[r].id = suggestions'[<<v, i>>].suggestedProduct
    <3>1. PICK r \in Rows : products[r] # Absent
                          /\ products[r].id = suggestions[<<v, i>>].suggestedProduct
      BY <1>5, <2>1 DEF SuggestedExist, StockInv, CommittedInv, Lines
    <3>2. products'[r] # Absent /\ products'[r].id = products[r].id
      BY <3>1, InvoiceCommitRows DEF SameCard
    <3> QED BY <1>5, <3>1, <3>2
  <2>2. ASSUME NEW i \in Items, suggestions'[<<u, i>>] # Absent
        PROVE  \E r \in Rows : products'[r] # Absent
                              /\ products'[r].id = suggestions'[<<u, i>>].suggestedProduct
    <3>1. i \in Suggested(u) /\ suggestions'[<<u, i>>] = NewSuggestion(u, i)
      BY <1>6, <2>2
    <3>2. PICK r \in Rows : Visible(u, r) # Absent
                          /\ Visible(u, r).id = plan[u][i].suggestedProduct
      BY <3>1 DEF CommitInvoice, SuggestedProductsExist
    <3>3. products'[r] = Visible(u, r)
      BY DEF CommitInvoice, CommitProducts
    <3> QED BY <3>1, <3>2, <3>3 DEF NewSuggestion
  <2> QED BY <2>1, <2>2 DEF SuggestedExist, Lines
<1>10. \A v \in Uploads \ {u}, i \in Items, r \in Rows : Enters(v, i, r)' <=> Enters(v, i, r)
  <2> TAKE v \in Uploads \ {u}, i \in Items, r \in Rows
  <2> DEFINE Holds  == products[r] # Absent
                         /\ products[r].id = suggestions[<<v, i>>].suggestedProduct
             Holds2 == products'[r] # Absent
                         /\ products'[r].id = suggestions[<<v, i>>].suggestedProduct
  <2>0. ASSUME suggestions[<<v, i>>] # Absent => (Holds2 <=> Holds)
        PROVE  Enters(v, i, r)' <=> Enters(v, i, r)
    <3>1. /\ Recorded(v)' <=> Recorded(v)
          /\ ItemsOf(v)' = ItemsOf(v) /\ RowOf(v, i)' = RowOf(v, i)
          /\ IsOperation(v, i)' <=> IsOperation(v, i)
          /\ suggestions'[<<v, i>>] = suggestions[<<v, i>>]
      BY <1>1, <1>3, <1>5
    <3> QED BY <2>0, <3>1 DEF Enters
  <2> SUFFICES ASSUME suggestions[<<v, i>>] # Absent PROVE Holds2 <=> Holds
    BY <2>0
  <2>1. CASE products[r] # Absent
    BY <2>1, InvoiceCommitRows DEF SameCard
  <2>2. CASE products[r] = Absent
    <3> SUFFICES ASSUME products'[r] # Absent,
                        products'[r].id = suggestions[<<v, i>>].suggestedProduct
                 PROVE  FALSE
      BY <2>2
    <3>1. PICK j \in applied[u] : products'[r].id = <<u, j>>
      BY <2>2, InvoiceCommitRows
    <3>2. PICK q \in Rows : products[q] # Absent /\ products[q].id = <<u, j>>
      BY <3>1 DEF SuggestedExist, StockInv, CommittedInv, Lines
    <3>3. products[q].id # q
      BY <3>2, NamesApart
    <3>4. PICK w \in Uploads, k \in Items : products[q].id = <<w, k>> /\ Creates(w, k, q)
      BY <3>2, <3>3 DEF ProductsNamed, StockInv, CommittedInv
    <3>5. <<w, k>> = <<u, j>>
      BY <3>2, <3>4
    <3>6. w = u
      BY <3>5
    <3> QED BY <1>1, <3>4, <3>6 DEF Creates
  <2> QED BY <2>1, <2>2
<1>11. \A i \in Items, r \in Rows :
         Enters(u, i, r)' <=> i \in applied[u] /\ r = RowOf(u, i)
  <2> TAKE i \in Items, r \in Rows
  <2>1. i \in applied[u] <=> i \in ItemsOf(u) /\ IsOperation(u, i)
    BY <1>1 DEF Operations
  <2>2. suggestions'[<<u, i>>] # Absent => suggestions'[<<u, i>>].status = "PENDING"
    <3>1. suggestions'[<<u, i>>] # Absent => suggestions'[<<u, i>>] = NewSuggestion(u, i)
      BY <1>6
    <3> QED BY <3>1 DEF NewSuggestion
  <2> QED BY <1>1, <1>3, <2>1, <2>2 DEF Enters
<1>12. \A v \in Uploads, i \in Items, r \in Rows : ~Enters(v, i, r) => CountBefore(r, <<v, i>>) = 0
  BY DEF EachLineOnce, StockInv, CommittedInv, CountBefore
<1>13. EachLineOnce'
  <2>1. ASSUME NEW i \in Items, NEW r \in Rows
        PROVE  IF Enters(u, i, r)'
               THEN products'[r] # Absent /\ products'[r].entered[<<u, i>>] = 1
               ELSE products'[r] # Absent => products'[r].entered[<<u, i>>] = 0
    <3>1. <<u, i>> \in Lines /\ ~Enters(u, i, r)
      BY <1>1 DEF Enters, Lines
    <3>2. i \in applied[u] /\ r = RowOf(u, i) => products'[r] # Absent
      BY InvoiceCommitRows
    <3>3. products'[r] # Absent => products'[r].entered[<<u, i>>] =
            IF i \in applied[u] /\ RowOf(u, i) = r THEN 1 ELSE CountBefore(r, <<u, i>>)
      BY <3>1, InvoiceCommitRows
    <3> QED BY <1>11, <1>12, <3>1, <3>2, <3>3
  <2>2. ASSUME NEW v \in Uploads \ {u}, NEW i \in Items, NEW r \in Rows
        PROVE  IF Enters(v, i, r)'
               THEN products'[r] # Absent /\ products'[r].entered[<<v, i>>] = 1
               ELSE products'[r] # Absent => products'[r].entered[<<v, i>>] = 0
    <3>1. <<v, i>> \in Lines
      BY DEF Lines
    <3>2. products'[r] # Absent => products'[r].entered[<<v, i>>] = CountBefore(r, <<v, i>>)
      <4>1. products'[r] # Absent => \A l \in Lines : l[1] # u =>
              products'[r].entered[l] = CountBefore(r, l)
        BY InvoiceCommitRows
      <4> QED BY <3>1, <4>1
    <3>3. Enters(v, i, r) => products[r] # Absent /\ CountBefore(r, <<v, i>>) = 1
      BY DEF EachLineOnce, StockInv, CommittedInv, CountBefore
    <3>4. products[r] # Absent => products'[r] # Absent
      BY InvoiceCommitRows
    <3> QED BY <1>10, <1>12, <3>2, <3>3, <3>4
  <2> QED BY <2>1, <2>2 DEF EachLineOnce
<1>14. OriginsUnmixed'
  <2> SUFFICES ASSUME NEW v \in Uploads, NEW i \in Items, NEW r \in Rows,
                      products'[r] # Absent, products'[r].entered[<<v, i>>] > 0
               PROVE  /\ products'[r].unit = ItemOf(v, i).unit
                      /\ \/ SameOrigin(products'[r], document[v].supplier)
                         \/ /\ suggestions'[<<v, i>>] # Absent
                            /\ suggestions'[<<v, i>>].status = "CONFIRMED"
    BY <1>2, <1>3 DEF OriginsUnmixed, SameOrigin
  <2>1. Enters(v, i, r)'
    BY <1>13 DEF EachLineOnce
  <2>2. CASE v = u
    <3>1. i \in applied[u] /\ r = RowOf(u, i)
      BY <1>11, <2>1, <2>2
    <3>2. Accumulates(products'[r], ItemOf(u, i).unit, document[u].supplier, TRUE)
      BY <3>1, InvoiceCommitRows
    <3> QED BY <2>2, <3>2 DEF Accumulates
  <2>3. CASE v # u
    <3>1. Enters(v, i, r)
      BY <1>10, <2>1, <2>3
    <3>2. products[r] # Absent /\ products[r].entered[<<v, i>>] > 0
      BY <3>1 DEF EachLineOnce, StockInv, CommittedInv
    <3>3. SameCard(products'[r], products[r])
      BY <3>2, InvoiceCommitRows
    <3> QED BY <1>5, <2>3, <3>2, <3>3
            DEF OriginsUnmixed, StockInv, CommittedInv, SameCard, SameOrigin
  <2> QED BY <2>2, <2>3
<1> QED BY <1>7, <1>8, <1>9, <1>13, <1>14 DEF CommittedInv

\* A decision's commit changes one row and one suggestion.
LEMMA DecisionCommits ==
  ASSUME ProtocolInv, StockInv, NEW d \in Decisions, CommitDecision(d)
  PROVE  /\ decision[d].state = "committing" /\ decision[d].verdict \in Verdicts
         /\ SuggestionOf(d) \in Suggestion /\ SuggestionOf(d).status = "PENDING"
         /\ suggestions'[decision[d].line] =
              [SuggestionOf(d) EXCEPT !.status = decision[d].verdict, !.decidedBy = decision[d].user]
         /\ \A l \in Lines : l # decision[d].line => suggestions'[l] = suggestions[l]
         /\ \E r \in Rows : /\ DecisionWrote(d, r) /\ products'[r] = writes[d][r]
                           /\ \A q \in Rows \ {r} : products'[q] = products[q]
<1>1. decision[d].state = "committing"
  BY DEF CommitDecision, DecisionMoves
<1>2. /\ decision[d].verdict \in Verdicts /\ decision[d].line \in Lines
      /\ SuggestionOf(d) \in Suggestion /\ SuggestionOf(d).status = "PENDING"
  BY <1>1, SuggestionOfTyped
  DEF ProtocolInv, DecisionsNamed, ClaimsExclusive, Claimed, SuggestionOf
<1>3. suggestions'[decision[d].line] =
        [SuggestionOf(d) EXCEPT !.status = decision[d].verdict, !.decidedBy = decision[d].user]
  BY <1>2 DEF CommitDecision, SuggestionOf, ProtocolInv, TypeOK, StoreTypeOK
<1>4. \A l \in Lines : l # decision[d].line => suggestions'[l] = suggestions[l]
  BY <1>2 DEF CommitDecision, ProtocolInv, TypeOK, StoreTypeOK
<1>5. PICK r \in Rows : DecisionWrote(d, r)
  BY <1>1 DEF StockInv, OpenInv, DecisionWrites
<1>6. products'[r] = writes[d][r] /\ \A q \in Rows \ {r} : products'[q] = products[q]
  BY <1>5 DEF CommitDecision, CommitProducts, Visible, DecisionWrote
<1> QED BY <1>1, <1>2, <1>3, <1>4, <1>5, <1>6

\* Committing a decision enters its line once, in the product it confirms or
\* in the new product of the received code.
LEMMA CommittedAfterDecision ==
  ASSUME ProtocolInv, StockInv, NEW d \in Decisions, CommitDecision(d), UNCHANGED uploadVars
  PROVE  CommittedInv'
<1>1. PICK r \in Rows : /\ DecisionWrote(d, r) /\ products'[r] = writes[d][r]
                        /\ \A q \in Rows \ {r} : products'[q] = products[q]
  BY DecisionCommits
<1>2. PICK u \in Uploads, i \in Items : decision[d].line = <<u, i>>
  <2>1. decision[d].line \in Lines
    BY DecisionCommits DEF ProtocolInv, DecisionsNamed
  <2> QED BY <2>1 DEF Lines
<1> DEFINE was == suggestions[<<u, i>>]
           now == suggestions'[<<u, i>>]
<1>3. /\ was # Absent /\ was \in Suggestion /\ was.status = "PENDING" /\ now \in Suggestion /\ now # Absent
      /\ now.status = decision[d].verdict /\ decision[d].verdict \in Verdicts
      /\ now.stock = was.stock /\ now.suggestedProduct = was.suggestedProduct
      /\ now.receivedCode = was.receivedCode /\ now.unit = was.unit
      /\ now.receivedSupplier = was.receivedSupplier
  <2>1. was \in Suggestion /\ was.status = "PENDING" /\ decision[d].verdict \in Verdicts
    BY <1>2, DecisionCommits DEF SuggestionOf
  <2>2. decision[d].user \in Users
    BY DecisionCommits DEF ProtocolInv, DecisionsNamed
  <2>3. now = [was EXCEPT !.status = decision[d].verdict, !.decidedBy = decision[d].user]
    BY <1>2, DecisionCommits DEF SuggestionOf
  <2>4. /\ now.status = decision[d].verdict
        /\ now.stock = was.stock /\ now.suggestedProduct = was.suggestedProduct
        /\ now.receivedCode = was.receivedCode /\ now.unit = was.unit
        /\ now.receivedSupplier = was.receivedSupplier
        /\ now \in Suggestion
    BY <2>1, <2>2, <2>3 DEF Suggestion, Verdicts
  <2> QED BY <2>1, <2>4, AbsentAssumption
<1>4. \A l \in Lines : l # <<u, i>> => suggestions'[l] = suggestions[l]
  BY <1>2, DecisionCommits
<1>5. Recorded(u) /\ i \in ItemsOf(u) /\ ~IsOperation(u, i)
  BY <1>3, LineOfSuggestion
<1>6. \A v \in Uploads :
        /\ Recorded(v)' <=> Recorded(v)
        /\ ItemsOf(v)' = ItemsOf(v)
        /\ \A j : /\ IsOperation(v, j)' <=> IsOperation(v, j)
                  /\ ItemOf(v, j)' = ItemOf(v, j)
                  /\ RowOf(v, j)' = RowOf(v, j)
  BY DEF CommitDecision, uploadVars, Recorded, ItemsOf, IsOperation, ItemOf, RowOf
<1>7. SuggestionOf(d) = was
  BY <1>2 DEF SuggestionOf
<1>8. ReceivedRow(d) = RowOf(u, i)
  BY <1>3, <1>7 DEF ReceivedRow, RowOf, SuggestionsMatchLines, StockInv, CommittedInv
<1>9. /\ products'[r] # Absent /\ products'[r].unit = was.unit
      /\ \A l \in Lines : products'[r].entered[l] = IF l = <<u, i>> THEN 1 ELSE CountBefore(r, l)
      /\ products[r] # Absent => SameCard(products'[r], products[r])
      /\ products[r] = Absent => /\ products'[r].id = <<u, i>> /\ r = RowOf(u, i)
                                 /\ products'[r].source = was.receivedSupplier
                                 /\ decision[d].verdict = "REJECTED"
  BY <1>1, <1>2, <1>3, <1>7, <1>8 DEF DecisionWrote, DecisionTarget, SuggestedRows, Verdicts
<1>10. /\ decision[d].verdict = "CONFIRMED" =>
            products[r] # Absent /\ products[r].id = was.suggestedProduct
       /\ decision[d].verdict = "REJECTED" => products[r] = Absent /\ r = RowOf(u, i)
  BY <1>1, <1>7, <1>8 DEF DecisionWrote, DecisionTarget, SuggestedRows
<1>11. \A q \in Rows : products[q] # Absent =>
         products'[q] # Absent /\ SameCard(products'[q], products[q])
  BY <1>1, <1>9 DEF SameCard
<1>12. SuggestionsMatchLines'
  <2> SUFFICES ASSUME NEW v \in Uploads, NEW j \in Items, suggestions'[<<v, j>>] # Absent
               PROVE  /\ suggestions'[<<v, j>>].stock = request[v].stock
                      /\ suggestions'[<<v, j>>].receivedCode = ItemOf(v, j).code
                      /\ suggestions'[<<v, j>>].unit = ItemOf(v, j).unit
                      /\ suggestions'[<<v, j>>].receivedSupplier = document[v].supplier
    BY <1>6 DEF SuggestionsMatchLines, uploadVars
  <2>1. CASE <<v, j>> = <<u, i>>
    <3>1. v = u /\ j = i
      BY <2>1
    <3> QED BY <1>3, <3>1 DEF SuggestionsMatchLines, StockInv, CommittedInv
  <2>2. CASE <<v, j>> # <<u, i>>
    BY <1>4, <2>2 DEF SuggestionsMatchLines, StockInv, CommittedInv, Lines
  <2> QED BY <2>1, <2>2
<1>13. \A v \in Uploads, j \in Items, q \in Rows : Creates(v, j, q) => Creates(v, j, q)'
  <2> SUFFICES ASSUME NEW v \in Uploads, NEW j \in Items, NEW q \in Rows, Creates(v, j, q)
               PROVE  Creates(v, j, q)'
    OBVIOUS
  <2>1. CASE IsOperation(v, j)
    BY <1>6, <2>1 DEF Creates
  <2>2. CASE ~IsOperation(v, j)
    <3>1. suggestions[<<v, j>>].status = "REJECTED"
      BY <2>2 DEF Creates
    <3>2. <<v, j>> # <<u, i>>
      BY <1>3, <3>1
    <3>3. suggestions'[<<v, j>>] = suggestions[<<v, j>>]
      BY <1>4, <3>2 DEF Lines
    <3> QED BY <1>6, <3>1, <3>3 DEF Creates
  <2> QED BY <2>1, <2>2
<1>14. ProductsNamed'
  <2> SUFFICES ASSUME NEW q \in Rows, products'[q] # Absent
               PROVE  \/ products'[q].id = q
                      \/ \E v \in Uploads, j \in Items :
                           products'[q].id = <<v, j>> /\ Creates(v, j, q)'
    BY DEF ProductsNamed
  <2>1. CASE products[q] # Absent
    BY <1>11, <1>13, <2>1 DEF ProductsNamed, StockInv, CommittedInv, SameCard
  <2>2. CASE products[q] = Absent
    <3>1. q = r
      BY <1>1, <2>2
    <3>2. /\ products'[q].id = <<u, i>> /\ q = RowOf(u, i) /\ now.status = "REJECTED"
      BY <1>3, <1>9, <2>2, <3>1
    <3>3. Creates(u, i, q)'
      BY <1>5, <1>6, <3>2 DEF Creates
    <3> QED BY <3>2, <3>3
  <2> QED BY <2>1, <2>2
<1>15. \A l \in Lines : suggestions'[l] # Absent =>
         suggestions[l] # Absent /\ suggestions'[l].suggestedProduct = suggestions[l].suggestedProduct
  BY <1>3, <1>4
<1>16. SuggestedExist'
  BY <1>11, <1>15 DEF SuggestedExist, StockInv, CommittedInv, SameCard
<1>17. \A v \in Uploads, j \in Items, q \in Rows : suggestions[<<v, j>>] # Absent =>
         (products'[q] # Absent /\ products'[q].id = suggestions[<<v, j>>].suggestedProduct
           <=> products[q] # Absent /\ products[q].id = suggestions[<<v, j>>].suggestedProduct)
  <2> SUFFICES ASSUME NEW v \in Uploads, NEW j \in Items, NEW q \in Rows,
                      suggestions[<<v, j>>] # Absent, products[q] = Absent,
                      products'[q] # Absent, products'[q].id = suggestions[<<v, j>>].suggestedProduct
               PROVE  FALSE
    BY <1>11 DEF SameCard
  <2>1. products'[q].id = <<u, i>>
    BY <1>1, <1>9
  <2>2. PICK p \in Rows : products[p] # Absent /\ products[p].id = <<u, i>>
    BY <2>1 DEF SuggestedExist, StockInv, CommittedInv, Lines
  <2>3. products[p].id # p
    BY <2>2, NamesApart
  <2>4. PICK w \in Uploads, k \in Items : products[p].id = <<w, k>> /\ Creates(w, k, p)
    BY <2>2, <2>3 DEF ProductsNamed, StockInv, CommittedInv
  <2>5. <<w, k>> = <<u, i>>
    BY <2>2, <2>4
  <2>6. w = u /\ k = i
    BY <2>5
  <2> QED BY <1>3, <1>5, <2>4, <2>6 DEF Creates
<1>18. \A v \in Uploads, j \in Items, q \in Rows : <<v, j>> # <<u, i>> =>
         (Enters(v, j, q)' <=> Enters(v, j, q))
  <2> SUFFICES ASSUME NEW v \in Uploads, NEW j \in Items, NEW q \in Rows, <<v, j>> # <<u, i>>
               PROVE  Enters(v, j, q)' <=> Enters(v, j, q)
    OBVIOUS
  <2>1. /\ Recorded(v)' <=> Recorded(v)
        /\ ItemsOf(v)' = ItemsOf(v) /\ RowOf(v, j)' = RowOf(v, j)
        /\ IsOperation(v, j)' <=> IsOperation(v, j)
        /\ suggestions'[<<v, j>>] = suggestions[<<v, j>>]
    BY <1>4, <1>6 DEF Lines
  <2> QED BY <1>17, <2>1 DEF Enters
<1>19. \A q \in Rows : ~Enters(u, i, q) /\ (Enters(u, i, q)' <=> q = r)
  <2> TAKE q \in Rows
  <2>1. ~Enters(u, i, q)
    BY <1>3, <1>5 DEF Enters
  <2>2. Enters(u, i, q)' <=> \/ now.status = "REJECTED" /\ q = RowOf(u, i)
                            \/ /\ now.status = "CONFIRMED" /\ products'[q] # Absent
                               /\ products'[q].id = now.suggestedProduct
    BY <1>3, <1>5, <1>6 DEF Enters
  <2>3. CASE decision[d].verdict = "REJECTED"
    BY <1>3, <1>10, <2>1, <2>2, <2>3
  <2>4. CASE decision[d].verdict = "CONFIRMED"
    <3>1. products[r] # Absent /\ products[r].id = was.suggestedProduct
      BY <1>10, <2>4
    <3>2. products[q] # Absent /\ products[q].id = was.suggestedProduct => q = r
      BY <3>1, IdUnique DEF StockInv, CommittedInv
    <3>3. products'[q] # Absent /\ products'[q].id = was.suggestedProduct <=> q = r
      BY <1>3, <1>17, <3>1, <3>2
    <3> QED BY <1>3, <2>1, <2>2, <2>4, <3>3
  <2> QED BY <1>3, <2>3, <2>4 DEF Verdicts
<1>20. \A v \in Uploads, j \in Items, q \in Rows :
         IF Enters(v, j, q) THEN products[q] # Absent /\ CountBefore(q, <<v, j>>) = 1
         ELSE CountBefore(q, <<v, j>>) = 0
  BY DEF EachLineOnce, StockInv, CommittedInv, CountBefore
<1>21. \A v \in Uploads, j \in Items, q \in Rows : products'[q] # Absent =>
         products'[q].entered[<<v, j>>] =
           IF q = r /\ <<v, j>> = <<u, i>> THEN 1 ELSE CountBefore(q, <<v, j>>)
  BY <1>1, <1>9 DEF Lines, CountBefore
<1>22. EachLineOnce'
  <2> SUFFICES ASSUME NEW v \in Uploads, NEW j \in Items, NEW q \in Rows
               PROVE  IF Enters(v, j, q)'
                      THEN products'[q] # Absent /\ products'[q].entered[<<v, j>>] = 1
                      ELSE products'[q] # Absent => products'[q].entered[<<v, j>>] = 0
    BY DEF EachLineOnce
  <2>1. CASE <<v, j>> = <<u, i>>
    <3>1. v = u /\ j = i
      BY <2>1
    <3> QED BY <1>9, <1>19, <1>20, <1>21, <3>1
  <2>2. CASE <<v, j>> # <<u, i>>
    BY <1>11, <1>18, <1>20, <1>21, <2>2
  <2> QED BY <2>1, <2>2
<1>23. OriginsUnmixed'
  <2> SUFFICES ASSUME NEW v \in Uploads, NEW j \in Items, NEW q \in Rows,
                      products'[q] # Absent, products'[q].entered[<<v, j>>] > 0
               PROVE  /\ products'[q].unit = ItemOf(v, j).unit
                      /\ \/ SameOrigin(products'[q], document[v].supplier)
                         \/ /\ suggestions'[<<v, j>>] # Absent
                            /\ suggestions'[<<v, j>>].status = "CONFIRMED"
    BY <1>6 DEF OriginsUnmixed, SameOrigin, uploadVars
  <2>1. Enters(v, j, q)'
    BY <1>22 DEF EachLineOnce
  <2>2. CASE <<v, j>> = <<u, i>>
    <3>1. v = u /\ j = i /\ q = r
      BY <1>19, <2>1, <2>2
    <3>2. was.unit = ItemOf(u, i).unit /\ was.receivedSupplier = document[u].supplier
      BY <1>3 DEF SuggestionsMatchLines, StockInv, CommittedInv
    <3>3. was.receivedSupplier # NoSupplier
      BY <1>3, StoreAssumption DEF Suggestion
    <3>4. CASE decision[d].verdict = "CONFIRMED"
      BY <1>3, <1>9, <3>1, <3>2, <3>4
    <3>5. CASE decision[d].verdict = "REJECTED"
      BY <1>9, <1>10, <3>1, <3>2, <3>3, <3>5 DEF SameOrigin
    <3> QED BY <1>3, <3>4, <3>5 DEF Verdicts
  <2>3. CASE <<v, j>> # <<u, i>>
    <3>1. Enters(v, j, q)
      BY <1>18, <2>1, <2>3
    <3>2. products[q] # Absent /\ products[q].entered[<<v, j>>] > 0
      BY <3>1 DEF EachLineOnce, StockInv, CommittedInv
    <3>3. SameCard(products'[q], products[q])
      BY <1>11, <3>2
    <3>4. suggestions'[<<v, j>>] = suggestions[<<v, j>>]
      BY <1>4, <2>3 DEF Lines
    <3> QED BY <3>2, <3>3, <3>4
            DEF OriginsUnmixed, StockInv, CommittedInv, SameCard, SameOrigin
  <2> QED BY <2>2, <2>3
<1> QED BY <1>12, <1>14, <1>16, <1>22, <1>23 DEF CommittedInv

-----------------------------------------------------------------------------
(* The uncommitted rows: what open transactions have written.              *)

\* Another process's step leaves what an invoice transaction has written as it was.
LEMMA InvoiceWritesKept ==
  ASSUME NEW v \in Uploads, InvoiceWrites(v),
         upload'[v] = "persisting" => upload[v] = "persisting",
         applied'[v] = applied[v], writes'[v] = writes[v],
         request'[v] = request[v], document'[v] = document[v],
         \A r \in Rows : writes[v][r] # Absent => products'[r] = products[r]
  PROVE  InvoiceWrites(v)'
<1>1. \A i : RowOf(v, i)' = RowOf(v, i) /\ ItemOf(v, i)' = ItemOf(v, i)
  BY DEF RowOf, ItemOf
<1>2. \A r \in Rows : \A l : writes[v][r] # Absent => CountBefore(r, l)' = CountBefore(r, l)
  BY DEF CountBefore
<1> QED BY <1>1, <1>2 DEF InvoiceWrites, SameCard, Accumulates, SameOrigin

\* An upload that has written nothing and applied nothing is within the invariant.
LEMMA InvoiceWritesNone ==
  ASSUME NEW v \in Uploads, upload'[v] = "persisting" => applied'[v] = {},
         \A r \in Rows : writes'[v][r] = Absent
  PROVE  InvoiceWrites(v)'
BY DEF InvoiceWrites

\* Another process's step leaves what a decision has written as it was.
LEMMA DecisionWritesKept ==
  ASSUME NEW e \in Decisions, DecisionWrites(e),
         decision'[e].state = "committing" =>
           /\ decision'[e] = decision[e]
           /\ suggestions'[decision[e].line] = suggestions[decision[e].line],
         writes'[e] = writes[e],
         \A r \in Rows : writes[e][r] # Absent => products'[r] = products[r]
  PROVE  DecisionWrites(e)'
<1> SUFFICES ASSUME decision'[e].state = "committing"
             PROVE  \E r \in Rows : DecisionWrote(e, r)'
  BY DEF DecisionWrites
<1>1. /\ decision'[e] = decision[e]
      /\ SuggestionOf(e)' = SuggestionOf(e) /\ ReceivedRow(e)' = ReceivedRow(e)
  BY DEF SuggestionOf, ReceivedRow
<1>2. PICK r \in Rows : DecisionWrote(e, r)
  BY <1>1 DEF DecisionWrites
<1>3. products'[r] = products[r] /\ \A l : CountBefore(r, l)' = CountBefore(r, l)
  BY <1>2 DEF DecisionWrote, CountBefore
<1>4. DecisionTarget(e, r)'
  BY <1>1, <1>2, <1>3 DEF DecisionWrote, DecisionTarget, SuggestedRows
<1>5. DecisionWrote(e, r)'
  BY <1>1, <1>2, <1>3, <1>4 DEF DecisionWrote, SameCard
<1> QED BY <1>5

\* A step of an upload outside its transaction leaves every transaction as it was.
LEMMA OpenUploadQuiet ==
  ASSUME ProtocolInv, OpenInv, NEW u \in Uploads, upload[u] # "persisting",
         upload'[u] = "persisting" => applied[u] = {},
         \A v \in Uploads \ {u} : upload'[v] = upload[v] /\ document'[v] = document[v],
         UNCHANGED <<products, suggestions, writes, applied, request, decision>>
  PROVE  OpenInv'
<1>1. \A r \in Rows : writes[u][r] = Absent
  BY StoreAssumption DEF OpenInv, LocksExclusive, Processes
<1>2. LocksExclusive'
  BY <1>1 DEF OpenInv, LocksExclusive
<1>3. ASSUME NEW v \in Uploads PROVE InvoiceWrites(v)'
  <2>1. CASE v = u
    BY <1>1, <2>1, InvoiceWritesNone
  <2>2. CASE v # u
    BY <2>2, InvoiceWritesKept DEF OpenInv
  <2> QED BY <2>1, <2>2
<1>4. ASSUME NEW e \in Decisions PROVE DecisionWrites(e)'
  BY DecisionWritesKept DEF OpenInv
<1> QED BY <1>2, <1>3, <1>4 DEF OpenInv

\* A transaction that ends, by commit or rollback, leaves the others as they were.
LEMMA OpenEnds ==
  ASSUME ProtocolInv, OpenInv, NEW p \in Processes,
         writes' = [writes EXCEPT ![p] = NoWrites],
         \A r \in Rows : writes[p][r] = Absent => products'[r] = products[r],
         p \in Uploads => upload'[p] # "persisting",
         p \in Decisions => decision'[p].state # "committing",
         \A v \in Uploads \ {p} : upload'[v] = upload[v] /\ applied'[v] = applied[v],
         \A e \in Decisions \ {p} :
           /\ decision'[e] = decision[e]
           /\ decision[e].state = "committing" =>
                suggestions'[decision[e].line] = suggestions[decision[e].line],
         UNCHANGED <<request, document>>
  PROVE  OpenInv'
<1>1. /\ \A r \in Rows : writes'[p][r] = Absent
      /\ \A q \in Processes \ {p} : writes'[q] = writes[q]
  BY DEF ProtocolInv, TypeOK, StoreTypeOK, NoWrites
<1>2. \A q \in Processes \ {p}, r \in Rows : writes[q][r] # Absent => products'[r] = products[r]
  BY DEF OpenInv, LocksExclusive
<1>3. LocksExclusive'
  <2>1. ASSUME NEW q \in Processes, NEW r \in Rows, writes'[q][r] # Absent
        PROVE  /\ q # p /\ writes[q][r] # Absent
               /\ \/ q \in Uploads /\ upload'[q] = "persisting"
                  \/ q \in Decisions /\ decision'[q].state = "committing"
    <3>1. q # p /\ writes[q][r] # Absent
      BY <1>1, <2>1
    <3> QED BY <3>1 DEF OpenInv, LocksExclusive
  <2> QED BY <2>1 DEF OpenInv, LocksExclusive
<1>4. ASSUME NEW v \in Uploads PROVE InvoiceWrites(v)'
  <2>1. CASE v = p
    BY <1>1, <2>1, InvoiceWritesNone
  <2>2. CASE v # p
    BY <1>1, <1>2, <2>2, InvoiceWritesKept DEF OpenInv, Processes
  <2> QED BY <2>1, <2>2
<1>5. ASSUME NEW e \in Decisions PROVE DecisionWrites(e)'
  <2>1. CASE e = p
    BY <2>1 DEF DecisionWrites
  <2>2. CASE e # p
    BY <1>1, <1>2, <2>2, DecisionWritesKept DEF OpenInv, Processes
  <2> QED BY <2>1, <2>2
<1> QED BY <1>3, <1>4, <1>5 DEF OpenInv

\* So does a decision's step outside its transaction's writes.
LEMMA OpenDecisionQuiet ==
  ASSUME ProtocolInv, OpenInv, NEW d \in Decisions,
         decision[d].state # "committing", decision'[d].state # "committing",
         \A e \in Decisions \ {d} : decision'[e] = decision[e],
         UNCHANGED <<products, suggestions, writes, uploadVars>>
  PROVE  OpenInv'
<1>1. \A r \in Rows : writes[d][r] = Absent
  BY StoreAssumption DEF OpenInv, LocksExclusive, Processes
<1>2. LocksExclusive'
  BY <1>1 DEF OpenInv, LocksExclusive, uploadVars
<1>3. ASSUME NEW v \in Uploads PROVE InvoiceWrites(v)'
  BY InvoiceWritesKept DEF OpenInv, uploadVars
<1>4. ASSUME NEW e \in Decisions PROVE DecisionWrites(e)'
  <2>1. CASE e = d
    BY <2>1 DEF DecisionWrites
  <2>2. CASE e # d
    BY <2>2, DecisionWritesKept DEF OpenInv
  <2> QED BY <2>1, <2>2
<1> QED BY <1>2, <1>3, <1>4 DEF OpenInv

\* Writing a row no other transaction has written keeps the locks exclusive.
LEMMA LocksAfterWrite ==
  ASSUME TypeOK, LocksExclusive, NEW p \in Processes, NEW r \in Rows, NEW product,
         RowFree(p, r), writes' = [writes EXCEPT ![p][r] = product],
         \A v \in Uploads : upload'[v] = upload[v],
         \A e \in Decisions \ {p} : decision'[e] = decision[e],
         \/ p \in Uploads /\ upload[p] = "persisting"
         \/ p \in Decisions /\ decision'[p].state = "committing"
  PROVE  LocksExclusive'
<1>1. \A q \in Processes, s \in Rows : writes'[q][s] =
        IF q = p /\ s = r THEN product ELSE writes[q][s]
  BY DEF TypeOK, StoreTypeOK
<1>2. \A q \in Processes, s \in Rows : writes'[q][s] # Absent =>
        \/ q \in Uploads /\ upload'[q] = "persisting"
        \/ q \in Decisions /\ decision'[q].state = "committing"
  <2> SUFFICES ASSUME NEW q \in Processes, NEW s \in Rows, writes'[q][s] # Absent, q # p
               PROVE  \/ q \in Uploads /\ upload'[q] = "persisting"
                      \/ q \in Decisions /\ decision'[q].state = "committing"
    BY DEF Processes
  <2>1. writes[q][s] # Absent
    BY <1>1
  <2> QED BY <2>1 DEF LocksExclusive
<1>3. \A q, o \in Processes, s \in Rows :
        writes'[q][s] # Absent /\ writes'[o][s] # Absent => q = o
  BY <1>1 DEF LocksExclusive, RowFree
<1> QED BY <1>2, <1>3 DEF LocksExclusive

\* Applying an operation adds its line, once, to the row as the transaction sees it.
LEMMA OpenApply ==
  ASSUME ProtocolInv, StockInv, NEW u \in Uploads, NEW i \in Items, ApplyOperation(u, i),
         UNCHANGED decision
  PROVE  OpenInv'
<1> DEFINE R == RowOf(u, i)
           l0 == <<u, i>>
           new == EntryResult(u, R, l0, ItemOf(u, i).unit, document[u].supplier, l0)
<1>1. /\ upload[u] = "persisting" /\ i \in ItemsOf(u) /\ IsOperation(u, i) /\ i \notin applied[u]
      /\ RowFree(u, R) /\ OperationAccepted(u, i) /\ ~Recorded(u)
      /\ writes' = [writes EXCEPT ![u][R] = new]
      /\ applied' = [applied EXCEPT ![u] = @ \cup {i}]
      /\ UNCHANGED <<products, suggestions, request, upload, document>>
  BY NotYetRecorded DEF ApplyOperation, NextToApply, Operations, UpsertWeightedProductEntry
<1>2. /\ R \in Rows /\ l0 \in Lines /\ u \in Processes /\ ItemOf(u, i).unit \in Units
      /\ l0 \in ProductIds /\ document[u].supplier \in Suppliers
      /\ document[u].supplier # NoSupplier
  BY <1>1, ItemTyped, StoreAssumption DEF ProtocolInv, Lines, Processes, Item, ProductIds
<1>3. new \in Product /\ new # Absent
  BY <1>2, EntryTyped, AbsentAssumption DEF ProtocolInv, TypeOK
<1>4. /\ writes'[u][R] = new
      /\ \A q \in Rows \ {R} : writes'[u][q] = writes[u][q]
      /\ \A p \in Processes \ {u} : writes'[p] = writes[p]
      /\ applied'[u] = applied[u] \cup {i}
      /\ \A v \in Uploads \ {u} : applied'[v] = applied[v]
  BY <1>1, <1>2 DEF ProtocolInv, TypeOK, StoreTypeOK, UploadTypeOK
<1>5. LocksExclusive'
  BY <1>1, <1>2, LocksAfterWrite DEF ProtocolInv, StockInv, OpenInv
<1>6. \A j : RowOf(u, j)' = RowOf(u, j) /\ ItemOf(u, j)' = ItemOf(u, j)
  BY <1>1 DEF RowOf, ItemOf
<1>7. \A q \in Rows : \A l : CountBefore(q, l)' = CountBefore(q, l)
  BY <1>1 DEF CountBefore
<1>8. InvoiceWrites(u)
  BY DEF StockInv, OpenInv
<1>9. CountBefore(R, l0) = 0
  <2>1. ~Enters(u, i, R)
    BY <1>1 DEF Enters
  <2> QED BY <1>1, <1>2, <2>1, ItemTyped
          DEF EachLineOnce, StockInv, CommittedInv, CountBefore, ProtocolInv
<1>10. /\ \A l \in Lines : new.entered[l] =
             IF l[1] = u /\ l[2] \in applied'[u] /\ RowOf(u, l[2]) = R THEN 1 ELSE CountBefore(R, l)
       /\ products[R] # Absent => SameCard(new, products[R])
       /\ products[R] = Absent =>
            \E j \in applied'[u] : new.id = <<u, j>> /\ RowOf(u, j) = R
       /\ \A j \in applied'[u] : RowOf(u, j) = R =>
            Accumulates(new, ItemOf(u, j).unit, document[u].supplier, TRUE)
  <2>1. CASE Visible(u, R) = Absent
    <3>1. writes[u][R] = Absent /\ products[R] = Absent
      BY <2>1 DEF Visible
    <3>2. \A j \in applied[u] : RowOf(u, j) # R
      BY <1>1, <1>8, <3>1 DEF InvoiceWrites
    <3>3. new = [id |-> l0, unit |-> ItemOf(u, i).unit, source |-> document[u].supplier,
                 entered |-> [NoEntries EXCEPT ![l0] = 1]]
      BY <2>1 DEF EntryResult, NewProduct
    <3>4. \A l \in Lines : new.entered[l] = IF l = l0 THEN 1 ELSE 0
      BY <3>3 DEF NoEntries
    <3>5. \A l \in Lines : l[1] = u /\ l[2] \in applied'[u] /\ RowOf(u, l[2]) = R <=> l = l0
      BY <1>2, <1>4, <3>2 DEF Lines
    <3>6. \A l \in Lines : CountBefore(R, l) = 0
      BY <3>1 DEF CountBefore
    <3>7. \A j \in applied'[u] : RowOf(u, j) = R => j = i
      BY <1>4, <3>2
    <3>8. Accumulates(new, ItemOf(u, i).unit, document[u].supplier, TRUE)
      BY <1>2, <3>3 DEF Accumulates, SameOrigin
    <3>9. new.id = <<u, i>> /\ i \in applied'[u]
      BY <1>4, <3>3
    <3> QED BY <3>1, <3>4, <3>5, <3>6, <3>7, <3>8, <3>9
  <2>2. CASE Visible(u, R) # Absent
    <3> DEFINE old == Visible(u, R)
    <3>1. old \in Product
      BY <1>2, <2>2, VisibleTyped DEF ProtocolInv, TypeOK
    <3>2. new = [old EXCEPT !.entered[l0] = @ + 1]
      BY <2>2 DEF EntryResult
    <3>3. /\ SameCard(new, old)
          /\ \A l \in Lines : new.entered[l] = IF l = l0 THEN old.entered[l0] + 1 ELSE old.entered[l]
      BY <1>2, <3>1, <3>2 DEF Product, SameCard
    <3>4. Accumulates(new, ItemOf(u, i).unit, document[u].supplier, TRUE)
      <4>1. Accumulates(old, ItemOf(u, i).unit, document[u].supplier, TRUE)
        BY <1>1, <2>2 DEF OperationAccepted, EntryAccepted
      <4> QED BY <3>3, <4>1 DEF Accumulates, SameOrigin, SameCard
    <3>5. CASE writes[u][R] = Absent
      <4>1. old = products[R] /\ products[R] # Absent
        BY <2>2, <3>5 DEF Visible
      <4>2. \A j \in applied[u] : RowOf(u, j) # R
        BY <1>1, <1>8, <3>5 DEF InvoiceWrites
      <4>3. \A l \in Lines : l[1] = u /\ l[2] \in applied'[u] /\ RowOf(u, l[2]) = R <=> l = l0
        BY <1>2, <1>4, <4>2 DEF Lines
      <4>4. \A l \in Lines : old.entered[l] = CountBefore(R, l)
        BY <4>1 DEF CountBefore
      <4>5. \A j \in applied'[u] : RowOf(u, j) = R => j = i
        BY <1>4, <4>2
      <4>6. \A l \in Lines : new.entered[l] = IF l = l0 THEN 1 ELSE CountBefore(R, l)
        BY <1>2, <1>9, <3>3, <4>4
      <4> QED BY <3>3, <3>4, <4>1, <4>3, <4>5, <4>6
    <3>6. CASE writes[u][R] # Absent
      <4>1. old = writes[u][R]
        BY <3>6 DEF Visible
      <4>2. \A l \in Lines : old.entered[l] =
              IF l[1] = u /\ l[2] \in applied[u] /\ RowOf(u, l[2]) = R THEN 1 ELSE CountBefore(R, l)
        BY <1>2, <1>8, <3>6, <4>1 DEF InvoiceWrites
      <4>3. old.entered[l0] = 0
        BY <1>1, <1>2, <1>9, <4>2
      <4>4. \A l \in Lines : l # l0 =>
              (l[1] = u /\ l[2] \in applied'[u] <=> l[1] = u /\ l[2] \in applied[u])
        BY <1>4 DEF Lines
      <4>5. \A l \in Lines : new.entered[l] =
              IF l[1] = u /\ l[2] \in applied'[u] /\ RowOf(u, l[2]) = R THEN 1 ELSE CountBefore(R, l)
        BY <1>2, <1>4, <3>3, <4>2, <4>3, <4>4
      <4>6. products[R] # Absent => SameCard(new, products[R])
        BY <1>2, <1>8, <3>3, <3>6, <4>1 DEF InvoiceWrites, SameCard
      <4>7. products[R] = Absent => \E j \in applied'[u] : new.id = <<u, j>> /\ RowOf(u, j) = R
        <5> SUFFICES ASSUME products[R] = Absent
                     PROVE  \E j \in applied'[u] : new.id = <<u, j>> /\ RowOf(u, j) = R
          OBVIOUS
        <5>1. PICK j \in applied[u] : old.id = <<u, j>> /\ RowOf(u, j) = R
          BY <1>2, <1>8, <3>6, <4>1 DEF InvoiceWrites
        <5>2. new.id = old.id /\ j \in applied'[u]
          BY <1>4, <3>3 DEF SameCard
        <5> QED BY <5>1, <5>2
      <4>8. \A j \in applied'[u] : RowOf(u, j) = R =>
              Accumulates(new, ItemOf(u, j).unit, document[u].supplier, TRUE)
        <5> SUFFICES ASSUME NEW j \in applied[u], RowOf(u, j) = R
                     PROVE  Accumulates(new, ItemOf(u, j).unit, document[u].supplier, TRUE)
          BY <1>4, <3>4
        <5>1. Accumulates(old, ItemOf(u, j).unit, document[u].supplier, TRUE)
          BY <1>2, <1>8, <3>6, <4>1 DEF InvoiceWrites
        <5> QED BY <3>3, <5>1 DEF Accumulates, SameOrigin, SameCard
      <4> QED BY <4>5, <4>6, <4>7, <4>8
    <3> QED BY <3>5, <3>6
  <2> QED BY <2>1, <2>2
<1>11. \A q \in Rows \ {R} : writes[u][q] # Absent =>
         /\ \A l \in Lines : writes[u][q].entered[l] =
              IF l[1] = u /\ l[2] \in applied'[u] /\ RowOf(u, l[2]) = q THEN 1 ELSE CountBefore(q, l)
         /\ products[q] # Absent => SameCard(writes[u][q], products[q])
         /\ products[q] = Absent =>
              \E j \in applied'[u] : writes[u][q].id = <<u, j>> /\ RowOf(u, j) = q
         /\ \A j \in applied'[u] : RowOf(u, j) = q =>
              Accumulates(writes[u][q], ItemOf(u, j).unit, document[u].supplier, TRUE)
  BY <1>4, <1>8 DEF InvoiceWrites
<1>12. \A j \in applied'[u] : writes'[u][RowOf(u, j)] # Absent
  <2> SUFFICES ASSUME NEW j \in applied[u] PROVE writes'[u][RowOf(u, j)] # Absent
    BY <1>3, <1>4
  <2>1. writes[u][RowOf(u, j)] # Absent
    BY <1>1, <1>8 DEF InvoiceWrites
  <2>2. RowOf(u, j) \in Rows
    <3>1. j \in ItemsOf(u)
      BY DEF ProtocolInv, UploadPhases, Operations
    <3> QED BY <3>1, ItemTyped DEF ProtocolInv
  <2> QED BY <1>3, <1>4, <2>1, <2>2
<1> HIDE DEF R, l0, new
<1>13. InvoiceWrites(u)'
  <2> SUFFICES ASSUME NEW q \in Rows, writes'[u][q] # Absent
               PROVE  /\ \A l \in Lines : writes'[u][q].entered[l] =
                           IF l[1] = u /\ l[2] \in applied'[u] /\ RowOf(u, l[2]) = q
                           THEN 1 ELSE CountBefore(q, l)
                      /\ products[q] # Absent => SameCard(writes'[u][q], products[q])
                      /\ products[q] = Absent =>
                           \E j \in applied'[u] : writes'[u][q].id = <<u, j>> /\ RowOf(u, j) = q
                      /\ \A j \in applied'[u] : RowOf(u, j) = q =>
                           Accumulates(writes'[u][q], ItemOf(u, j).unit, document[u].supplier, TRUE)
    BY <1>1, <1>6, <1>7, <1>12 DEF InvoiceWrites, SameCard, Accumulates, SameOrigin
  <2>1. CASE q = R
    BY <1>4, <1>10, <2>1
  <2>2. CASE q # R
    <3>1. writes'[u][q] = writes[u][q] /\ q \in Rows \ {R}
      BY <1>4, <2>2
    <3> QED BY <1>11, <3>1
  <2> QED BY <2>1, <2>2
<1>14. ASSUME NEW v \in Uploads PROVE InvoiceWrites(v)'
  <2>1. CASE v = u
    BY <1>13, <2>1
  <2>2. CASE v # u
    BY <1>1, <1>4, <2>2, InvoiceWritesKept DEF StockInv, OpenInv, Processes
  <2> QED BY <2>1, <2>2
<1>15. ASSUME NEW e \in Decisions PROVE DecisionWrites(e)'
  <2>1. e # u /\ e \in Processes
    BY StoreAssumption DEF Processes
  <2> QED BY <1>1, <1>4, <2>1, DecisionWritesKept DEF StockInv, OpenInv
<1> QED BY <1>5, <1>14, <1>15 DEF OpenInv

\* What a decision may write in a row: the suggested product or a new one, with
\* its line once.
LineWritten(d, r, product) ==
  /\ product # Absent
  /\ DecisionTarget(d, r)
  /\ \A l \in Lines : product.entered[l] = IF l = decision[d].line THEN 1 ELSE CountBefore(r, l)
  /\ products[r] # Absent => SameCard(product, products[r])
  /\ products[r] = Absent => /\ product.id = decision[d].line
                             /\ product.source = SuggestionOf(d).receivedSupplier
  /\ product.unit = SuggestionOf(d).unit

\* A decision's write joins those of the open transactions.
LEMMA OpenDecisionWrites ==
  ASSUME ProtocolInv, StockInv, NEW d \in Decisions, NEW r \in Rows, NEW product,
         decision[d].state = "applying", RowFree(d, r),
         DecisionMoves(d, "applying", "committing"),
         writes' = [writes EXCEPT ![d][r] = product], LineWritten(d, r, product),
         UNCHANGED <<products, suggestions>>, UNCHANGED uploadVars
  PROVE  OpenInv'
<1>1. d \in Processes /\ \A v \in Uploads : v # d
  BY StoreAssumption DEF Processes
<1>2. /\ decision'[d].state = "committing" /\ decision'[d].line = decision[d].line
      /\ decision'[d].verdict = decision[d].verdict
      /\ \A e \in Decisions \ {d} : decision'[e] = decision[e]
  BY DEF DecisionMoves, ProtocolInv, TypeOK, DecisionTypeOK, Decision
<1>3. \A q \in Rows : writes[d][q] = Absent
  BY <1>1 DEF StockInv, OpenInv, LocksExclusive
<1>4. /\ writes'[d][r] = product /\ \A q \in Rows \ {r} : writes'[d][q] = Absent
      /\ \A p \in Processes \ {d} : writes'[p] = writes[p]
  BY <1>1, <1>3 DEF ProtocolInv, TypeOK, StoreTypeOK
<1>5. LocksExclusive'
  BY <1>1, <1>2, LocksAfterWrite DEF ProtocolInv, StockInv, OpenInv, uploadVars
<1>6. ASSUME NEW v \in Uploads PROVE InvoiceWrites(v)'
  BY <1>1, <1>4, InvoiceWritesKept DEF StockInv, OpenInv, uploadVars, Processes
<1>7. DecisionWrites(d)'
  <2>1. SuggestionOf(d)' = SuggestionOf(d) /\ ReceivedRow(d)' = ReceivedRow(d)
    BY <1>2 DEF SuggestionOf, ReceivedRow
  <2>2. DecisionTarget(d, r)'
    BY <1>2, <2>1 DEF LineWritten, DecisionTarget, SuggestedRows
  <2>3. \A l : CountBefore(r, l)' = CountBefore(r, l)
    BY DEF CountBefore
  <2>4. DecisionWrote(d, r)'
    BY <1>2, <1>4, <2>1, <2>2, <2>3 DEF LineWritten, DecisionWrote, SameCard
  <2> QED BY <2>4 DEF DecisionWrites
<1>8. ASSUME NEW e \in Decisions PROVE DecisionWrites(e)'
  <2>1. CASE e = d
    BY <1>7, <2>1
  <2>2. CASE e # d
    BY <1>2, <1>4, <2>2, DecisionWritesKept DEF StockInv, OpenInv, Processes
  <2> QED BY <2>1, <2>2
<1> QED BY <1>5, <1>6, <1>8 DEF OpenInv

\* A line that is pending is in no product yet.
LEMMA PendingNotEntered ==
  ASSUME ProtocolInv, StockInv, NEW l \in Lines, suggestions[l] # Absent,
         suggestions[l].status = "PENDING", NEW r \in Rows
  PROVE  CountBefore(r, l) = 0
<1>1. PICK u \in Uploads, i \in Items : l = <<u, i>>
  BY DEF Lines
<1>2. ~IsOperation(u, i)
  BY <1>1, LineOfSuggestion
<1>3. ~Enters(u, i, r)
  BY <1>1, <1>2 DEF Enters
<1> QED BY <1>1, <1>3 DEF EachLineOnce, StockInv, CommittedInv, CountBefore

\* What a decision about to write is working on.
LEMMA ApplyingDecision ==
  ASSUME ProtocolInv, StockInv, NEW d \in Decisions, decision[d].state = "applying"
  PROVE  /\ d \in Processes /\ decision[d].line \in Lines /\ decision[d].verdict \in Verdicts
         /\ SuggestionOf(d) \in Suggestion /\ SuggestionOf(d) # Absent
         /\ SuggestionOf(d).status = "PENDING"
         /\ \A r \in Rows : writes[d][r] = Absent /\ CountBefore(r, decision[d].line) = 0
         /\ ReceivedRow(d) \in Rows
<1>1. /\ d \in Processes /\ decision[d].line \in Lines /\ decision[d].verdict \in Verdicts
      /\ SuggestionOf(d) \in Suggestion
  BY SuggestionOfTyped DEF ProtocolInv, DecisionsNamed, Processes
<1>2. SuggestionOf(d).status = "PENDING"
  BY DEF ProtocolInv, ClaimsExclusive, Claimed, SuggestionOf
<1>3. SuggestionOf(d) # Absent
  BY <1>1, AbsentAssumption
<1>4. \A r \in Rows : writes[d][r] = Absent
  BY <1>1, StoreAssumption DEF StockInv, OpenInv, LocksExclusive
<1>5. \A r \in Rows : CountBefore(r, decision[d].line) = 0
  BY <1>1, <1>2, <1>3, PendingNotEntered DEF SuggestionOf
<1>6. ReceivedRow(d) \in Rows
  BY <1>1 DEF ReceivedRow, Rows, Suggestion
<1> QED BY <1>1, <1>2, <1>3, <1>4, <1>5, <1>6

\* Confirming writes the suggested product with one line more.
LEMMA OpenConfirm ==
  ASSUME ProtocolInv, StockInv, NEW d \in Decisions, NEW r \in Rows, ApplyConfirm(d, r),
         UNCHANGED uploadVars
  PROVE  OpenInv'
<1> DEFINE l0 == decision[d].line
           new == EntryResult(d, r, products[r].id, SuggestionOf(d).unit, NoSupplier, l0)
<1>1. /\ decision[d].state = "applying" /\ decision[d].verdict = "CONFIRMED"
      /\ DecisionMoves(d, "applying", "committing") /\ RowFree(d, r)
      /\ products[r] # Absent /\ products[r].id = SuggestionOf(d).suggestedProduct
      /\ writes' = [writes EXCEPT ![d][r] = new]
      /\ UNCHANGED <<products, suggestions>>
  BY DEF ApplyConfirm, SuggestedRows, UpsertWeightedProductEntry
<1>2. l0 \in Lines /\ writes[d][r] = Absent /\ CountBefore(r, l0) = 0
  BY <1>1, ApplyingDecision
<1>3. Visible(d, r) = products[r] /\ products[r] \in Product
  BY <1>1, <1>2 DEF Visible, ProtocolInv, TypeOK, StoreTypeOK
<1>4. new = [products[r] EXCEPT !.entered[l0] = @ + 1]
  BY <1>1, <1>3 DEF EntryResult
<1>5. /\ SameCard(new, products[r]) /\ new \in Product
      /\ \A l \in Lines : new.entered[l] =
           IF l = l0 THEN products[r].entered[l0] + 1 ELSE products[r].entered[l]
  BY <1>2, <1>3, <1>4 DEF Product, SameCard
<1>6. \A l \in Lines : new.entered[l] = IF l = l0 THEN 1 ELSE CountBefore(r, l)
  BY <1>1, <1>2, <1>5 DEF CountBefore
<1>7. products[r].unit = SuggestionOf(d).unit
  BY <1>1, <1>3 DEF ApplyConfirm, ConfirmAccepted, EntryAccepted, Accumulates
<1>8. DecisionTarget(d, r) /\ new # Absent /\ new.unit = SuggestionOf(d).unit
  BY <1>1, <1>5, <1>7, AbsentAssumption DEF DecisionTarget, SuggestedRows, SameCard
<1>9. LineWritten(d, r, new)
  BY <1>1, <1>5, <1>6, <1>8 DEF LineWritten
<1> HIDE DEF new
<1> QED BY <1>1, <1>9, OpenDecisionWrites

\* Rejecting writes the received line's own product, where there was none.
LEMMA OpenReject ==
  ASSUME ProtocolInv, StockInv, NEW d \in Decisions, ApplyReject(d), UNCHANGED uploadVars
  PROVE  OpenInv'
<1> DEFINE l0 == decision[d].line
           r == ReceivedRow(d)
           new == NewProduct(l0, SuggestionOf(d).unit, SuggestionOf(d).receivedSupplier, l0)
<1>1. /\ decision[d].state = "applying" /\ decision[d].verdict = "REJECTED"
      /\ DecisionMoves(d, "applying", "committing") /\ RowFree(d, r)
      /\ Visible(d, r) = Absent
      /\ writes' = [writes EXCEPT ![d][r] = new]
      /\ UNCHANGED <<products, suggestions>>
  BY DEF ApplyReject
<1>2. /\ l0 \in Lines /\ r \in Rows /\ writes[d][r] = Absent /\ SuggestionOf(d) \in Suggestion
  BY <1>1, ApplyingDecision
<1>3. products[r] = Absent
  BY <1>1, <1>2 DEF Visible
<1>4. new \in Product
  BY <1>2, NewProductTyped DEF Suggestion, ProductIds
<1>5. /\ new.id = l0 /\ new.unit = SuggestionOf(d).unit /\ new # Absent
      /\ new.source = SuggestionOf(d).receivedSupplier
      /\ \A l \in Lines : new.entered[l] = IF l = l0 THEN 1 ELSE 0
  BY <1>4, AbsentAssumption DEF NewProduct, NoEntries
<1>6. \A l \in Lines : new.entered[l] = IF l = l0 THEN 1 ELSE CountBefore(r, l)
  BY <1>3, <1>5 DEF CountBefore
<1>7. DecisionTarget(d, r)
  BY <1>1, <1>3 DEF DecisionTarget
<1>8. LineWritten(d, r, new)
  BY <1>3, <1>5, <1>6, <1>7 DEF LineWritten
<1> HIDE DEF new, r
<1> QED BY <1>1, <1>2, <1>8, OpenDecisionWrites

-----------------------------------------------------------------------------
(* The rows, committed and not, through every step.                        *)

\* The stock part of the invariant holds in the initial states.
LEMMA StockInit == Init => StockInv
<1> SUFFICES ASSUME Init PROVE StockInv
  OBVIOUS
<1>1. /\ \A u \in Uploads : ~Recorded(u)
      /\ \A l \in Lines : suggestions[l] = Absent
      /\ \A p \in Processes, r \in Rows : writes[p][r] = Absent
  BY DEF Init, UploadInit, StoreInit, Recorded, NoWrites
<1>2. \A r \in Rows : products[r] # Absent => products[r].id = r /\ products[r].entered = NoEntries
  BY InitialAssumption DEF Init, StoreInit
<1>3. SuggestionsMatchLines
  BY <1>1 DEF SuggestionsMatchLines, Lines
<1>4. ProductsNamed
  BY <1>2 DEF ProductsNamed
<1>5. SuggestedExist
  BY <1>1 DEF SuggestedExist
<1>6. \A u \in Uploads, i \in Items, r \in Rows :
        ~Enters(u, i, r) /\ (products[r] # Absent => products[r].entered[<<u, i>>] = 0)
  BY <1>1, <1>2 DEF Enters, NoEntries, Lines
<1>7. EachLineOnce
  BY <1>6 DEF EachLineOnce
<1>8. OriginsUnmixed
  BY <1>6 DEF OriginsUnmixed
<1>9. LocksExclusive
  BY <1>1 DEF LocksExclusive
<1>10. \A u \in Uploads : InvoiceWrites(u)
  BY <1>1 DEF InvoiceWrites, Init, UploadInit, Processes
<1>11. \A d \in Decisions : DecisionWrites(d)
  BY DEF DecisionWrites, Init, DecisionInit
<1> QED BY <1>3, <1>4, <1>5, <1>7, <1>8, <1>9, <1>10, <1>11 DEF StockInv, CommittedInv, OpenInv

\* Steps before and after the transaction touch no row.
LEMMA StockUploadQuiet ==
  ASSUME ProtocolInv, StockInv, NEW u \in Uploads, upload[u] # "persisting",
         upload'[u] = "persisting" => applied[u] = {},
         \A v \in Uploads \ {u} : upload'[v] = upload[v] /\ document'[v] = document[v],
         \A v \in Uploads : Recorded(v) \/ Recorded(v)' =>
           document'[v] = document[v] /\ plan'[v] = plan[v],
         UNCHANGED <<processed, products, suggestions, writes, applied, request, decision>>
  PROVE  StockInv'
BY CommittedKept, OpenUploadQuiet DEF StockInv

\* So does any move of a handler that is not about its transaction's rows.
LEMMA StockMove ==
  ASSUME ProtocolInv, StockInv, NEW u \in Uploads, NEW from, NEW to,
         <<from, to>> \in QuietMoves, Moves(u, from, to),
         UNCHANGED <<processed, products, suggestions, writes, request, document, plan,
                     applied, decision>>
  PROVE  StockInv'
<1>1. /\ upload[u] = from /\ upload'[u] = to
      /\ \A v \in Uploads \ {u} : upload'[v] = upload[v]
  BY DEF Moves, ProtocolInv, TypeOK, UploadTypeOK
<1>2. upload[u] # "persisting" /\ (upload'[u] = "persisting" => upload[u] = "matching")
  BY <1>1 DEF QuietMoves
<1>3. upload'[u] = "persisting" => applied[u] = {}
  BY <1>2, NotYetRecorded
<1> QED BY <1>1, <1>2, <1>3, StockUploadQuiet

\* So does matching an item: what is planned is entered by nobody yet.
LEMMA StockPlanItem ==
  ASSUME ProtocolInv, StockInv, NEW u \in Uploads, NEW i \in Items, NEW kind, NEW product,
         upload[u] = "matching", PlanItem(u, i, kind, product), UNCHANGED decision
  PROVE  StockInv'
<1>1. ~Recorded(u) /\ applied[u] = {}
  BY NotYetRecorded
<1>2. /\ \A v \in Uploads \ {u} : plan'[v] = plan[v]
      /\ UNCHANGED <<processed, products, suggestions, writes, upload, request, document, applied>>
  BY DEF PlanItem, ProtocolInv, TypeOK, UploadTypeOK, storeVars
<1>3. ~Recorded(u)'
  BY <1>1, <1>2 DEF Recorded
<1> QED BY <1>1, <1>2, <1>3, StockUploadQuiet

\* Rolling an invoice back drops what it wrote and nothing else.
LEMMA StockRollback ==
  ASSUME ProtocolInv, StockInv, NEW u \in Uploads, EndWithRollback(u), UNCHANGED decision
  PROVE  StockInv'
<1>1. /\ upload'[u] = "failed" /\ u \in Processes
      /\ \A v \in Uploads \ {u} : upload'[v] = upload[v] /\ applied'[v] = applied[v]
      /\ writes' = [writes EXCEPT ![u] = NoWrites]
      /\ UNCHANGED <<processed, products, suggestions, request, document, plan>>
  BY DEF EndWithRollback, Moves, Rollback, ProtocolInv, TypeOK, UploadTypeOK, Processes
<1>2. CommittedInv'
  BY <1>1, CommittedKept DEF StockInv
<1>3. \A e \in Decisions : e # u
  BY StoreAssumption
<1>4. OpenInv'
  BY <1>1, <1>3, OpenEnds DEF StockInv
<1> QED BY <1>2, <1>4 DEF StockInv

\* Committing an invoice publishes what it wrote, in rows nobody else wrote.
LEMMA StockCommitInvoice ==
  ASSUME ProtocolInv, StockInv, NEW u \in Uploads, CommitInvoice(u), UNCHANGED decision
  PROVE  StockInv'
<1>1. /\ upload'[u] # "persisting" /\ u \in Processes
      /\ \A v \in Uploads \ {u} : upload'[v] = upload[v] /\ applied'[v] = applied[v]
      /\ writes' = [writes EXCEPT ![u] = NoWrites]
      /\ UNCHANGED <<request, document>>
  BY DEF CommitInvoice, CommitProducts, Moves, ProtocolInv, TypeOK, UploadTypeOK, Processes
<1>2. \A r \in Rows : writes[u][r] = Absent => products'[r] = products[r]
  BY DEF CommitInvoice, CommitProducts, Visible
<1>3. \A e \in Decisions : e # u
  BY StoreAssumption
<1>4. ASSUME NEW e \in Decisions, decision[e].state = "committing"
      PROVE  suggestions'[decision[e].line] = suggestions[decision[e].line]
  <2>1. decision[e].line \in Lines /\ suggestions[decision[e].line] # Absent
    BY <1>4 DEF ProtocolInv, DecisionsNamed
  <2>2. decision[e].line[1] # u
    BY <2>1, CommitRecords, LineOfSuggestion DEF Lines
  <2> QED BY <2>1, <2>2 DEF CommitInvoice
<1>5. OpenInv'
  BY <1>1, <1>2, <1>3, <1>4, OpenEnds DEF StockInv
<1> QED BY <1>5, CommittedAfterInvoice DEF StockInv

\* Reading an invoice never makes an upload that recorded another one.
LEMMA ExtractUnrecorded ==
  ASSUME ProtocolInv, NEW u \in Uploads, Extract(u)
  PROVE  /\ upload[u] = "extracting" /\ document[u] = Absent /\ ~Recorded(u) /\ ~Recorded(u)'
         /\ applied[u] = {} /\ upload'[u] \in {"reading", "failed"}
         /\ upload'[u] = "reading" => Acceptable(document'[u])
         /\ document'[u] \in Documents /\ document'[u] # Absent
         /\ \A v \in Uploads \ {u} : upload'[v] = upload[v] /\ document'[v] = document[v]
<1>1. PICK d \in Documents :
        /\ document' = [document EXCEPT ![u] = d]
        /\ Moves(u, "extracting", IF Acceptable(d) THEN "reading" ELSE "failed")
  BY DEF Extract
<1>2. upload[u] = "extracting" /\ document[u] = Absent /\ ~Recorded(u) /\ applied[u] = {}
  BY <1>1, NotYetRecorded DEF Moves, ProtocolInv, UploadPhases
<1>3. /\ document'[u] = d /\ upload'[u] \in {"reading", "failed"}
      /\ upload'[u] = "reading" => Acceptable(d)
      /\ \A v \in Uploads \ {u} : upload'[v] = upload[v] /\ document'[v] = document[v]
  BY <1>1 DEF Moves, ProtocolInv, TypeOK, UploadTypeOK
<1>4. d # Absent /\ d.accessKey \in AccessKeys
  BY DocumentAssumption
<1>5. ~Recorded(u)'
  BY <1>2, <1>3, <1>4, AbsentAssumption DEF Recorded, ProtocolInv, KeysOwned, Extract, storeVars
<1> QED BY <1>2, <1>3, <1>4, <1>5

\* Every step of an upload keeps the stock part of the invariant.
LEMMA StockUploadStep ==
  ASSUME ProtocolInv, StockInv, NEW u \in Uploads, UploadStep(u), UNCHANGED decision
  PROVE  StockInv'
<1> USE DEF QuietMoves
<1>1. CASE Authorize(u)
  BY <1>1, StockMove DEF Authorize, storeVars
<1>2. CASE DenyUpload(u)
  BY <1>2, StockMove DEF DenyUpload, storeVars
<1>3. CASE Extract(u)
  <2>1. UNCHANGED <<processed, products, suggestions, writes, applied, request, plan>>
    BY <1>3 DEF Extract, storeVars
  <2> QED BY <1>3, <2>1, ExtractUnrecorded, StockUploadQuiet
<1>4. CASE ReadCatalog(u)
  BY <1>4, StockMove DEF ReadCatalog, storeVars
<1>5. ASSUME NEW i \in Items, AddToKnownProduct(u, i) PROVE StockInv'
  BY <1>5, StockPlanItem DEF AddToKnownProduct
<1>6. ASSUME NEW i \in Items, RefuseIncompatible(u, i) PROVE StockInv'
  BY <1>6, StockMove DEF RefuseIncompatible, AbandonMatching, storeVars
<1>7. ASSUME NEW i \in Items, CreateProduct(u, i) PROVE StockInv'
  BY <1>7, StockPlanItem DEF CreateProduct
<1>8. ASSUME NEW i \in Items, SuggestProduct(u, i) PROVE StockInv'
  BY <1>8, StockPlanItem DEF SuggestProduct
<1>9. ASSUME NEW i \in Items, SimilarityUnavailable(u, i) PROVE StockInv'
  BY <1>9, StockMove DEF SimilarityUnavailable, AbandonMatching, storeVars
<1>10. ASSUME NEW i \in Items, ApplyOperation(u, i) PROVE StockInv'
  <2>1. UNCHANGED <<processed, products, suggestions, request, document, plan>>
    BY <1>10 DEF ApplyOperation
  <2>2. CommittedInv'
    BY <2>1, CommittedKept DEF StockInv
  <2> QED BY <1>10, <2>2, OpenApply DEF StockInv
<1>11. ASSUME NEW i \in Items, RefuseOperation(u, i) PROVE StockInv'
  BY <1>11, StockRollback DEF RefuseOperation
<1>12. CASE BeginPersist(u)
  BY <1>12, StockMove DEF BeginPersist, storeVars
<1>13. CASE CommitInvoice(u)
  BY <1>13, StockCommitInvoice
<1>14. CASE RefuseSuggestions(u)
  BY <1>14, StockRollback DEF RefuseSuggestions
<1>15. CASE AuditOperations(u)
  BY <1>15, StockMove DEF AuditOperations, storeVars
<1>16. CASE ExtractionFails(u)
  BY <1>16, StockMove DEF ExtractionFails, storeVars
<1>17. CASE StatementFails(u)
  BY <1>17, StockMove DEF StatementFails, storeVars
<1>18. CASE AbortInvoice(u)
  BY <1>18, StockRollback DEF AbortInvoice
<1> QED
  BY <1>1, <1>2, <1>3, <1>4, <1>5, <1>6, <1>7, <1>8, <1>9, <1>10, <1>11, <1>12,
     <1>13, <1>14, <1>15, <1>16, <1>17, <1>18
  DEF UploadStep, UploadProgress

\* A decision's move keeps the stock part of the invariant.
LEMMA StockDecisionQuiet ==
  ASSUME ProtocolInv, StockInv, NEW d \in Decisions, NEW from, NEW to,
         DecisionMoves(d, from, to), from # "committing", to # "committing",
         UNCHANGED <<processed, products, suggestions, writes>>, UNCHANGED uploadVars
  PROVE  StockInv'
<1>1. /\ decision[d].state = from /\ decision'[d].state = to
      /\ \A e \in Decisions \ {d} : decision'[e] = decision[e]
  BY DEF DecisionMoves, ProtocolInv, TypeOK, DecisionTypeOK, Decision
<1>2. CommittedInv'
  BY CommittedKept DEF StockInv, uploadVars
<1>3. OpenInv'
  BY <1>1, OpenDecisionQuiet DEF StockInv
<1> QED BY <1>2, <1>3 DEF StockInv

\* Giving a decision up drops what it wrote and nothing else.
LEMMA StockDecisionRollback ==
  ASSUME ProtocolInv, StockInv, NEW d \in Decisions, NEW from,
         DecisionMoves(d, from, "failed"), Rollback(d), UNCHANGED uploadVars
  PROVE  StockInv'
<1>1. /\ decision'[d].state = "failed" /\ d \in Processes /\ \A v \in Uploads : v # d
      /\ \A e \in Decisions \ {d} : decision'[e] = decision[e]
  BY StoreAssumption DEF DecisionMoves, ProtocolInv, TypeOK, DecisionTypeOK, Decision, Processes
<1>2. /\ writes' = [writes EXCEPT ![d] = NoWrites]
      /\ UNCHANGED <<processed, products, suggestions, request, document, plan, upload, applied>>
  BY DEF Rollback, uploadVars
<1>3. CommittedInv'
  BY <1>2, CommittedKept DEF StockInv
<1>4. OpenInv'
  BY <1>1, <1>2, OpenEnds DEF StockInv
<1> QED BY <1>3, <1>4 DEF StockInv

\* Committing a decision publishes the one row it wrote, and decides one line.
LEMMA StockCommitDecision ==
  ASSUME ProtocolInv, StockInv, NEW d \in Decisions, CommitDecision(d), UNCHANGED uploadVars
  PROVE  StockInv'
<1>1. /\ decision[d].state = "committing" /\ decision'[d].state # "committing"
      /\ d \in Processes /\ \A v \in Uploads : v # d
      /\ \A e \in Decisions \ {d} : decision'[e] = decision[e]
  BY StoreAssumption
  DEF CommitDecision, DecisionMoves, ProtocolInv, TypeOK, DecisionTypeOK, Decision, Processes
<1>2. /\ writes' = [writes EXCEPT ![d] = NoWrites]
      /\ UNCHANGED <<request, document, upload, applied>>
  BY DEF CommitDecision, CommitProducts, uploadVars
<1>3. \A r \in Rows : writes[d][r] = Absent => products'[r] = products[r]
  BY DEF CommitDecision, CommitProducts, Visible
<1>4. ASSUME NEW e \in Decisions \ {d}, decision[e].state = "committing"
      PROVE  suggestions'[decision[e].line] = suggestions[decision[e].line]
  <2>1. decision[e].line # decision[d].line
    BY <1>1, <1>4 DEF ProtocolInv, ClaimsExclusive, Claimed
  <2>2. decision[e].line \in Lines
    BY <1>4 DEF ProtocolInv, DecisionsNamed
  <2> QED BY <2>1, <2>2, DecisionCommits
<1>5. OpenInv'
  BY <1>1, <1>2, <1>3, <1>4, OpenEnds DEF StockInv
<1> QED BY <1>5, CommittedAfterDecision DEF StockInv

\* Every step of a decision keeps the stock part of the invariant.
LEMMA StockDecisionStep ==
  ASSUME ProtocolInv, StockInv, NEW d \in Decisions, DecisionStep(d), UNCHANGED uploadVars
  PROVE  StockInv'
<1>1. CASE ClaimSuggestion(d)
  BY <1>1, StockDecisionQuiet DEF ClaimSuggestion, storeVars
<1>2. CASE AlreadyDecided(d)
  BY <1>2, StockDecisionQuiet DEF AlreadyDecided, storeVars
<1>3. ASSUME NEW r \in Rows, ApplyConfirm(d, r) PROVE StockInv'
  <2>1. UNCHANGED <<processed, products, suggestions, request, document, plan>>
    BY <1>3 DEF ApplyConfirm, uploadVars
  <2>2. CommittedInv'
    BY <2>1, CommittedKept DEF StockInv
  <2> QED BY <1>3, <2>2, OpenConfirm DEF StockInv
<1>4. ASSUME NEW r \in Rows, RefuseConfirm(d, r) PROVE StockInv'
  BY <1>4, StockDecisionRollback DEF RefuseConfirm, AbandonDecision
<1>5. CASE ApplyReject(d)
  <2>1. UNCHANGED <<processed, products, suggestions, request, document, plan>>
    BY <1>5 DEF ApplyReject, uploadVars
  <2>2. CommittedInv'
    BY <2>1, CommittedKept DEF StockInv
  <2> QED BY <1>5, <2>2, OpenReject DEF StockInv
<1>6. CASE RefuseReject(d)
  BY <1>6, StockDecisionRollback DEF RefuseReject, AbandonDecision
<1>7. CASE CommitDecision(d)
  BY <1>7, StockCommitDecision
<1>8. CASE AbortDecision(d)
  BY <1>8, StockDecisionRollback DEF AbortDecision
<1>9. CASE AuditDecision(d)
  BY <1>9, StockDecisionQuiet DEF AuditDecision, storeVars
<1> QED
  BY <1>1, <1>2, <1>3, <1>4, <1>5, <1>6, <1>7, <1>8, <1>9
  DEF DecisionStep, DecisionProgress

\* Starting to decide touches no row.
LEMMA StockDecide ==
  ASSUME ProtocolInv, StockInv, NEW d \in Decisions, NEW user, NEW line, NEW verdict,
         Decide(d, user, line, verdict), UNCHANGED uploadVars
  PROVE  StockInv'
<1>1. /\ decision[d].state = "idle" /\ decision'[d].state = "claiming"
      /\ \A e \in Decisions \ {d} : decision'[e] = decision[e]
      /\ UNCHANGED <<processed, products, suggestions, writes>>
  BY DEF Decide, storeVars, ProtocolInv, TypeOK, DecisionTypeOK
<1>2. CommittedInv'
  BY <1>1, CommittedKept DEF StockInv, uploadVars
<1>3. OpenInv'
  BY <1>1, OpenDecisionQuiet DEF StockInv
<1> QED BY <1>2, <1>3 DEF StockInv

\* A crash drops every uncommitted row and keeps the committed ones.
LEMMA StockCrash ==
  ASSUME ProtocolInv, StockInv, Crash
  PROVE  StockInv'
<1>1. CommittedInv'
  BY CommittedKept DEF Crash, StockInv
<1>2. \A p \in Processes, r \in Rows : writes'[p][r] = Absent
  BY DEF Crash, NoWrites
<1>3. LocksExclusive'
  BY <1>2 DEF LocksExclusive
<1>4. \A u \in Uploads : upload'[u] # "persisting"
  BY DEF Crash
<1>5. ASSUME NEW u \in Uploads PROVE InvoiceWrites(u)'
  BY <1>2, <1>4, InvoiceWritesNone DEF Processes
<1>6. \A d \in Decisions : decision'[d].state # "committing"
  BY DEF Crash, RunningDecision, ProtocolInv, TypeOK, DecisionTypeOK, Decision
<1>7. ASSUME NEW d \in Decisions PROVE DecisionWrites(d)'
  BY <1>6 DEF DecisionWrites
<1> QED BY <1>1, <1>3, <1>5, <1>7 DEF StockInv, OpenInv

\* Nothing happens.
LEMMA StockStutter ==
  ASSUME ProtocolInv, StockInv, UNCHANGED vars
  PROVE  StockInv'
<1>1. CommittedInv'
  BY CommittedKept DEF StockInv, vars, storeVars, uploadVars
<1>2. LocksExclusive'
  BY DEF StockInv, OpenInv, LocksExclusive, vars, storeVars, uploadVars
<1>3. ASSUME NEW u \in Uploads PROVE InvoiceWrites(u)'
  BY InvoiceWritesKept DEF StockInv, OpenInv, vars, storeVars, uploadVars
<1>4. ASSUME NEW d \in Decisions PROVE DecisionWrites(d)'
  BY DecisionWritesKept DEF StockInv, OpenInv, vars, storeVars, uploadVars
<1> QED BY <1>1, <1>2, <1>3, <1>4 DEF StockInv, OpenInv

\* The stock part of the invariant is kept by every step.
LEMMA StockStep ==
  ASSUME ProtocolInv, StockInv, [Next]_vars
  PROVE  StockInv'
<1>1. ASSUME NEW u \in Uploads, UploadStep(u), UNCHANGED decision PROVE StockInv'
  BY <1>1, StockUploadStep
<1>2. ASSUME NEW d \in Decisions, DecisionStep(d), UNCHANGED uploadVars PROVE StockInv'
  BY <1>2, StockDecisionStep
<1>3. ASSUME NEW d \in Decisions, NEW user \in Users, NEW line \in Lines,
             NEW verdict \in Verdicts, Decide(d, user, line, verdict), UNCHANGED uploadVars
      PROVE  StockInv'
  BY <1>3, StockDecide
<1>4. CASE Crash
  BY <1>4, StockCrash
<1>5. CASE Finished \/ UNCHANGED vars
  BY <1>5, StockStutter DEF Finished
<1> QED BY <1>1, <1>2, <1>3, <1>4, <1>5 DEF Next

\* Rows, committed and uncommitted, hold what the requests entered, in every
\* reachable state.
THEOREM StockInvariant == Spec => []StockInv
<1>1. ProtocolInv /\ StockInv /\ [Next]_vars => StockInv'
  BY StockStep
<1> QED BY <1>1, StockInit, ProtocolInvariant, PTL DEF Spec

\* The stock is exact: whatever uploads, decisions, rollbacks and crashes
\* interleave, a line is in one product, once, if its invoice is recorded and it
\* was entered automatically or decided, in none otherwise, and no product mixes
\* units or, without a person's confirmation, suppliers.
THEOREM StockIsExact == Spec => []StockExact
<1>1. StockInv => StockExact
  BY DEF StockInv, CommittedInv, StockExact
<1> QED BY <1>1, StockInvariant, PTL

-----------------------------------------------------------------------------
(* What steps change: for uploads, for decisions, and for what is settled.  *)

\* The shapes of an upload's step, told by what they change.
LEMMA UploadChange ==
  ASSUME ProtocolInv, NEW u \in Uploads, UploadStep(u)
  PROVE  /\ request' = request
         /\ \A v \in Uploads \ {u} :
              /\ upload'[v] = upload[v] /\ document'[v] = document[v]
              /\ plan'[v] = plan[v] /\ snapshot'[v] = snapshot[v]
         /\ \/ Authorize(u) \/ Extract(u) \/ ReadCatalog(u)
            \/ CommitInvoice(u) \/ AuditOperations(u)
            \/ \E i \in Items, kind \in {"add", "create", "suggest"} : \E product :
                 /\ upload[u] = "matching" /\ NextToMatch(u, i)
                 /\ kind = "suggest" => product \in Candidates(u)
                 /\ PlanItem(u, i, kind, product)
            \/ /\ upload'[u] \in {"failed", upload[u]} \/ (upload[u] = "matching" /\ upload'[u] = "persisting")
               /\ UNCHANGED <<processed, products, suggestions, audited, document, plan, snapshot>>
<1>0. /\ upload \in [Uploads -> UploadStates] /\ document \in [Uploads -> Documents \cup {Absent}]
      /\ plan \in [Uploads -> [Items -> PlanStep]]
      /\ snapshot \in [Uploads -> [Codes -> Card \cup {Absent}]]
  BY DEF ProtocolInv, TypeOK, UploadTypeOK
<1>1. CASE Authorize(u)
  BY <1>0, <1>1 DEF Authorize, Moves
<1>2. CASE Extract(u)
  BY <1>0, <1>2, ExtractUnrecorded DEF Extract
<1>3. CASE ReadCatalog(u)
  BY <1>0, <1>3 DEF ReadCatalog, Moves
<1>4. CASE CommitInvoice(u)
  BY <1>0, <1>4 DEF CommitInvoice, Moves
<1>5. CASE AuditOperations(u)
  BY <1>0, <1>5 DEF AuditOperations, Moves
<1>6. ASSUME NEW i \in Items, NEW kind \in {"add", "create", "suggest"}, NEW product,
             upload[u] = "matching", NextToMatch(u, i), kind = "suggest" => product \in Candidates(u),
             PlanItem(u, i, kind, product)
      PROVE  /\ request' = request
             /\ \A v \in Uploads \ {u} :
                  /\ upload'[v] = upload[v] /\ document'[v] = document[v]
                  /\ plan'[v] = plan[v] /\ snapshot'[v] = snapshot[v]
  BY <1>0, <1>6 DEF PlanItem
<1>7. ASSUME NEW from, NEW to, Moves(u, from, to),
             to = "failed" \/ (from = "matching" /\ to = "persisting"),
             UNCHANGED <<processed, products, suggestions, audited, request, document, plan, snapshot>>
      PROVE  /\ request' = request
             /\ \A v \in Uploads \ {u} :
                  /\ upload'[v] = upload[v] /\ document'[v] = document[v]
                  /\ plan'[v] = plan[v] /\ snapshot'[v] = snapshot[v]
             /\ upload'[u] \in {"failed", upload[u]} \/ (upload[u] = "matching" /\ upload'[u] = "persisting")
             /\ UNCHANGED <<processed, products, suggestions, audited, document, plan, snapshot>>
  BY <1>0, <1>7 DEF Moves
<1>8. CASE DenyUpload(u)
  BY <1>7, <1>8 DEF DenyUpload, storeVars
<1>9. CASE ExtractionFails(u)
  BY <1>7, <1>9 DEF ExtractionFails, storeVars
<1>10. CASE StatementFails(u)
  BY <1>7, <1>10 DEF StatementFails, storeVars
<1>11. CASE BeginPersist(u)
  BY <1>7, <1>11 DEF BeginPersist, storeVars
<1>12. CASE EndWithRollback(u)
  BY <1>7, <1>12 DEF EndWithRollback, Rollback
<1>13. CASE AbandonMatching(u)
  BY <1>7, <1>13 DEF AbandonMatching, storeVars
<1>14. ASSUME NEW i \in Items, ApplyOperation(u, i)
       PROVE  /\ request' = request
              /\ \A v \in Uploads \ {u} :
                   /\ upload'[v] = upload[v] /\ document'[v] = document[v]
                   /\ plan'[v] = plan[v] /\ snapshot'[v] = snapshot[v]
              /\ upload'[u] = upload[u]
              /\ UNCHANGED <<processed, products, suggestions, audited, document, plan, snapshot>>
  BY <1>14 DEF ApplyOperation
<1>15. ASSUME NEW i \in Items, AddToKnownProduct(u, i) \/ CreateProduct(u, i) \/ SuggestProduct(u, i)
       PROVE  \E kind \in {"add", "create", "suggest"} : \E product :
                 /\ upload[u] = "matching" /\ NextToMatch(u, i)
                 /\ kind = "suggest" => product \in Candidates(u)
                 /\ PlanItem(u, i, kind, product)
  <2>1. CASE AddToKnownProduct(u, i)
    BY <2>1 DEF AddToKnownProduct
  <2>2. CASE CreateProduct(u, i)
    BY <2>2 DEF CreateProduct
  <2>3. CASE SuggestProduct(u, i)
    BY <2>3 DEF SuggestProduct
  <2> QED BY <1>15, <2>1, <2>2, <2>3
<1>16. ASSUME NEW i \in Items, RefuseIncompatible(u, i) \/ SimilarityUnavailable(u, i)
       PROVE  AbandonMatching(u)
  BY <1>16 DEF RefuseIncompatible, SimilarityUnavailable
<1>17. (\E i \in Items : RefuseOperation(u, i)) \/ RefuseSuggestions(u) \/ AbortInvoice(u)
         => EndWithRollback(u)
  BY DEF RefuseOperation, RefuseSuggestions, AbortInvoice
<1> QED
  BY <1>1, <1>2, <1>3, <1>4, <1>5, <1>6, <1>8, <1>9, <1>10, <1>11, <1>12, <1>13, <1>14,
     <1>15, <1>16, <1>17
  DEF UploadStep, UploadProgress

\* The shapes of a decision's step, told by what they change.
LEMMA DecisionChange ==
  ASSUME ProtocolInv, NEW d \in Decisions, DecisionStep(d)
  PROVE  /\ decision[d].state # "idle" /\ decision'[d].line = decision[d].line
         /\ decision'[d].user = decision[d].user /\ decision'[d].state # "idle"
         /\ \A e \in Decisions \ {d} : decision'[e] = decision[e]
         /\ \/ CommitDecision(d)
            \/ AuditDecision(d) /\ decision'[d].state = "done"
            \/ /\ decision'[d].state # "auditing"
               /\ UNCHANGED <<processed, products, suggestions, audited>>
<1>1. ASSUME NEW from, NEW to, DecisionMoves(d, from, to), from # "idle", to # "idle"
      PROVE  /\ decision[d].state # "idle" /\ decision'[d].line = decision[d].line
             /\ decision'[d].user = decision[d].user /\ decision'[d].state = to
             /\ \A e \in Decisions \ {d} : decision'[e] = decision[e]
             /\ decision'[d].state # "idle"
  BY <1>1 DEF DecisionMoves, ProtocolInv, TypeOK, DecisionTypeOK, Decision
<1>2. CASE ClaimSuggestion(d)
  BY <1>1, <1>2 DEF ClaimSuggestion, storeVars
<1>3. CASE AlreadyDecided(d)
  BY <1>1, <1>3 DEF AlreadyDecided, storeVars
<1>4. CASE \E r \in Rows : ApplyConfirm(d, r)
  BY <1>1, <1>4 DEF ApplyConfirm
<1>5. CASE AbandonDecision(d)
  BY <1>1, <1>5 DEF AbandonDecision, Rollback
<1>6. CASE ApplyReject(d)
  BY <1>1, <1>6 DEF ApplyReject
<1>7. CASE CommitDecision(d)
  BY <1>1, <1>7 DEF CommitDecision
<1>8. CASE AbortDecision(d)
  BY <1>1, <1>8 DEF AbortDecision, Rollback
<1>9. CASE AuditDecision(d)
  BY <1>1, <1>9 DEF AuditDecision
<1>10. (\E r \in Rows : RefuseConfirm(d, r)) \/ RefuseReject(d) => AbandonDecision(d)
  BY DEF RefuseConfirm, RefuseReject
<1> QED
  BY <1>2, <1>3, <1>4, <1>5, <1>6, <1>7, <1>8, <1>9, <1>10
  DEF DecisionStep, DecisionProgress

\* Who may commit what: a step that changes a product, a key or a suggestion
\* commits an invoice or a decision.
LEMMA OnlyCommits ==
  ASSUME ProtocolInv, [Next]_vars
  PROVE  \/ UNCHANGED <<processed, products, suggestions>>
         \/ \E u \in Uploads : CommitInvoice(u) /\ UNCHANGED decision
         \/ \E d \in Decisions : CommitDecision(d) /\ UNCHANGED uploadVars
<1>1. ASSUME NEW u \in Uploads, UploadStep(u)
      PROVE  CommitInvoice(u) \/ UNCHANGED <<processed, products, suggestions>>
  BY <1>1, UploadChange DEF Authorize, Extract, ReadCatalog, AuditOperations, PlanItem, storeVars
<1>2. ASSUME NEW d \in Decisions, DecisionStep(d)
      PROVE  CommitDecision(d) \/ UNCHANGED <<processed, products, suggestions>>
  BY <1>2, DecisionChange DEF AuditDecision, storeVars
<1>3. ASSUME NEW d \in Decisions, NEW user, NEW line, NEW verdict, Decide(d, user, line, verdict)
      PROVE  UNCHANGED <<processed, products, suggestions>>
  BY <1>3 DEF Decide, storeVars
<1>4. Crash \/ Finished \/ UNCHANGED vars => UNCHANGED <<processed, products, suggestions>>
  BY DEF Crash, Finished, vars, storeVars
<1> QED BY <1>1, <1>2, <1>3, <1>4 DEF Next

\* A product, once in the store, stays, and keeps its identifier, unit and source.
LEMMA CardsKept ==
  ASSUME ProtocolInv, StockInv, [Next]_vars, NEW r \in Rows, products[r] # Absent
  PROVE  products'[r] # Absent /\ SameCard(products'[r], products[r])
<1>1. CASE UNCHANGED <<processed, products, suggestions>>
  BY <1>1 DEF SameCard
<1>2. ASSUME NEW u \in Uploads, CommitInvoice(u)
      PROVE  products'[r] # Absent /\ SameCard(products'[r], products[r])
  BY <1>2, InvoiceCommitRows
<1>3. ASSUME NEW d \in Decisions, CommitDecision(d)
      PROVE  products'[r] # Absent /\ SameCard(products'[r], products[r])
  <2>1. PICK q \in Rows : /\ DecisionWrote(d, q) /\ products'[q] = writes[d][q]
                          /\ \A s \in Rows \ {q} : products'[s] = products[s]
    BY <1>3, DecisionCommits
  <2> QED BY <2>1 DEF DecisionWrote, SameCard
<1> QED BY <1>1, <1>2, <1>3, OnlyCommits

\* A suggestion, once recorded, stays, and keeps its stock and what it suggests.
LEMMA SuggestionsStay ==
  ASSUME ProtocolInv, StockInv, [Next]_vars, NEW l \in Lines, suggestions[l] # Absent
  PROVE  /\ suggestions'[l] # Absent /\ suggestions'[l].stock = suggestions[l].stock
         /\ suggestions'[l].suggestedProduct = suggestions[l].suggestedProduct
<1> DEFINE Stays == /\ suggestions'[l] # Absent /\ suggestions'[l].stock = suggestions[l].stock
                    /\ suggestions'[l].suggestedProduct = suggestions[l].suggestedProduct
<1>1. CASE UNCHANGED <<processed, products, suggestions>>
  BY <1>1
<1>2. ASSUME NEW u \in Uploads, CommitInvoice(u) PROVE Stays
  <2>1. l[1] # u
    BY <1>2, CommitRecords, LineOfSuggestion DEF Lines
  <2> QED BY <1>2, <2>1 DEF CommitInvoice
<1>3. ASSUME NEW d \in Decisions, CommitDecision(d) PROVE Stays
  <2>1. CASE l = decision[d].line
    <3> DEFINE now == [SuggestionOf(d) EXCEPT !.status = decision[d].verdict, !.decidedBy = decision[d].user]
    <3>1. suggestions'[l] = now /\ SuggestionOf(d) = suggestions[l] /\ SuggestionOf(d) \in Suggestion
      BY <1>3, <2>1, DecisionCommits DEF SuggestionOf
    <3>2. decision[d].verdict \in Verdicts /\ decision[d].user \in Users
      BY <1>3, DecisionCommits DEF ProtocolInv, DecisionsNamed
    <3>3. now \in Suggestion /\ now.stock = SuggestionOf(d).stock
          /\ now.suggestedProduct = SuggestionOf(d).suggestedProduct
      BY <3>1, <3>2 DEF Suggestion, Verdicts
    <3> HIDE DEF now
    <3> QED BY <3>1, <3>3, AbsentAssumption
  <2>2. CASE l # decision[d].line
    BY <1>3, <2>2, DecisionCommits
  <2> QED BY <2>1, <2>2
<1> QED BY <1>1, <1>2, <1>3, OnlyCommits

\* An upload that recorded its invoice keeps it, its request and its plan.
LEMMA RecordedKept ==
  ASSUME ProtocolInv, [Next]_vars, NEW u \in Uploads, Recorded(u)
  PROVE  /\ Recorded(u)' /\ document'[u] = document[u] /\ plan'[u] = plan[u]
         /\ request' = request
<1>1. document[u] # Absent /\ KeyOf(u) \in AccessKeys /\ processed[KeyOf(u)] = u /\ u # Absent
  BY DocumentAssumption, AbsentAssumption
  DEF Recorded, KeyOf, ProtocolInv, TypeOK, UploadTypeOK
<1>2. processed'[KeyOf(u)] = u
  BY <1>1, StepKeepsDecisions
<1>3. document'[u] = document[u] /\ plan'[u] = plan[u] /\ request' = request
  <2>1. ASSUME NEW v \in Uploads, UploadStep(v)
        PROVE  document'[u] = document[u] /\ plan'[u] = plan[u] /\ request' = request
    <3>1. request' = request
      BY <2>1, UploadChange
    <3>2. CASE v # u
      BY <2>1, <3>1, <3>2, UploadChange
    <3>3. CASE v = u
      <4>1. upload[u] \notin {"extracting", "matching"}
        BY NotYetRecorded
      <4>2. ~Extract(u)
        BY <4>1, ExtractUnrecorded
      <4> QED BY <2>1, <3>1, <3>3, <4>1, <4>2, UploadChange
              DEF Authorize, ReadCatalog, AuditOperations, CommitInvoice
    <3> QED BY <3>2, <3>3
  <2>2. UNCHANGED uploadVars \/ Crash \/ Finished \/ UNCHANGED vars
          => document'[u] = document[u] /\ plan'[u] = plan[u] /\ request' = request
    BY DEF uploadVars, Crash, Finished, vars
  <2> QED BY <2>1, <2>2 DEF Next
<1>4. Recorded(u)'
  BY <1>1, <1>2, <1>3 DEF Recorded, KeyOf
<1> QED BY <1>3, <1>4

\* What is settled stays settled.
LEMMA SettledKept ==
  ASSUME ProtocolInv, [Next]_vars, NEW l \in Lines, Settled(l)
  PROVE  Settled(l)'
<1>1. l[1] \in Uploads /\ Recorded(l[1])
  BY DEF Settled, Lines
<1>2. /\ Recorded(l[1])' /\ document'[l[1]] = document[l[1]] /\ plan'[l[1]] = plan[l[1]]
  BY <1>1, RecordedKept
<1>3. Decided(l) => Decided(l)'
  BY StepKeepsDecisions DEF Decided
<1> QED BY <1>2, <1>3 DEF Settled, ItemsOf, IsOperation

-----------------------------------------------------------------------------
(* What requests know and may do.                                          *)

\* A new suggestion resolves: what was read is still there, and what the invoice
\* itself creates is committed with it.
LEMMA ResolveCommitInvoice ==
  ASSUME ProtocolInv, StockInv, PlansResolve, NEW u \in Uploads, CommitInvoice(u),
         NEW i \in Suggested(u)
  PROVE  \E c \in Codes :
           /\ products'[<<request[u].stock, c>>] # Absent
           /\ products'[<<request[u].stock, c>>].id = plan[u][i].suggestedProduct
<1> DEFINE sp == plan[u][i].suggestedProduct
<1>1. request[u].stock \in Stocks
  BY DocumentAssumption DEF ProtocolInv, TypeOK, UploadTypeOK
<1>2. sp \in Candidates(u)
  BY DEF PlansResolve, PlanResolves
<1>3. ASSUME NEW c \in Codes, snapshot[u][c] # Absent, sp = snapshot[u][c].id
      PROVE  /\ products'[<<request[u].stock, c>>] # Absent
             /\ products'[<<request[u].stock, c>>].id = sp
  <2>1. /\ products[<<request[u].stock, c>>] # Absent
        /\ products[<<request[u].stock, c>>].id = sp
    BY <1>3 DEF PlansResolve, PlanResolves
  <2>2. <<request[u].stock, c>> \in Rows
    BY <1>1 DEF Rows
  <2> QED BY <2>1, <2>2, InvoiceCommitRows DEF SameCard
<1>4. ASSUME NEW j \in Created(u), sp = <<u, j>>
      PROVE  \E c \in Codes :
               /\ products'[<<request[u].stock, c>>] # Absent
               /\ products'[<<request[u].stock, c>>].id = sp
  <2>1. PICK r \in Rows : Visible(u, r) # Absent /\ Visible(u, r).id = sp
    BY DEF CommitInvoice, SuggestedProductsExist
  <2>2. products'[r] # Absent /\ products'[r].id = sp
    BY <2>1 DEF CommitInvoice, CommitProducts
  <2>3. products[r] = Absent
    <3> SUFFICES ASSUME products[r] # Absent PROVE FALSE
      OBVIOUS
    <3>1. products[r].id = <<u, j>>
      BY <1>4, <2>2, InvoiceCommitRows DEF SameCard
    <3>2. products[r].id # r
      BY <3>1, NamesApart
    <3>3. PICK w \in Uploads, k \in Items : products[r].id = <<w, k>> /\ Creates(w, k, r)
      BY <3>2 DEF ProductsNamed, StockInv, CommittedInv
    <3>4. <<w, k>> = <<u, j>>
      BY <3>1, <3>3
    <3>5. w = u
      BY <3>4
    <3> QED BY <3>3, <3>5, CommitRecords DEF Creates
  <2>4. PICK m \in applied[u] : RowOf(u, m) = r
    BY <2>2, <2>3, InvoiceCommitRows
  <2>5. m \in ItemsOf(u)
    BY DEF ProtocolInv, UploadPhases, Operations
  <2>6. ItemOf(u, m).code \in Codes /\ r = <<request[u].stock, ItemOf(u, m).code>>
    BY <2>4, <2>5, ItemTyped DEF ProtocolInv, Item, RowOf
  <2> QED BY <2>2, <2>6
<1> QED BY <1>2, <1>3, <1>4 DEF Candidates

\* Suggestions keep resolving to a product of their own stock.
LEMMA ResolveStep ==
  ASSUME ProtocolInv, StockInv, PlansResolve, SuggestionsResolve, [Next]_vars
  PROVE  SuggestionsResolve'
<1> SUFFICES ASSUME NEW l \in Lines, suggestions'[l] # Absent
             PROVE  \E c \in Codes :
                      /\ products'[<<suggestions'[l].stock, c>>] # Absent
                      /\ products'[<<suggestions'[l].stock, c>>].id = suggestions'[l].suggestedProduct
  BY DEF SuggestionsResolve
<1>1. CASE suggestions[l] # Absent
  <2>1. PICK c \in Codes :
          /\ products[<<suggestions[l].stock, c>>] # Absent
          /\ products[<<suggestions[l].stock, c>>].id = suggestions[l].suggestedProduct
    BY <1>1 DEF SuggestionsResolve
  <2>2. <<suggestions[l].stock, c>> \in Rows
    BY <1>1 DEF Rows, ProtocolInv, TypeOK, StoreTypeOK, Suggestion
  <2>3. /\ products'[<<suggestions[l].stock, c>>] # Absent
        /\ products'[<<suggestions[l].stock, c>>].id = suggestions[l].suggestedProduct
    BY <2>1, <2>2, CardsKept DEF SameCard
  <2> QED BY <1>1, <2>3, SuggestionsStay
<1>2. CASE suggestions[l] = Absent
  <2>1. ASSUME NEW d \in Decisions, CommitDecision(d) PROVE FALSE
    <3>1. decision[d].line # l
      BY <1>2, <2>1, DecisionCommits DEF ProtocolInv, DecisionsNamed
    <3> QED BY <1>2, <2>1, <3>1, DecisionCommits
  <2>2. PICK u \in Uploads : CommitInvoice(u)
    BY <1>2, <2>1, OnlyCommits
  <2>3. l[2] \in Suggested(u) /\ suggestions'[l] = NewSuggestion(u, l[2])
    BY <1>2, <2>2 DEF CommitInvoice
  <2>4. /\ suggestions'[l].stock = request[u].stock
        /\ suggestions'[l].suggestedProduct = plan[u][l[2]].suggestedProduct
    BY <2>3 DEF NewSuggestion
  <2> QED BY <2>2, <2>3, <2>4, ResolveCommitInvoice
<1> QED BY <1>1, <1>2

\* An upload's plan still resolves when its handler only moves on.
LEMMA PlanKept ==
  ASSUME ProtocolInv, StockInv, [Next]_vars, NEW v \in Uploads, PlanResolves(v),
         upload'[v] \in {"received", "extracting", "reading"} =>
           upload[v] \in {"received", "extracting", "reading"},
         request'[v] = request[v], document'[v] = document[v], plan'[v] = plan[v],
         snapshot'[v] = snapshot[v]
  PROVE  PlanResolves(v)'
<1>1. request[v].stock \in Stocks
  BY DocumentAssumption DEF ProtocolInv, TypeOK, UploadTypeOK
<1>2. ASSUME NEW c \in Codes, snapshot[v][c] # Absent
      PROVE  /\ products'[<<request[v].stock, c>>] # Absent
             /\ products'[<<request[v].stock, c>>].id = snapshot[v][c].id
  <2>1. <<request[v].stock, c>> \in Rows
    BY <1>1 DEF Rows
  <2> QED BY <1>2, <2>1, CardsKept DEF PlanResolves, SameCard
<1>3. Suggested(v)' = Suggested(v) /\ Candidates(v)' = Candidates(v)
  BY DEF Suggested, Candidates, Created, ItemsOf
<1> QED BY <1>2, <1>3 DEF PlanResolves

\* Reading the invoice and the catalog, when nothing is planned yet.
LEMMA PlanRead ==
  ASSUME ProtocolInv, StockInv, NEW u \in Uploads, PlanResolves(u),
         Extract(u) \/ ReadCatalog(u), [Next]_vars
  PROVE  PlanResolves(u)'
<1>1. /\ upload[u] \in {"extracting", "reading"} /\ plan[u] = NoPlan
      /\ UNCHANGED <<plan, request, products>>
  BY DEF Extract, ReadCatalog, Moves, PlanResolves, storeVars
<1>2. ASSUME NEW i \in Suggested(u)' PROVE FALSE
  <2>1. i \in DOMAIN document'[u].items /\ document'[u] \in Documents /\ plan[u][i].kind = "suggest"
    BY <1>1, <1>2, ExtractUnrecorded
    DEF Suggested, ItemsOf, ReadCatalog, ProtocolInv, TypeOK, UploadTypeOK
  <2>2. document'[u].items \in Seq(Item) /\ Len(document'[u].items) <= MaxItems
    BY <2>1, DocumentAssumption
  <2>3. i \in 1 .. Len(document'[u].items) /\ Len(document'[u].items) \in Nat
    BY <2>1, <2>2, LenProperties
  <2>4. i \in Items
    BY <2>2, <2>3, StoreAssumption DEF Items
  <2> QED BY <1>1, <2>1, <2>4 DEF NoPlan
<1>3. CASE Extract(u)
  <2>1. UNCHANGED snapshot
    BY <1>3 DEF Extract
  <2> QED BY <1>1, <1>2, <2>1 DEF PlanResolves
<1>4. CASE ReadCatalog(u)
  <2>1. \A c \in Codes : snapshot'[u][c] = CommittedCard(<<request[u].stock, c>>)
    BY <1>4 DEF ReadCatalog, ProtocolInv, TypeOK, UploadTypeOK
  <2>2. upload'[u] = "matching"
    BY <1>4 DEF ReadCatalog, Moves, ProtocolInv, TypeOK, UploadTypeOK
  <2>3. ASSUME NEW c \in Codes, snapshot'[u][c] # Absent
        PROVE  /\ products'[<<request'[u].stock, c>>] # Absent
               /\ products'[<<request'[u].stock, c>>].id = snapshot'[u][c].id
    <3>1. products[<<request[u].stock, c>>] # Absent
          /\ snapshot'[u][c] = CardOf(products[<<request[u].stock, c>>])
      BY <2>1, <2>3 DEF CommittedCard
    <3> QED BY <1>1, <3>1 DEF CardOf
  <2> QED BY <1>2, <2>2, <2>3 DEF PlanResolves
<1> QED BY <1>3, <1>4

\* Planning an item: a suggestion names a candidate, a creation makes one.
LEMMA PlanMatched ==
  ASSUME ProtocolInv, NEW u \in Uploads, PlanResolves(u), NEW i \in Items,
         NEW kind \in {"add", "create", "suggest"}, NEW product,
         upload[u] = "matching", NextToMatch(u, i),
         kind = "suggest" => product \in Candidates(u), PlanItem(u, i, kind, product)
  PROVE  PlanResolves(u)'
<1>1. /\ UNCHANGED <<products, request, upload, document, snapshot>>
      /\ plan'[u][i] = [kind |-> kind, suggestedProduct |-> product]
      /\ \A j \in Items \ {i} : plan'[u][j] = plan[u][j]
      /\ plan[u][i].kind = "none"
  BY DEF PlanItem, storeVars, NextToMatch, ProtocolInv, TypeOK, UploadTypeOK
<1>2. ItemsOf(u)' = ItemsOf(u) /\ ItemsOf(u) \subseteq Items
  BY <1>1, ItemTyped DEF ItemsOf, ProtocolInv
<1>3. Created(u) \subseteq Created(u)'
  BY <1>1, <1>2 DEF Created
<1>4. Candidates(u) \subseteq Candidates(u)'
  BY <1>1, <1>3 DEF Candidates
<1>5. ASSUME NEW j \in Suggested(u)'
      PROVE  plan'[u][j].suggestedProduct \in Candidates(u)'
  <2>1. j \in ItemsOf(u) /\ j \in Items /\ plan'[u][j].kind = "suggest"
    BY <1>2, <1>5 DEF Suggested
  <2>2. CASE j = i
    <3>1. plan'[u][j].kind = kind /\ plan'[u][j].suggestedProduct = product
      BY <1>1, <2>2
    <3> QED BY <1>4, <2>1, <3>1
  <2>3. CASE j # i
    BY <1>1, <1>4, <2>1, <2>3 DEF PlanResolves, Suggested
  <2> QED BY <2>2, <2>3
<1> QED BY <1>1, <1>5 DEF PlanResolves

\* Every plan keeps resolving.
LEMMA PlansStep ==
  ASSUME ProtocolInv, StockInv, PlansResolve, [Next]_vars
  PROVE  PlansResolve'
<1>1. ASSUME NEW u \in Uploads, UploadStep(u), NEW v \in Uploads
      PROVE  PlanResolves(v)'
  <2>0. PlanResolves(v) /\ PlanResolves(u) /\ request' = request
    BY <1>1, UploadChange DEF PlansResolve
  <2>1. CASE v # u
    BY <1>1, <2>0, <2>1, PlanKept, UploadChange
  <2>2. CASE v = u
    <3>1. CASE Extract(u) \/ ReadCatalog(u)
      BY <2>0, <2>2, <3>1, PlanRead
    <3>2. CASE \E i \in Items, kind \in {"add", "create", "suggest"} : \E product :
                 /\ upload[u] = "matching" /\ NextToMatch(u, i)
                 /\ kind = "suggest" => product \in Candidates(u)
                 /\ PlanItem(u, i, kind, product)
      BY <2>0, <2>2, <3>2, PlanMatched
    <3>3. CASE Authorize(u) \/ CommitInvoice(u) \/ AuditOperations(u)
      <4>1. /\ upload'[u] \in {"received", "extracting", "reading"} =>
                 upload[u] \in {"received", "extracting", "reading"}
            /\ UNCHANGED <<document, plan, snapshot>>
        BY <3>3 DEF Authorize, CommitInvoice, AuditOperations, Moves, ProtocolInv, TypeOK, UploadTypeOK
      <4> QED BY <2>0, <2>2, <4>1, PlanKept
    <3>4. CASE /\ \/ upload'[u] \in {"failed", upload[u]}
                  \/ upload[u] = "matching" /\ upload'[u] = "persisting"
               /\ UNCHANGED <<processed, products, suggestions, audited, document, plan, snapshot>>
      BY <2>0, <2>2, <3>4, PlanKept
    <3> QED BY <1>1, <3>1, <3>2, <3>3, <3>4, UploadChange
  <2> QED BY <2>1, <2>2
<1>2. ASSUME UNCHANGED uploadVars \/ Crash \/ Finished \/ UNCHANGED vars, NEW v \in Uploads
      PROVE  PlanResolves(v)'
  <2>1. /\ upload'[v] \in {"received", "extracting", "reading"} =>
             upload[v] \in {"received", "extracting", "reading"}
        /\ UNCHANGED <<request, document, plan, snapshot>>
    BY <1>2 DEF uploadVars, Crash, Finished, vars
  <2> QED BY <2>1, PlanKept DEF PlansResolve
<1> QED BY <1>1, <1>2 DEF Next, PlansResolve

\* Only acceptable readings go on.
LEMMA AcceptedStep ==
  ASSUME ProtocolInv, AcceptedOnly, [Next]_vars
  PROVE  AcceptedOnly'
<1> DEFINE Ahead == {"reading", "matching", "persisting"}
<1>1. ASSUME NEW u \in Uploads, UploadStep(u), NEW v \in Uploads, upload'[v] \in Ahead
      PROVE  Acceptable(document'[v])
  <2>1. CASE v # u
    BY <1>1, <2>1, UploadChange DEF AcceptedOnly
  <2>2. CASE v = u
    <3>1. CASE Extract(u)
      BY <1>1, <2>2, <3>1, ExtractUnrecorded
    <3>2. CASE ReadCatalog(u) \/ Authorize(u) \/ CommitInvoice(u) \/ AuditOperations(u)
      BY <1>1, <2>2, <3>2
      DEF AcceptedOnly, ReadCatalog, Authorize, CommitInvoice, AuditOperations, Moves,
          ProtocolInv, TypeOK, UploadTypeOK
    <3>3. CASE UNCHANGED document /\ (upload'[u] \in {"failed", upload[u]}
                                       \/ (upload[u] = "matching" /\ upload'[u] = "persisting"))
      BY <1>1, <2>2, <3>3 DEF AcceptedOnly
    <3> QED BY <1>1, <3>1, <3>2, <3>3, UploadChange DEF PlanItem
  <2> QED BY <2>1, <2>2
<1>2. ASSUME UNCHANGED uploadVars \/ Crash \/ Finished \/ UNCHANGED vars,
             NEW v \in Uploads, upload'[v] \in Ahead
      PROVE  Acceptable(document'[v])
  BY <1>2 DEF AcceptedOnly, uploadVars, Crash, Finished, vars
<1>3. ASSUME NEW v \in Uploads, upload'[v] \in Ahead
      PROVE  Acceptable(document'[v])
  BY <1>1, <1>2, <1>3 DEF Next
<1> QED BY <1>3 DEF AcceptedOnly, Acceptable

\* An upload past its authorization has access to its stock.
LEMMA AuthorizedUploadsStep ==
  ASSUME ProtocolInv, AuthorizedUploads, [Next]_vars
  PROVE  AuthorizedUploads'
<1> DEFINE Begun(v) == upload[v] \notin {"received", "failed"} \/ Recorded(v)
           Granted2(v) == <<request[v].user, request[v].stock>> \in Access
<1>1. ASSUME NEW u \in Uploads, UploadStep(u), NEW v \in Uploads, Begun(v)'
      PROVE  Begun(v) \/ Granted2(v)
  <2>1. CASE v # u
    <3>1. upload'[v] = upload[v] /\ document'[v] = document[v]
      BY <1>1, <2>1, UploadChange
    <3>2. Recorded(v)' => Recorded(v)
      <4>1. CASE CommitInvoice(u)
        BY <2>1, <4>1, CommitRecords
      <4>2. CASE UNCHANGED processed
        BY <3>1, <4>2 DEF Recorded
      <4> QED BY <1>1, <4>1, <4>2, UploadChange
              DEF Authorize, Extract, ReadCatalog, AuditOperations, PlanItem, storeVars
    <3> QED BY <1>1, <3>1, <3>2
  <2>2. CASE v = u
    <3>1. CASE upload[u] \notin {"received", "failed"}
      BY <2>2, <3>1
    <3>2. CASE upload[u] \in {"received", "failed"}
      <4>1. CASE Authorize(u)
        BY <2>2, <4>1 DEF Authorize
      <4>2. CASE upload'[u] \in {"failed", upload[u]} /\ UNCHANGED <<processed, document>>
        BY <1>1, <2>2, <3>2, <4>2 DEF Recorded
      <4>3. ~Extract(u) /\ ~ReadCatalog(u) /\ ~CommitInvoice(u) /\ ~AuditOperations(u)
        BY <3>2 DEF Extract, ReadCatalog, CommitInvoice, AuditOperations, Moves
      <4> QED BY <1>1, <3>2, <4>1, <4>2, <4>3, UploadChange
    <3> QED BY <3>1, <3>2
  <2> QED BY <2>1, <2>2
<1>2. ASSUME UNCHANGED <<uploadVars, processed>> \/ Crash, NEW v \in Uploads, Begun(v)'
      PROVE  Begun(v)
  BY <1>2 DEF uploadVars, Crash, Recorded
<1>3. ASSUME NEW v \in Uploads, Begun(v)' PROVE Begun(v) \/ Granted2(v)
  <2>1. ASSUME NEW d \in Decisions, DecisionStep(d), UNCHANGED uploadVars
        PROVE  UNCHANGED <<uploadVars, processed>>
    BY <2>1, DecisionChange DEF CommitDecision, AuditDecision, storeVars
  <2>2. ASSUME NEW d, NEW user, NEW line, NEW verdict, Decide(d, user, line, verdict),
               UNCHANGED uploadVars
        PROVE  UNCHANGED <<uploadVars, processed>>
    BY <2>2 DEF Decide, storeVars
  <2>3. Finished \/ UNCHANGED vars => UNCHANGED <<uploadVars, processed>>
    BY DEF Finished, vars, storeVars
  <2> QED BY <1>1, <1>2, <1>3, <2>1, <2>2, <2>3 DEF Next
<1>4. ASSUME NEW v \in Uploads, Begun(v)' PROVE Granted2(v)
  BY <1>3, <1>4 DEF AuthorizedUploads
<1>5. request' = request
  <2>1. ASSUME NEW u \in Uploads, UploadStep(u) PROVE request' = request
    BY <2>1, UploadChange
  <2> QED BY <2>1 DEF Next, Crash, Finished, vars, uploadVars
<1> QED BY <1>4, <1>5 DEF AuthorizedUploads

\* Who decides has access to the stock of what is decided.
LEMMA AuthorizedDecisionsStep ==
  ASSUME ProtocolInv, StockInv, AuthorizedDecisions, [Next]_vars
  PROVE  AuthorizedDecisions'
<1>1. ASSUME NEW d \in Decisions, decision[d].state # "idle",
             decision'[d].line = decision[d].line, decision'[d].user = decision[d].user
      PROVE  <<decision'[d].user, SuggestionOf(d)'.stock>> \in Access
  <2>1. decision[d].line \in Lines /\ suggestions[decision[d].line] # Absent
    BY <1>1 DEF ProtocolInv, DecisionsNamed
  <2>2. SuggestionOf(d)'.stock = SuggestionOf(d).stock
    BY <1>1, <2>1, SuggestionsStay DEF SuggestionOf
  <2> QED BY <1>1, <2>2 DEF AuthorizedDecisions
<1>2. \A d \in Decisions : decision'[d].state # "idle" =>
        <<decision'[d].user, SuggestionOf(d)'.stock>> \in Access
  <2>1. ASSUME NEW e \in Decisions, DecisionStep(e), NEW d \in Decisions, decision'[d].state # "idle"
        PROVE  /\ decision[d].state # "idle"
               /\ decision'[d].line = decision[d].line /\ decision'[d].user = decision[d].user
    BY <2>1, DecisionChange
  <2>2. ASSUME NEW e \in Decisions, NEW user \in Users, NEW line \in Lines, NEW verdict \in Verdicts,
               Decide(e, user, line, verdict), NEW d \in Decisions, decision'[d].state # "idle"
        PROVE  <<decision'[d].user, SuggestionOf(d)'.stock>> \in Access
    <3>1. CASE d = e
      <4>1. decision'[d].user = user /\ decision'[d].line = line
        BY <2>2, <3>1 DEF Decide, ProtocolInv, TypeOK, DecisionTypeOK
      <4>2. SuggestionOf(d)' = suggestions[line]
        BY <2>2, <4>1 DEF Decide, SuggestionOf, storeVars
      <4> QED BY <2>2, <4>1, <4>2 DEF Decide
    <3>2. CASE d # e
      <4>1. decision'[d] = decision[d]
        BY <2>2, <3>2 DEF Decide, ProtocolInv, TypeOK, DecisionTypeOK
      <4> QED BY <1>1, <2>2, <4>1
    <3> QED BY <3>1, <3>2
  <2>3. ASSUME Crash, NEW d \in Decisions, decision'[d].state # "idle"
        PROVE  /\ decision[d].state # "idle"
               /\ decision'[d].line = decision[d].line /\ decision'[d].user = decision[d].user
    BY <2>3 DEF Crash, RunningDecision, ProtocolInv, TypeOK, DecisionTypeOK, Decision
  <2>4. ASSUME UNCHANGED decision \/ Finished \/ UNCHANGED vars,
               NEW d \in Decisions, decision'[d].state # "idle"
        PROVE  /\ decision[d].state # "idle"
               /\ decision'[d].line = decision[d].line /\ decision'[d].user = decision[d].user
    BY <2>4 DEF Finished, vars
  <2> QED BY <1>1, <2>1, <2>2, <2>3, <2>4 DEF Next
<1>3. ASSUME NEW l \in Lines, Decided(l)'
      PROVE  <<suggestions'[l].decidedBy, suggestions'[l].stock>> \in Access
  <2>1. CASE Decided(l)
    BY <2>1, StepKeepsDecisions DEF AuthorizedDecisions
  <2>2. CASE ~Decided(l)
    <3>1. ASSUME NEW u \in Uploads, CommitInvoice(u) PROVE FALSE
      <4>1. suggestions'[l] # suggestions[l] => suggestions'[l] = NewSuggestion(u, l[2])
        BY <3>1 DEF CommitInvoice
      <4> QED BY <1>3, <2>2, <4>1 DEF Decided, NewSuggestion
    <3>2. ~UNCHANGED <<processed, products, suggestions>>
      BY <1>3, <2>2 DEF Decided
    <3>3. PICK d \in Decisions : CommitDecision(d)
      BY <3>1, <3>2, OnlyCommits
    <3>4. l = decision[d].line
      BY <1>3, <2>2, <3>3, DecisionCommits DEF Decided
    <3>5. /\ suggestions'[l] =
               [SuggestionOf(d) EXCEPT !.status = decision[d].verdict, !.decidedBy = decision[d].user]
          /\ SuggestionOf(d) \in Suggestion
      BY <3>3, <3>4, DecisionCommits
    <3>6. /\ suggestions'[l].decidedBy = decision[d].user
          /\ suggestions'[l].stock = SuggestionOf(d).stock
      BY <3>5 DEF Suggestion
    <3>7. decision[d].state # "idle"
      BY <3>3, DecisionCommits
    <3> QED BY <3>6, <3>7 DEF AuthorizedDecisions
  <2> QED BY <2>1, <2>2
<1> QED BY <1>2, <1>3 DEF AuthorizedDecisions

\* The audit log runs behind what is settled, never ahead of it.
LEMMA AuditedStep ==
  ASSUME ProtocolInv, StockInv, AuditedSettled, [Next]_vars
  PROVE  AuditedSettled'
<1> DEFINE AuditedLater == \A l \in audited' : l \in audited \/ Settled(l)
           AuditingLater == \A d \in Decisions : decision'[d].state = "auditing" =>
             \/ decision[d].state = "auditing" /\ decision'[d].line = decision[d].line
             \/ Decided(decision[d].line)'
<1>1. ASSUME NEW u \in Uploads, UploadStep(u) PROVE AuditedLater
  <2>1. CASE AuditOperations(u)
    <3>1. Recorded(u)
      BY <2>1 DEF AuditOperations, Moves, ProtocolInv, UploadPhases
    <3>2. PICK logged \in SUBSET Operations(u) : audited' = audited \cup {<<u, i>> : i \in logged}
      BY <2>1 DEF AuditOperations
    <3>3. \A i \in logged : Settled(<<u, i>>)
      BY <3>1 DEF Settled, Operations
    <3> QED BY <3>2, <3>3
  <2>2. CASE UNCHANGED audited
    BY <2>2
  <2> QED BY <1>1, <2>1, <2>2, UploadChange DEF Authorize, Extract, ReadCatalog, CommitInvoice, PlanItem
<1>2. ASSUME NEW d \in Decisions, DecisionStep(d) PROVE AuditedLater /\ AuditingLater
  <2>1. AuditedLater
    <3>1. CASE AuditDecision(d)
      <4>1. decision[d].state = "auditing" /\ decision[d].line \in Lines
        BY <3>1 DEF AuditDecision, DecisionMoves, ProtocolInv, DecisionsNamed
      <4>2. PICK u \in Uploads, i \in Items : decision[d].line = <<u, i>>
        BY <4>1 DEF Lines
      <4>3. Decided(<<u, i>>)
        BY <4>1, <4>2 DEF AuditedSettled
      <4>4. Settled(<<u, i>>)
        BY <4>3, LineOfSuggestion DEF Settled, Decided
      <4> QED BY <3>1, <4>2, <4>4 DEF AuditDecision
    <3>2. CASE UNCHANGED audited
      BY <3>2
    <3> QED BY <1>2, <3>1, <3>2, DecisionChange DEF CommitDecision
  <2>2. AuditingLater
    <3>1. CASE CommitDecision(d)
      <4>1. Decided(decision[d].line)'
        <5>1. /\ suggestions'[decision[d].line] =
                  [SuggestionOf(d) EXCEPT !.status = decision[d].verdict, !.decidedBy = decision[d].user]
              /\ SuggestionOf(d) \in Suggestion /\ decision[d].verdict \in Verdicts
          BY <3>1, DecisionCommits
        <5>2. decision[d].line \in Lines /\ suggestions[decision[d].line] # Absent
          BY <3>1, DecisionCommits DEF ProtocolInv, DecisionsNamed
        <5>3. suggestions'[decision[d].line] # Absent
          BY <5>2, SuggestionsStay
        <5>4. suggestions'[decision[d].line].status = decision[d].verdict
          BY <5>1 DEF Suggestion
        <5>5. suggestions'[decision[d].line].status # "PENDING"
          BY <5>1, <5>4 DEF Verdicts
        <5> QED BY <3>1, <5>3, <5>5, DecisionChange, <1>2 DEF Decided
      <4> QED BY <1>2, <4>1, DecisionChange DEF Decided
    <3>2. CASE decision'[d].state # "auditing"
      BY <1>2, <3>2, DecisionChange
    <3>3. CASE AuditDecision(d) /\ decision'[d].state = "done"
      BY <1>2, <3>3, DecisionChange
    <3> QED BY <1>2, <3>1, <3>2, <3>3, DecisionChange
  <2> QED BY <2>1, <2>2
<1>3. ASSUME NEW e \in Decisions, NEW user, NEW line, NEW verdict, Decide(e, user, line, verdict)
      PROVE  AuditedLater /\ AuditingLater
  BY <1>3 DEF Decide, ProtocolInv, TypeOK, DecisionTypeOK
<1>4. Crash => AuditedLater /\ AuditingLater
  BY DEF Crash, RunningDecision, ProtocolInv, TypeOK, DecisionTypeOK, Decision
<1>5. Finished \/ UNCHANGED vars => AuditedLater /\ AuditingLater
  BY DEF Finished, vars
<1>6. UNCHANGED decision => AuditingLater
  OBVIOUS
<1>7. AuditedLater /\ AuditingLater
  BY <1>1, <1>2, <1>3, <1>4, <1>5, <1>6 DEF Next
<1>8. \A l \in audited' : Settled(l)'
  <2>1. audited \subseteq Lines /\ audited' \subseteq Lines
    <3>1. TypeOK'
      BY ProtocolStep DEF ProtocolInv
    <3> QED BY <3>1 DEF ProtocolInv, TypeOK, StoreTypeOK
  <2> QED BY <1>7, <2>1, SettledKept DEF AuditedSettled
<1>9. \A d \in Decisions : decision'[d].state = "auditing" => Decided(decision[d].line)'
  <2> SUFFICES ASSUME NEW d \in Decisions, decision'[d].state = "auditing",
                      decision[d].state = "auditing", decision'[d].line = decision[d].line
               PROVE  Decided(decision[d].line)'
    BY <1>7
  <2>1. Decided(decision[d].line) /\ decision[d].line \in Lines
    BY DEF AuditedSettled, ProtocolInv, DecisionsNamed
  <2>2. suggestions'[decision[d].line] = suggestions[decision[d].line]
    BY <2>1, StepKeepsDecisions
  <2> QED BY <2>1, <2>2 DEF Decided
<1> QED BY <1>8, <1>9 DEF AuditedSettled

\* What requests know and may do holds in the initial states.
LEMMA RequestsInit == Init => RequestsInv
<1> SUFFICES ASSUME Init PROVE RequestsInv
  OBVIOUS
<1>1. /\ \A u \in Uploads : /\ upload[u] = "received" /\ document[u] = Absent /\ ~Recorded(u)
                            /\ plan[u] = NoPlan /\ \A c \in Codes : snapshot[u][c] = Absent
      /\ \A l \in Lines : suggestions[l] = Absent
      /\ \A d \in Decisions : decision[d].state = "idle"
      /\ audited = {}
  BY DEF Init, UploadInit, StoreInit, DecisionInit, Recorded
<1>2. PlansResolve
  BY <1>1 DEF PlansResolve, PlanResolves, Suggested, ItemsOf
<1>3. SuggestionsResolve
  BY <1>1 DEF SuggestionsResolve
<1>4. AcceptedOnly /\ AuthorizedUploads
  BY <1>1 DEF AcceptedOnly, AuthorizedUploads
<1>5. AuthorizedDecisions
  BY <1>1 DEF AuthorizedDecisions, Decided
<1>6. AuditedSettled
  BY <1>1 DEF AuditedSettled
<1> QED BY <1>2, <1>3, <1>4, <1>5, <1>6 DEF RequestsInv

\* The whole invariant is kept by every step.
LEMMA ReceivingStep ==
  ASSUME ReceivingInv, [Next]_vars
  PROVE  ReceivingInv'
<1>1. ProtocolInv' /\ StockInv'
  BY ProtocolStep, StockStep DEF ReceivingInv
<1>2. PlansResolve' /\ SuggestionsResolve' /\ AcceptedOnly'
  BY PlansStep, ResolveStep, AcceptedStep DEF ReceivingInv, RequestsInv
<1>3. AuthorizedUploads' /\ AuthorizedDecisions' /\ AuditedSettled'
  BY AuthorizedUploadsStep, AuthorizedDecisionsStep, AuditedStep DEF ReceivingInv, RequestsInv
<1> QED BY <1>1, <1>2, <1>3 DEF ReceivingInv, RequestsInv

\* The inductive invariant of receiving goods holds in every reachable state.
THEOREM ReceivingInvariantHolds == Spec => []ReceivingInv
<1>1. Init => ReceivingInv
  BY ProtocolInit, StockInit, RequestsInit DEF ReceivingInv
<1>2. ReceivingInv /\ [Next]_vars => ReceivingInv'
  BY ReceivingStep
<1> QED BY <1>1, <1>2, PTL DEF Spec

\* What a suggestion proposes is always a product of its own stock, also when
\* the product was new in the same invoice and another upload came first.
THEOREM SuggestionsResolved == Spec => []SuggestionsResolve
<1>1. ReceivingInv => SuggestionsResolve
  BY DEF ReceivingInv, RequestsInv
<1> QED BY <1>1, ReceivingInvariantHolds, PTL

\* A settled line is in exactly one row: its own, or that of the product it was
\* confirmed into; a line that is not settled is in none.
LEMMA SettledRow ==
  ASSUME ProtocolInv, StockInv, SuggestionsResolve, NEW u \in Uploads, NEW i \in Items
  PROVE  /\ Settled(<<u, i>>) => \E r \in Rows :
              Enters(u, i, r) /\ r[1] = request[u].stock /\ \A q \in Rows \ {r} : ~Enters(u, i, q)
         /\ ~Settled(<<u, i>>) => \A r \in Rows : ~Enters(u, i, r)
<1> DEFINE l == <<u, i>>
<1>1. l \in Lines /\ l[1] = u /\ l[2] = i
  BY DEF Lines
<1>2. ~Settled(l) => \A r \in Rows : ~Enters(u, i, r)
  BY <1>1 DEF Settled, Enters, Decided
<1>3. ASSUME Settled(l)
      PROVE  \E r \in Rows :
               Enters(u, i, r) /\ r[1] = request[u].stock /\ \A q \in Rows \ {r} : ~Enters(u, i, q)
  <2>1. Recorded(u) /\ i \in ItemsOf(u) /\ (IsOperation(u, i) \/ Decided(l))
    BY <1>1, <1>3 DEF Settled
  <2>2. RowOf(u, i) \in Rows /\ RowOf(u, i)[1] = request[u].stock
    BY <2>1, ItemTyped DEF ProtocolInv, RowOf
  <2>3. CASE IsOperation(u, i)
    <3>1. suggestions[l] = Absent
      BY <2>3, LineOfSuggestion
    <3> QED BY <2>1, <2>2, <2>3, <3>1 DEF Enters
  <2>4. CASE ~IsOperation(u, i)
    <3>1. /\ suggestions[l] # Absent /\ suggestions[l] \in Suggestion
          /\ suggestions[l].status \in {"CONFIRMED", "REJECTED"}
          /\ suggestions[l].stock = request[u].stock
      BY <1>1, <2>1, <2>4
      DEF Decided, ProtocolInv, TypeOK, StoreTypeOK, Suggestion, SuggestionsMatchLines, StockInv, CommittedInv
    <3>2. CASE suggestions[l].status = "REJECTED"
      BY <2>1, <2>2, <2>4, <3>1, <3>2 DEF Enters
    <3>3. CASE suggestions[l].status = "CONFIRMED"
      <4>1. PICK c \in Codes :
              /\ products[<<request[u].stock, c>>] # Absent
              /\ products[<<request[u].stock, c>>].id = suggestions[l].suggestedProduct
        BY <1>1, <3>1 DEF SuggestionsResolve
      <4> DEFINE r == <<request[u].stock, c>>
      <4>2. r \in Rows /\ r[1] = request[u].stock
        BY <3>1 DEF Rows, Suggestion
      <4>3. Enters(u, i, r)
        BY <2>1, <3>1, <3>3, <4>1 DEF Enters
      <4>4. ASSUME NEW q \in Rows, Enters(u, i, q) PROVE q = r
        <5>1. products[q] # Absent /\ products[q].id = products[r].id
          BY <2>4, <3>3, <4>1, <4>4 DEF Enters
        <5> QED BY <4>1, <4>2, <5>1, IdUnique DEF StockInv, CommittedInv
      <4> QED BY <4>2, <4>3, <4>4
    <3> QED BY <3>1, <3>2, <3>3
  <2> QED BY <2>3, <2>4
<1> QED BY <1>2, <1>3

\* Stocks are isolated: what is in a stock was sent to it by uploads of users
\* with access, and decided by users with access.
THEOREM StocksStayIsolated == Spec => []StocksIsolated
<1>1. ReceivingInv => StocksIsolated
  <2> SUFFICES ASSUME ReceivingInv PROVE StocksIsolated
    OBVIOUS
  <2>1. ASSUME NEW u \in Uploads, NEW i \in Items, NEW r \in Rows,
               products[r] # Absent, products[r].entered[<<u, i>>] > 0
        PROVE  r[1] = request[u].stock /\ <<request[u].user, r[1]>> \in Access
    <3>1. Enters(u, i, r)
      BY <2>1 DEF ReceivingInv, StockInv, CommittedInv, EachLineOnce
    <3>2. r[1] = request[u].stock
      BY <3>1, SettledRow DEF ReceivingInv, RequestsInv
    <3> QED BY <3>1, <3>2 DEF Enters, ReceivingInv, RequestsInv, AuthorizedUploads
  <2> QED BY <2>1 DEF StocksIsolated, ReceivingInv, RequestsInv, AuthorizedDecisions
<1> QED BY <1>1, ReceivingInvariantHolds, PTL

\* The audit log never reports an entry the stock does not contain.
THEOREM AuditFollowsStock == Spec => []AuditedLinesEntered
<1>1. ReceivingInv => AuditedLinesEntered
  <2> SUFFICES ASSUME ReceivingInv, NEW l \in audited
               PROVE  \E r \in Rows : products[r] # Absent /\ products[r].entered[l] > 0
    BY DEF AuditedLinesEntered
  <2>1. PICK u \in Uploads, i \in Items : l = <<u, i>>
    BY DEF ReceivingInv, ProtocolInv, TypeOK, StoreTypeOK, Lines
  <2>2. Settled(<<u, i>>)
    BY <2>1 DEF ReceivingInv, RequestsInv, AuditedSettled
  <2>3. PICK r \in Rows : Enters(u, i, r)
    BY <2>2, SettledRow DEF ReceivingInv, RequestsInv
  <2>4. products[r] # Absent /\ products[r].entered[<<u, i>>] = 1
    BY <2>3 DEF ReceivingInv, StockInv, CommittedInv, EachLineOnce
  <2> QED BY <2>1, <2>4
<1> QED BY <1>1, ReceivingInvariantHolds, PTL

-----------------------------------------------------------------------------
(* Receiving goods implements its contract.                                *)

\* Waiting for a decision.
Pending(l) == suggestions[l] # Absent /\ suggestions[l].status = "PENDING"

\* Where a line is, said without looking at the rows of the stock.
StagesKnown ==
  \A l \in Lines :
    Stage(l) = IF Pending(l) THEN "pending" ELSE IF Settled(l) THEN "in" ELSE "out"

\* A line is in one product, once, when it is settled, and in none otherwise.
LEMMA SettledEntered ==
  ASSUME ReceivingInv, NEW l \in Lines
  PROVE  EnteredOnce(l) <=> Settled(l)
<1>1. PICK u \in Uploads, i \in Items : l = <<u, i>>
  BY DEF Lines
<1>2. ProtocolInv /\ StockInv /\ SuggestionsResolve /\ EachLineOnce
  BY DEF ReceivingInv, RequestsInv, StockInv, CommittedInv
<1>3. CASE Settled(l)
  <2>1. PICK r \in Rows : Enters(u, i, r) /\ \A q \in Rows \ {r} : ~Enters(u, i, q)
    BY <1>1, <1>2, <1>3, SettledRow
  <2>2. products[r] # Absent /\ products[r].entered[<<u, i>>] = 1
    BY <1>2, <2>1 DEF EachLineOnce
  <2>3. \A q \in Rows \ {r} : products[q] # Absent => products[q].entered[<<u, i>>] = 0
    BY <1>2, <2>1 DEF EachLineOnce
  <2> QED BY <1>1, <1>3, <2>2, <2>3 DEF EnteredOnce
<1>4. CASE ~Settled(l)
  <2>1. \A r \in Rows : ~Enters(u, i, r)
    BY <1>1, <1>2, <1>4, SettledRow
  <2>2. \A r \in Rows : products[r] # Absent => products[r].entered[<<u, i>>] = 0
    BY <1>2, <2>1 DEF EachLineOnce
  <2> QED BY <1>1, <1>4, <2>2 DEF EnteredOnce
<1> QED BY <1>3, <1>4

\* So the stage of a line is known without looking at the rows of the stock.
LEMMA StagesHold == ReceivingInv => StagesKnown
BY SettledEntered DEF StagesKnown, Stage, Pending

\* The receipt of a key is that of its upload, which keeps its invoice.
LEMMA ReceiptKept ==
  ASSUME ProtocolInv, [Next]_vars, NEW k \in AccessKeys, processed'[k] = processed[k]
  PROVE  Receipt(k)' = Receipt(k)
<1>1. CASE processed[k] = Absent
  BY <1>1 DEF Receipt
<1>2. CASE processed[k] # Absent
  <2>1. processed[k] \in Uploads
    BY <1>2 DEF ProtocolInv, TypeOK, StoreTypeOK
  <2>2. Recorded(processed[k])
    BY <1>2 DEF ProtocolInv, KeysOwned, Recorded, KeyOf
  <2>3. document'[processed[k]] = document[processed[k]]
    BY <2>1, <2>2, RecordedKept
  <2> QED BY <1>2, <2>3 DEF Receipt
<1> QED BY <1>1, <1>2

\* No line is settled by a step that commits nothing.
LEMMA SettledSame ==
  ASSUME ProtocolInv, [Next]_vars, UNCHANGED <<processed, suggestions>>,
         TypeOK', NEW l \in Lines
  PROVE  Settled(l)' <=> Settled(l)
<1>1. PICK u \in Uploads, i \in Items : l = <<u, i>>
  BY DEF Lines
<1>2. ASSUME Recorded(u)' PROVE Recorded(u)
  <2>1. document'[u] # Absent /\ processed[document'[u].accessKey] = u
    BY <1>2 DEF Recorded
  <2>2. document'[u].accessKey \in AccessKeys /\ u # Absent
    BY <2>1, DocumentAssumption, AbsentAssumption DEF TypeOK, UploadTypeOK
  <2> QED BY <2>1, <2>2 DEF ProtocolInv, KeysOwned, Recorded, KeyOf
<1>3. CASE Recorded(u)
  <2>1. Recorded(u)' /\ document'[u] = document[u] /\ plan'[u] = plan[u]
    BY <1>3, RecordedKept
  <2> QED BY <1>1, <1>3, <2>1 DEF Settled, ItemsOf, IsOperation, Decided
<1>4. CASE ~Recorded(u)
  BY <1>1, <1>2, <1>4 DEF Settled
<1> QED BY <1>3, <1>4

\* The variables of the contract.
receipts == [k \in AccessKeys |-> Receipt(k)]
stages   == [l \in Lines |-> Stage(l)]

\* A step that commits nothing is a stutter of the contract.
LEMMA ContractQuiet ==
  ASSUME ProtocolInv, TypeOK', StagesKnown, StagesKnown', [Next]_vars,
         UNCHANGED <<processed, suggestions>>
  PROVE  UNCHANGED <<receipts, stages>>
<1>1. \A k \in AccessKeys : Receipt(k)' = Receipt(k)
  BY ReceiptKept
<1>2. ASSUME NEW l \in Lines PROVE Stage(l)' = Stage(l)
  <2>1. Settled(l)' <=> Settled(l)
    BY SettledSame
  <2>2. Pending(l)' <=> Pending(l)
    BY DEF Pending
  <2> QED BY <2>1, <2>2 DEF StagesKnown
<1> QED BY <1>1, <1>2 DEF receipts, stages

\* Committing an invoice takes its key and settles or leaves pending its lines.
LEMMA ContractReceive ==
  ASSUME ReceivingInv, TypeOK', StagesKnown, StagesKnown', [Next]_vars,
         NEW u \in Uploads, CommitInvoice(u)
  PROVE  \E k \in AccessKeys : Contract!Receive(k, u)
<1> DEFINE items == Len(document[u].items)
<1>1. /\ ~Recorded(u) /\ FullyMatched(u) /\ upload[u] = "persisting"
      /\ document[u] # Absent /\ processed[KeyOf(u)] = Absent
      /\ processed'[KeyOf(u)] = u
      /\ \A k \in AccessKeys : k # KeyOf(u) => processed'[k] = processed[k]
      /\ Recorded(u)'
      /\ \A v \in Uploads \ {u} : Recorded(v)' <=> Recorded(v)
  BY CommitRecords DEF ReceivingInv
<1>2. ProtocolInv /\ UNCHANGED <<document, plan>>
  BY DEF CommitInvoice, ReceivingInv
<1>3. document[u] \in Documents /\ document[u].items # <<>>
  BY <1>1, <1>2 DEF ReceivingInv, RequestsInv, AcceptedOnly, Acceptable, ProtocolInv, TypeOK,
                    UploadTypeOK
<1>4. /\ KeyOf(u) \in AccessKeys /\ u # Absent
      /\ items \in 1 .. MaxItems /\ ItemsOf(u) = 1 .. items
  BY <1>1, <1>3, DocumentAssumption, StoreAssumption, AbsentAssumption DEF KeyOf, ItemsOf
<1> PICK key \in AccessKeys : key = KeyOf(u)
  BY <1>4
<1>5. Receipt(key).by = Absent
  BY <1>1 DEF Receipt
<1>6. Receipt(key)' = [by |-> u, items |-> items]
  BY <1>1, <1>2, <1>4 DEF Receipt, KeyOf
<1>7. \A k \in AccessKeys : k # key => Receipt(k)' = Receipt(k)
  BY <1>1, <1>2, ReceiptKept
<1>8. \A i \in Items : suggestions[<<u, i>>] = Absent
  BY <1>1, <1>2, LineOfSuggestion
<1>9. ASSUME NEW l \in Lines, l[1] = u PROVE Stage(l) = "out"
  BY <1>1, <1>8, <1>9 DEF StagesKnown, Pending, Settled, Lines
<1>10. ASSUME NEW l \in Lines, l[1] # u PROVE Stage(l)' = Stage(l)
  <2>1. suggestions'[l] = suggestions[l]
    BY <1>10 DEF CommitInvoice
  <2>2. Settled(l)' <=> Settled(l)
    BY <1>1, <1>2, <1>10, <2>1 DEF Settled, ItemsOf, IsOperation, Decided, Lines
  <2> QED BY <2>1, <2>2 DEF StagesKnown, Pending
<1>11. ASSUME NEW l \in Lines, l[1] = u
       PROVE  Stage(l)' = IF l[2] > items THEN "out"
                          ELSE IF l[2] \in Suggested(u) THEN "pending" ELSE "in"
  <2>1. l = <<u, l[2]>> /\ l[2] \in Items /\ l[2] \in Nat
    BY <1>11, StoreAssumption DEF Lines, Items
  <2>2. suggestions'[l] = IF l[2] \in Suggested(u) THEN NewSuggestion(u, l[2]) ELSE Absent
    BY <1>8, <1>11, <2>1 DEF CommitInvoice
  <2>3. CASE l[2] \in Suggested(u)
    <3>1. suggestions'[l] # Absent /\ suggestions'[l].status = "PENDING"
      <4>1. suggestions'[l] = NewSuggestion(u, l[2])
        BY <2>2, <2>3
      <4>2. NewSuggestion(u, l[2]) # Absent /\ NewSuggestion(u, l[2]).status = "PENDING"
        BY <1>1, <1>2, <2>1, <2>3, NewSuggestionTyped, AbsentAssumption
        DEF NewSuggestion, ProtocolInv
      <4> QED BY <4>1, <4>2
    <3>2. l[2] \in 1 .. items
      BY <1>4, <2>3 DEF Suggested
    <3> QED BY <2>3, <3>1, <3>2 DEF StagesKnown, Pending
  <2>4. CASE l[2] \notin Suggested(u)
    <3>1. suggestions'[l] = Absent
      BY <2>2, <2>4
    <3>2. Settled(l)' <=> l[2] \in ItemsOf(u)
      <4>1. l[2] \in ItemsOf(u) => IsOperation(u, l[2])
        <5> SUFFICES ASSUME NEW i \in Items, i \in ItemsOf(u), i \notin Suggested(u)
                     PROVE  IsOperation(u, i)
          BY <2>1, <2>4
        <5>1. plan[u][i] \in PlanStep /\ plan[u][i].kind # "none" /\ plan[u][i].kind # "suggest"
          BY <1>1, <1>2 DEF Suggested, FullyMatched, ProtocolInv, TypeOK, UploadTypeOK
        <5> QED BY <5>1 DEF IsOperation, PlanStep
      <4>2. ItemsOf(u)' = ItemsOf(u) /\ (IsOperation(u, l[2])' <=> IsOperation(u, l[2]))
        BY <1>2 DEF ItemsOf, IsOperation
      <4> QED BY <1>1, <1>11, <3>1, <4>1, <4>2 DEF Settled, Decided
    <3>3. l[2] \in ItemsOf(u) <=> ~(l[2] > items)
      BY <1>4, <2>1, StoreAssumption DEF Items
    <3> QED BY <2>4, <3>1, <3>2, <3>3 DEF StagesKnown, Pending
  <2> QED BY <2>3, <2>4
<1>12. Suggested(u) \in SUBSET (1 .. MaxItems)
  BY <1>4, StoreAssumption DEF Suggested
<1> HIDE DEF items
<1>13. receipts' = [receipts EXCEPT ![key] = [by |-> u, items |-> items]]
  BY <1>6, <1>7 DEF receipts
<1>14. stages' = [l \in Lines |->
         IF l[1] # u \/ l[2] > items THEN stages[l]
         ELSE IF l[2] \in Suggested(u) THEN "pending" ELSE "in"]
  BY <1>9, <1>10, <1>11 DEF stages
<1>15. receipts[key].by = Absent /\ \A l \in Lines : l[1] = u => stages[l] = "out"
  BY <1>5, <1>9 DEF receipts, stages
<1>16. \E n \in 1 .. MaxItems, pending \in SUBSET (1 .. MaxItems) :
         /\ receipts' = [receipts EXCEPT ![key] = [by |-> u, items |-> n]]
         /\ stages' = [l \in Lines |->
              IF l[1] # u \/ l[2] > n THEN stages[l]
              ELSE IF l[2] \in pending THEN "pending" ELSE "in"]
  <2> DEFINE pending == Suggested(u)
  <2>1. pending \in SUBSET (1 .. MaxItems) /\ items \in 1 .. MaxItems
    BY <1>4, <1>12
  <2>2. stages' = [l \in Lines |-> IF l[1] # u \/ l[2] > items THEN stages[l]
                                   ELSE IF l[2] \in pending THEN "pending" ELSE "in"]
    BY <1>14
  <2> HIDE DEF pending
  <2> QED BY <1>13, <2>1, <2>2
<1>17. Contract!Receive(key, u)
  BY <1>15, <1>16 DEF Contract!Receive, Contract!Lines, Lines, Items, receipts, stages
<1> QED BY <1>17

\* Committing a decision enters one pending line.
LEMMA ContractEnter ==
  ASSUME ReceivingInv, TypeOK', StagesKnown, StagesKnown', [Next]_vars,
         NEW d \in Decisions, CommitDecision(d), UNCHANGED uploadVars,
         NEW line \in Lines, line = decision[d].line
  PROVE  Contract!Enter(line)
<1>1. /\ ProtocolInv /\ decision[d].state = "committing" /\ decision[d].verdict \in Verdicts
      /\ SuggestionOf(d) \in Suggestion /\ SuggestionOf(d).status = "PENDING"
      /\ suggestions'[line] =
           [SuggestionOf(d) EXCEPT !.status = decision[d].verdict, !.decidedBy = decision[d].user]
      /\ \A l \in Lines : l # line => suggestions'[l] = suggestions[l]
  BY DecisionCommits DEF ReceivingInv
<1>2. line \in Lines /\ suggestions[line] # Absent /\ suggestions[line].status = "PENDING"
  BY <1>1 DEF ProtocolInv, DecisionsNamed, SuggestionOf
<1>3. UNCHANGED <<processed, document, plan>>
  BY DEF CommitDecision, uploadVars
<1>4. Stage(line) = "pending"
  BY <1>2 DEF StagesKnown, Pending
<1>5. Decided(line)' /\ ~Pending(line)'
  <2>1. suggestions'[line] # Absent
    BY <1>2, SuggestionsStay DEF ReceivingInv
  <2>2. suggestions'[line].status = decision[d].verdict
    BY <1>1 DEF Suggestion
  <2>3. decision[d].verdict # "PENDING"
    BY <1>1 DEF Verdicts
  <2> QED BY <2>1, <2>2, <2>3 DEF Decided, Pending
<1>6. Stage(line)' = "in"
  <2>1. PICK u \in Uploads, i \in Items : line = <<u, i>>
    BY <1>2 DEF Lines
  <2>2. Recorded(u) /\ i \in ItemsOf(u)
    BY <1>1, <1>2, <2>1, LineOfSuggestion
  <2>3. Recorded(u)' /\ i \in ItemsOf(u)'
    BY <1>3, <2>2 DEF Recorded, ItemsOf
  <2>4. line[1] = u /\ line[2] = i
    BY <2>1
  <2>5. Settled(line)'
    BY <1>5, <2>3, <2>4 DEF Settled
  <2> QED BY <1>5, <2>5 DEF StagesKnown
<1>7. ASSUME NEW l \in Lines, l # line PROVE Stage(l)' = Stage(l)
  <2>1. suggestions'[l] = suggestions[l]
    BY <1>1, <1>7
  <2>2. Settled(l)' <=> Settled(l)
    BY <1>3, <2>1 DEF Settled, ItemsOf, IsOperation, Decided, Recorded
  <2> QED BY <2>1, <2>2 DEF StagesKnown, Pending
<1>8. receipts' = receipts
  BY <1>1, <1>3, ReceiptKept DEF receipts
<1>9. stages[line] = "pending" /\ stages' = [stages EXCEPT ![line] = "in"]
  BY <1>2, <1>4, <1>6, <1>7 DEF stages
<1> QED BY <1>2, <1>8, <1>9
        DEF Contract!Enter, Contract!Lines, Lines, Items, receipts, stages

\* Nothing has been received at first.
LEMMA ContractStarts ==
  ASSUME Init, StagesKnown
  PROVE  Contract!ContractInit
<1>1. \A k \in AccessKeys : Receipt(k) = [by |-> Absent, items |-> 0]
  BY DEF Init, StoreInit, Receipt
<1>2. \A l \in Lines : ~Pending(l) /\ ~Settled(l)
  BY DEF Init, StoreInit, UploadInit, Pending, Settled, Recorded, Lines
<1>3. \A l \in Lines : Stage(l) = "out"
  BY <1>2 DEF StagesKnown
<1> QED BY <1>1, <1>3 DEF Contract!ContractInit, Contract!Lines, Lines, Items

\* Uploads, decisions, rollbacks and crashes together implement the contract of
\* receiving goods: a key is taken once, with all its lines entered or left
\* pending in that step, and a pending line enters the stock once.
THEOREM ContractImplemented == Spec => ImplementsContract
<1>1. ReceivingInv => StagesKnown /\ TypeOK
  BY StagesHold DEF ReceivingInv, ProtocolInv
<1>2. Init /\ StagesKnown => Contract!ContractInit
  BY ContractStarts
<1>3. ReceivingInv /\ StagesKnown /\ StagesKnown' /\ TypeOK' /\ [Next]_vars
        => [Contract!ContractNext]_Contract!contractVars
  <2> SUFFICES ASSUME ReceivingInv, StagesKnown, StagesKnown', TypeOK', [Next]_vars
               PROVE  [Contract!ContractNext]_Contract!contractVars
    OBVIOUS
  <2>1. CASE UNCHANGED <<processed, products, suggestions>>
    <3>1. UNCHANGED <<receipts, stages>>
      BY <2>1, ContractQuiet DEF ReceivingInv
    <3> QED BY <3>1 DEF Contract!contractVars, receipts, stages
  <2>2. ASSUME NEW u \in Uploads, CommitInvoice(u)
        PROVE  Contract!ContractNext
    <3>1. PICK k \in AccessKeys : Contract!Receive(k, u)
      BY <2>2, ContractReceive
    <3> QED BY <3>1 DEF Contract!ContractNext
  <2>3. ASSUME NEW d \in Decisions, CommitDecision(d), UNCHANGED uploadVars
        PROVE  Contract!ContractNext
    <3>1. PICK line \in Lines : line = decision[d].line
      BY <2>3, DecisionCommits DEF ReceivingInv, ProtocolInv, DecisionsNamed
    <3>2. Contract!Enter(line)
      BY <2>3, <3>1, ContractEnter
    <3> QED BY <3>2 DEF Contract!ContractNext, Contract!Lines, Lines, Items
  <2>4. ProtocolInv
    BY DEF ReceivingInv
  <2> QED BY <2>1, <2>2, <2>3, <2>4, OnlyCommits
<1> QED BY <1>1, <1>2, <1>3, ReceivingInvariantHolds, PTL
        DEF Spec, ImplementsContract, Contract!ContractSpec

=============================================================================
