--------------------------- MODULE InvoiceUpload ----------------------------
(***************************************************************************)
(* ReadInvoiceUseCase.execute and the persistence transaction it ends in.  *)
(* Each upload is a process; every await of the handler is a step, so two  *)
(* uploads, of the same invoice or into the same stock, interleave at      *)
(* every await. An upload that throws goes to "failed"; what the answer    *)
(* says (400, 403, 409, 422, 500, 503) is not kept.                        *)
(*                                                                         *)
(* An operator called X_Faulty... is X with a plausible mistake in it: no   *)
(* definition uses it, the mutation runs put it in X's place.              *)
(***************************************************************************)
EXTENDS StockStore

CONSTANTS
  Requests,   (* What a request may ask: [user, stock].                     *)
  Documents   (* What extractDanfeData may return: [accessKey, supplier,    *)
              (* items, sound]; sound says whether CNPJ, key, numbers and   *)
              (* totals pass the checks of the use case.                    *)

Item == [code : Codes, unit : Units]

ASSUME DocumentAssumption ==
  /\ Requests \subseteq [user : Users, stock : Stocks]
  /\ \A d \in Documents :
       /\ d.accessKey \in AccessKeys
       /\ d.supplier \in Suppliers
       /\ d.items \in Seq(Item)
       /\ Len(d.items) <= MaxItems
       /\ d.sound \in BOOLEAN
  /\ Absent \notin Documents

VARIABLES
  request,   (* The request each upload carries.                           *)
  upload,    (* Where the handler of each upload stands.                   *)
  document,  (* The extracted invoice, once there is one.                  *)
  snapshot,  (* existingStockProducts as it was read, by code.             *)
  plan,      (* operations and suggestionOperations, by item.              *)
  applied    (* Items whose entry the open transaction has executed.       *)

uploadVars == <<request, upload, document, snapshot, plan, applied>>

UploadStates == {"received", "extracting", "reading", "matching",
                 "persisting", "auditing", "done", "failed"}
PlanStep     == [kind : {"none", "add", "create"}, suggestedProduct : {Absent}]
                  \cup [kind : {"suggest"}, suggestedProduct : ProductIds]

UploadTypeOK ==
  /\ request \in [Uploads -> Requests]
  /\ upload \in [Uploads -> UploadStates]
  /\ document \in [Uploads -> Documents \cup {Absent}]
  /\ snapshot \in [Uploads -> [Codes -> Card \cup {Absent}]]
  /\ plan \in [Uploads -> [Items -> PlanStep]]
  /\ applied \in [Uploads -> SUBSET Items]

NoPlan == [i \in Items |-> [kind |-> "none", suggestedProduct |-> Absent]]

UploadInit ==
  /\ request \in [Uploads -> Requests]
  /\ upload = [u \in Uploads |-> "received"]
  /\ document = [u \in Uploads |-> Absent]
  /\ snapshot = [u \in Uploads |-> [c \in Codes |-> Absent]]
  /\ plan = [u \in Uploads |-> NoPlan]
  /\ applied = [u \in Uploads |-> {}]

Moves(u, from, to) == upload[u] = from /\ upload' = [upload EXCEPT ![u] = to]

ItemsOf(u) == IF document[u] = Absent THEN {} ELSE DOMAIN document[u].items
ItemOf(u, i) == document[u].items[i]
RowOf(u, i) == <<request[u].stock, ItemOf(u, i).code>>

-----------------------------------------------------------------------------
(* Before the transaction.                                                 *)

Authorize(u) ==
  /\ <<request[u].user, request[u].stock>> \in Access
  /\ Moves(u, "received", "extracting")
  /\ UNCHANGED <<storeVars, request, document, snapshot, plan, applied, audited>>

DenyUpload(u) ==
  /\ <<request[u].user, request[u].stock>> \notin Access
  /\ Moves(u, "received", "failed")
  /\ UNCHANGED <<storeVars, request, document, snapshot, plan, applied, audited>>

Acceptable(d) == d.sound /\ d.items # <<>>

Extract(u) ==
  /\ \E d \in Documents :
       /\ document' = [document EXCEPT ![u] = d]
       /\ Moves(u, "extracting", IF Acceptable(d) THEN "reading" ELSE "failed")
  /\ UNCHANGED <<storeVars, request, snapshot, plan, applied, audited>>

\* The file cannot be read, or the provider is disabled, times out or refuses.
ExtractionFails(u) ==
  /\ Moves(u, "extracting", "failed")
  /\ UNCHANGED <<storeVars, request, document, snapshot, plan, applied, audited>>

CardOf(product) == [id |-> product.id, unit |-> product.unit, source |-> product.source]
CommittedCard(r) == IF products[r] = Absent THEN Absent ELSE CardOf(products[r])

ReadCatalog(u) ==
  /\ Moves(u, "reading", "matching")
  /\ snapshot' = [snapshot EXCEPT ![u] =
                    [c \in Codes |-> CommittedCard(<<request[u].stock, c>>)]]
  /\ UNCHANGED <<storeVars, request, document, plan, applied, audited>>

-----------------------------------------------------------------------------
(* The loop over the items. The new products of this invoice join the      *)
(* snapshot; a product found by the fresh findByCode does not.             *)

NextToMatch(u, i) ==
  /\ i \in ItemsOf(u)
  /\ plan[u][i].kind = "none"
  /\ \A j \in ItemsOf(u) : j < i => plan[u][j].kind # "none"

Created(u) == {i \in ItemsOf(u) : plan[u][i].kind = "create"}

CreatedCard(u, i) ==
  [id |-> <<u, i>>, unit |-> ItemOf(u, i).unit, source |-> document[u].supplier]

Candidates(u) ==
  {snapshot[u][c].id : c \in {c \in Codes : snapshot[u][c] # Absent}}
    \cup {<<u, i>> : i \in Created(u)}

\* existingByCode: the snapshot, the invoice's own new products, a fresh read.
KnownCards(u, code) ==
  IF snapshot[u][code] # Absent THEN {snapshot[u][code]}
  ELSE IF \E j \in Created(u) : ItemOf(u, j).code = code
       THEN {CreatedCard(u, j) : j \in {j \in Created(u) : ItemOf(u, j).code = code}}
       ELSE {CommittedCard(<<request[u].stock, code>>)} \ {Absent}

PlanItem(u, i, kind, suggestedProduct) ==
  /\ plan' = [plan EXCEPT ![u][i] = [kind |-> kind, suggestedProduct |-> suggestedProduct]]
  /\ UNCHANGED <<storeVars, request, upload, document, snapshot, applied, audited>>

AbandonMatching(u) ==
  /\ Moves(u, "matching", "failed")
  /\ UNCHANGED <<storeVars, request, document, snapshot, plan, applied, audited>>

CompatibleEntry(u, i) ==
  \A card \in KnownCards(u, ItemOf(u, i).code) :
    Accumulates(card, ItemOf(u, i).unit, document[u].supplier, TRUE)

AddToKnownProduct(u, i) ==
  /\ upload[u] = "matching"
  /\ NextToMatch(u, i)
  /\ KnownCards(u, ItemOf(u, i).code) # {}
  /\ CompatibleEntry(u, i)
  /\ PlanItem(u, i, "add", Absent)

RefuseIncompatible(u, i) ==
  /\ upload[u] = "matching"
  /\ NextToMatch(u, i)
  /\ ~CompatibleEntry(u, i)
  /\ AbandonMatching(u)

\* The AI finds no equivalent product, or there was no candidate to ask about.
CreateProduct(u, i) ==
  /\ upload[u] = "matching"
  /\ NextToMatch(u, i)
  /\ KnownCards(u, ItemOf(u, i).code) = {}
  /\ PlanItem(u, i, "create", Absent)

SuggestProduct(u, i) ==
  /\ upload[u] = "matching"
  /\ NextToMatch(u, i)
  /\ KnownCards(u, ItemOf(u, i).code) = {}
  /\ \E id \in Candidates(u) : PlanItem(u, i, "suggest", id)

SimilarityUnavailable(u, i) ==
  /\ upload[u] = "matching"
  /\ NextToMatch(u, i)
  /\ KnownCards(u, ItemOf(u, i).code) = {}
  /\ Candidates(u) # {}
  /\ AbandonMatching(u)

-----------------------------------------------------------------------------
(* The transaction of PrismaInvoicePersistenceRepository.persist.          *)

IsOperation(u, i) == plan[u][i].kind \in {"add", "create"}
Operations(u)  == {i \in ItemsOf(u) : IsOperation(u, i)}
Suggested(u)   == {i \in ItemsOf(u) : plan[u][i].kind = "suggest"}
FullyMatched(u) == \A i \in ItemsOf(u) : plan[u][i].kind # "none"

KeyFree_FaultyNoUniqueIndex(u) == TRUE

\* An open transaction that inserted the same access key makes this one wait.
KeyFree(u) ==
  \A v \in Uploads \ {u} :
    upload[v] = "persisting" => document[v].accessKey # document[u].accessKey

BeginPersist(u) ==
  /\ upload[u] = "matching"
  /\ FullyMatched(u)
  /\ KeyFree(u)
  /\ Moves(u, "matching",
       IF processed[document[u].accessKey] = Absent THEN "persisting" ELSE "failed")
  /\ UNCHANGED <<storeVars, request, document, snapshot, plan, applied, audited>>

NextToApply(u, i) ==
  /\ i \in Operations(u) \ applied[u]
  /\ \A j \in Operations(u) : j < i => j \in applied[u]

OperationAccepted(u, i) ==
  EntryAccepted(u, RowOf(u, i), ItemOf(u, i).unit, document[u].supplier, TRUE)

ApplyOperation(u, i) ==
  /\ upload[u] = "persisting"
  /\ NextToApply(u, i)
  /\ RowFree(u, RowOf(u, i))
  /\ OperationAccepted(u, i)
  /\ UpsertWeightedProductEntry(u, RowOf(u, i), <<u, i>>, ItemOf(u, i).unit,
                                document[u].supplier, <<u, i>>)
  /\ applied' = [applied EXCEPT ![u] = @ \cup {i}]
  /\ UNCHANGED <<processed, products, suggestions, request, upload, document,
                 snapshot, plan, audited>>

EndWithRollback_FaultyKeepsRows(u) ==
  /\ Moves(u, "persisting", "failed")
  /\ CommitProducts(u)
  /\ applied' = [applied EXCEPT ![u] = {}]
  /\ UNCHANGED <<processed, suggestions, request, document, snapshot, plan, audited>>

EndWithRollback_FaultyKeepsLocks(u) ==
  /\ Moves(u, "persisting", "failed")
  /\ applied' = [applied EXCEPT ![u] = {}]
  /\ UNCHANGED <<storeVars, request, document, snapshot, plan, audited>>

\* A statement throws out of the callback of prisma.$transaction.
EndWithRollback(u) ==
  /\ Moves(u, "persisting", "failed")
  /\ Rollback(u)
  /\ applied' = [applied EXCEPT ![u] = {}]
  /\ UNCHANGED <<request, document, snapshot, plan, audited>>

RefuseOperation(u, i) ==
  /\ upload[u] = "persisting"
  /\ NextToApply(u, i)
  /\ RowFree(u, RowOf(u, i))
  /\ ~OperationAccepted(u, i)
  /\ EndWithRollback(u)

SuggestedProductsExist_FaultyNoForeignKey(u) == TRUE

\* The foreign key of product_similarity_suggestions.suggestedProductId.
SuggestedProductsExist(u) ==
  \A i \in Suggested(u) : \E r \in Rows :
    /\ Visible(u, r) # Absent
    /\ Visible(u, r).id = plan[u][i].suggestedProduct

NewSuggestion(u, i) ==
  [status |-> "PENDING", stock |-> request[u].stock,
   suggestedProduct |-> plan[u][i].suggestedProduct,
   receivedCode |-> ItemOf(u, i).code, unit |-> ItemOf(u, i).unit,
   receivedSupplier |-> document[u].supplier, decidedBy |-> Absent]

\* createMany and COMMIT. The acknowledgement of the commit may be lost.
CommitInvoice(u) ==
  /\ upload[u] = "persisting"
  /\ Operations(u) = applied[u]
  /\ SuggestedProductsExist(u)
  /\ \E outcome \in {"auditing", "failed"} : Moves(u, "persisting", outcome)
  /\ processed' = [processed EXCEPT ![document[u].accessKey] = u]
  /\ CommitProducts(u)
  /\ suggestions' = [l \in Lines |-> IF l[1] = u /\ l[2] \in Suggested(u)
                                     THEN NewSuggestion(u, l[2]) ELSE suggestions[l]]
  /\ UNCHANGED <<request, document, snapshot, plan, applied, audited>>

RefuseSuggestions(u) ==
  /\ upload[u] = "persisting"
  /\ Operations(u) = applied[u]
  /\ ~SuggestedProductsExist(u)
  /\ EndWithRollback(u)

\* Chosen as deadlock victim, past the transaction timeout, connection lost.
AbortInvoice(u) == EndWithRollback(u)

\* A read fails, or the transaction cannot start or times out waiting for its key.
StatementFails(u) ==
  /\ \E from \in {"received", "reading", "matching"} : Moves(u, from, "failed")
  /\ UNCHANGED <<storeVars, request, document, snapshot, plan, applied, audited>>

-----------------------------------------------------------------------------
AuditOperations_FaultyAllItems(u) ==
  /\ Moves(u, "auditing", "done")
  /\ \E logged \in SUBSET ItemsOf(u) :
       audited' = audited \cup {<<u, i>> : i \in logged}
  /\ UNCHANGED <<storeVars, request, document, snapshot, plan, applied>>

(* persistAuditBestEffort for every operation: each row may fail to be     *)
(* written without changing the answer.                                    *)
AuditOperations(u) ==
  /\ Moves(u, "auditing", "done")
  /\ \E logged \in SUBSET Operations(u) :
       audited' = audited \cup {<<u, i>> : i \in logged}
  /\ UNCHANGED <<storeVars, request, document, snapshot, plan, applied>>

\* What the handler does next when nothing goes wrong beneath it.
UploadProgress(u) ==
  \/ Authorize(u)
  \/ DenyUpload(u)
  \/ Extract(u)
  \/ ReadCatalog(u)
  \/ \E i \in Items :
       \/ AddToKnownProduct(u, i)
       \/ RefuseIncompatible(u, i)
       \/ CreateProduct(u, i)
       \/ SuggestProduct(u, i)
       \/ SimilarityUnavailable(u, i)
       \/ ApplyOperation(u, i)
       \/ RefuseOperation(u, i)
  \/ BeginPersist(u)
  \/ CommitInvoice(u)
  \/ RefuseSuggestions(u)
  \/ AuditOperations(u)

UploadStep(u) ==
  \/ UploadProgress(u)
  \/ ExtractionFails(u)
  \/ StatementFails(u)
  \/ AbortInvoice(u)

=============================================================================
