----------------------------- MODULE StockStore -----------------------------
(***************************************************************************)
(* The tables that receiving goods reads and writes, and the operations    *)
(* every transaction performs on them: processed_invoices (unique access   *)
(* key), products (unique stock and code) and                              *)
(* product_similarity_suggestions.                                         *)
(*                                                                         *)
(* A transaction runs at READ COMMITTED: what it wrote stays in its own    *)
(* "writes" until it commits, a row it wrote is locked against the other   *)
(* transactions, and every statement sees the rows committed before it.    *)
(*                                                                         *)
(* The quantity of a product is kept as the number of times each invoice   *)
(* line was added to it: the sum of these counts, each times the line's    *)
(* quantity, is the increase of products.quantity.                         *)
(*                                                                         *)
(* An operator called X_Faulty... is X with a plausible mistake in it: no   *)
(* definition uses it, the mutation runs put it in X's place.              *)
(***************************************************************************)
EXTENDS Naturals, FiniteSets, Sequences

CONSTANTS
  Stocks,      (* Stocks of all companies.                                 *)
  Codes,       (* Product codes printed on invoices.                       *)
  Suppliers,   (* Normalized supplier CNPJs.                               *)
  Units,       (* Units of measurement, up to normalization.               *)
  AccessKeys,  (* 44-digit NF-e access keys.                               *)
  Users,       (* Authenticated users.                                     *)
  OwnerOf,     (* The owner of each stock's company.                       *)
  Granted,     (* Pairs <<user, stock>>: collaborators with canCreate.     *)
  Uploads,     (* Invoice upload requests.                                 *)
  Decisions,   (* Confirm and reject requests.                             *)
  MaxItems,    (* Bound: items of one invoice.                             *)
  NoSupplier,  (* A NULL source: a product older than the origin column.   *)
  Absent       (* No row, or a NULL column.                                *)

\* findByIdForUser: whom a stock is found for.
Access == {allowed \in Users \X Stocks :
             allowed[1] = OwnerOf[allowed[2]] \/ allowed \in Granted}

Items == 1 .. MaxItems
Lines == Uploads \X Items
Rows  == Stocks \X Codes
Processes == Uploads \cup Decisions

(***************************************************************************)
(* Random UUIDs are named by what they are drawn for: a product created    *)
(* for an invoice line has the line's name, one that exists since before   *)
(* has its row's name.                                                     *)
(***************************************************************************)
ProductIds == Lines \cup Rows

ASSUME StoreAssumption ==
  /\ MaxItems \in Nat
  /\ DOMAIN OwnerOf = Stocks
  /\ Uploads \cap Decisions = {}
  /\ Uploads \cap Stocks = {}
  /\ NoSupplier \notin Suppliers

Card    == [id : ProductIds, unit : Units, source : Suppliers \cup {NoSupplier}]
Product == [id : ProductIds, unit : Units, source : Suppliers \cup {NoSupplier},
            entered : [Lines -> Nat]]
Suggestion == [status : {"PENDING", "CONFIRMED", "REJECTED"},
               stock : Stocks, suggestedProduct : ProductIds, receivedCode : Codes,
               unit : Units, receivedSupplier : Suppliers,
               decidedBy : Users \cup {Absent}]

\* NULL and "no row" are no value of any column or table.
ASSUME AbsentAssumption ==
  Absent \notin Uploads \cup Users \cup ProductIds \cup Card \cup Product \cup Suggestion

VARIABLES
  processed,   (* The upload whose invoice holds each access key.          *)
  products,    (* The committed product of each row.                       *)
  suggestions, (* The committed suggestion of each invoice line.           *)
  writes,      (* The product rows each open transaction has written.      *)
  audited      (* Invoice lines with an audit log row. No transaction      *)
               (* contains these writes: they follow the commit.           *)

storeVars == <<processed, products, suggestions, writes>>

StoreTypeOK ==
  /\ processed \in [AccessKeys -> Uploads \cup {Absent}]
  /\ products \in [Rows -> Product \cup {Absent}]
  /\ suggestions \in [Lines -> Suggestion \cup {Absent}]
  /\ writes \in [Processes -> [Rows -> Product \cup {Absent}]]
  /\ audited \subseteq Lines

NoWrites   == [r \in Rows |-> Absent]
NoEntries  == [l \in Lines |-> 0]

StoreInit(initialProducts) ==
  /\ processed = [k \in AccessKeys |-> Absent]
  /\ products \in initialProducts
  /\ suggestions = [l \in Lines |-> Absent]
  /\ writes = [p \in Processes |-> NoWrites]
  /\ audited = {}

-----------------------------------------------------------------------------
(* Statements inside a transaction of process p.                           *)

Visible(p, r) == IF writes[p][r] # Absent THEN writes[p][r] ELSE products[r]

\* No other open transaction has written row r: a statement on it need not wait.
RowFree(p, r) == \A q \in Processes \ {p} : writes[q][r] = Absent

SameOrigin(product, supplier) ==
  product.source # NoSupplier /\ product.source = supplier

\* The WHERE clause of INSERT ... ON CONFLICT DO UPDATE.
Accumulates(product, unit, supplier, requireSameOrigin) ==
  /\ product.unit = unit
  /\ requireSameOrigin => SameOrigin(product, supplier)

NewProduct(id, unit, source, line) ==
  [id |-> id, unit |-> unit, source |-> source, entered |-> [NoEntries EXCEPT ![line] = 1]]

\* Whether the weighted entry returns a row, and the row it then leaves.
EntryAccepted(p, r, unit, supplier, requireSameOrigin) ==
  Visible(p, r) # Absent => Accumulates(Visible(p, r), unit, supplier, requireSameOrigin)

EntryResult_FaultyOverwrite(p, r, id, unit, source, line) ==
  IF Visible(p, r) = Absent
  THEN NewProduct(id, unit, source, line)
  ELSE [Visible(p, r) EXCEPT !.entered = [NoEntries EXCEPT ![line] = 1]]

EntryResult(p, r, id, unit, source, line) ==
  IF Visible(p, r) = Absent
  THEN NewProduct(id, unit, source, line)
  ELSE [Visible(p, r) EXCEPT !.entered[line] = @ + 1]

UpsertWeightedProductEntry(p, r, id, unit, source, line) ==
  writes' = [writes EXCEPT ![p][r] = EntryResult(p, r, id, unit, source, line)]

CommitProducts(p) ==
  /\ products' = [r \in Rows |-> Visible(p, r)]
  /\ writes' = [writes EXCEPT ![p] = NoWrites]

Rollback(p) ==
  /\ writes' = [writes EXCEPT ![p] = NoWrites]
  /\ UNCHANGED <<processed, products, suggestions>>

=============================================================================
