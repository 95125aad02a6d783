----------------------------- MODULE Companies -----------------------------
(***************************************************************************)
(* Companies with their default stock, created by concurrent requests, and *)
(* the listings of companies, stocks and products a client walks through   *)
(* page by page while rows are added (create-company.use-case.ts,          *)
(* list-*.use-case.ts and their repositories).                             *)
(*                                                                         *)
(* Rows are ordered by their time of creation, which is not the order they *)
(* are committed in, and by a random identifier.  No code removes rows or  *)
(* changes who collaborates, so that access is a constant.                 *)
(***************************************************************************)
EXTENDS Cnpj, FiniteSets, SequencesExt

CONSTANTS
  Users,
  Writings,       \* bound: the CNPJs that are written, each in one way or another
  Creations,      \* requests to create a company
  Listings,       \* clients that walk through a listing
  Collaborators,  \* <<user, company>>, company_collaborators
  Viewers,        \* <<user, stock>>: canView of a collaborator of its company
  InitialRows,
  Limit,          \* rows of a page
  Numbers,        \* bound: identifiers of a table
  MaxTime,        \* bound: the clock
  None

\* The CNPJs that are meant.
Cnpjs == {ParseCnpj(written) : written \in Writings} \ {Invalid}

Tables == {"companies", "stocks", "products"}
Ids == Tables \X Numbers

\* `of`: the CNPJ of a company, the company of a stock, the stock of a product.
Row == [id : Ids, of : Cnpjs \cup Ids, owner : Users \cup {None}, createdAt : 1 .. MaxTime]

CompaniesWith(cnpj, table) == {row \in table : row.id[1] = "companies" /\ row.of = cnpj}
StocksOf(companyId, table) == {row \in table : row.id[1] = "stocks" /\ row.of = companyId}

\* What the primary keys, the index of CNPJs and the foreign key of stocks say, and
\* that each company has its one default stock.
OneById(table) == \A a, b \in table : a.id = b.id => a = b
OneByCnpj(table) == \A cnpj \in Cnpjs : \A a, b \in CompaniesWith(cnpj, table) : a = b
OneStockEach(table) ==
  /\ \A company \in table : company.id[1] = "companies" =>
       \E stock \in table : StocksOf(company.id, table) = {stock}
  /\ \A stock \in table : stock.id[1] = "stocks" =>
       \E company \in table : company.id[1] = "companies" /\ company.id = stock.of

ASSUME CompaniesAssumption ==
  /\ Writings \subseteq Written
  /\ Limit \in Nat \ {0} /\ Numbers \subseteq Nat /\ MaxTime \in Nat \ {0}
  /\ None \notin Ids \cup Users
  /\ InitialRows \subseteq Row
  /\ OneById(InitialRows) /\ OneByCnpj(InitialRows) /\ OneStockEach(InitialRows)

VARIABLES
  rows,      \* the committed rows of the three tables
  pending,   \* creation -> the rows its open transaction has inserted
  creation,  \* where each creation is
  audited,   \* the audit log
  listing,   \* where each client is
  clock

vars == <<rows, pending, creation, audited, listing, clock>>

Creation == [state : {"idle", "creating", "stocking", "committing", "auditing", "created",
                      "conflict", "refused", "failed"},
             cnpj : Cnpjs \cup {None}, ownerId : Users \cup {None},
             made : SUBSET Row]  \* what its transaction answered

\* auditEvents.companyCreated
AuditRow == [userId : Users, companyId : Ids, stockId : Ids]

\* `cursor` is the last row of the page before; `there`, history: the rows that
\* were left to show when the client began.
Listing == [state : {"idle", "between", "checking", "paging", "ended", "refused"},
            table : Tables, userId : Users \cup {None}, under : Ids \cup {None},
            cursor : Ids \cup {None}, shown : Seq(Row), there : SUBSET Row]

TypeOK ==
  /\ rows \subseteq Row
  /\ pending \in [Creations -> SUBSET Row]
  /\ creation \in [Creations -> Creation]
  /\ audited \subseteq AuditRow
  /\ listing \in [Listings -> Listing]
  /\ clock \in 1 .. MaxTime

NoCreation == [state |-> "idle", cnpj |-> None, ownerId |-> None, made |-> {}]
NoListing == [state |-> "idle", table |-> "companies", userId |-> None, under |-> None,
              cursor |-> None, shown |-> <<>>, there |-> {}]

Init ==
  /\ rows = InitialRows
  /\ pending = [c \in Creations |-> {}]
  /\ creation = [c \in Creations |-> NoCreation]
  /\ audited = {}
  /\ listing = [l \in Listings |-> NoListing]
  /\ clock = 1

-----------------------------------------------------------------------------
(* Creation: find the CNPJ, then company and stock in one transaction.     *)

Is(c, state) == creation[c].state = state
Becomes(c, state) == creation' = [creation EXCEPT ![c].state = state]

\* The row of an identifier nobody has.
Inserted(c, table, of, owner) ==
  \E n \in Numbers :
    /\ \A row \in rows \cup UNION {pending[d] : d \in Creations} : row.id # <<table, n>>
    /\ pending' = [pending EXCEPT ![c] = @ \cup
         {[id |-> <<table, n>>, of |-> of, owner |-> owner, createdAt |-> clock]}]

\* The use case refuses what is no CNPJ, finds it taken, or goes on to its
\* transaction.
Create(c, written, ownerId) ==
  LET cnpj == ParseCnpj(written)
  IN /\ Is(c, "idle")
     /\ creation' = [creation EXCEPT ![c] =
          IF cnpj = Invalid THEN [@ EXCEPT !.state = "refused"]
          ELSE [@ EXCEPT !.state = IF CompaniesWith(cnpj, rows) = {} THEN "creating" ELSE "conflict",
                         !.cnpj = cnpj, !.ownerId = ownerId]]
  /\ UNCHANGED <<rows, pending, audited, listing, clock>>

\* A second entry of the CNPJ waits for the transaction that has the first.
EntryFree(c) == \A d \in Creations \ {c} : CompaniesWith(creation[c].cnpj, pending[d]) = {}

\* The search is trusted, and the index does without.
CreateCompany_FaultyNoIndex(c) ==
  /\ Is(c, "creating")
  /\ Inserted(c, "companies", creation[c].cnpj, creation[c].ownerId)
  /\ Becomes(c, "stocking")
  /\ UNCHANGED <<rows, audited, listing, clock>>

CreateCompany(c) ==
  /\ Is(c, "creating") /\ EntryFree(c)
  /\ CompaniesWith(creation[c].cnpj, rows) = {}
  /\ Inserted(c, "companies", creation[c].cnpj, creation[c].ownerId)
  /\ Becomes(c, "stocking")
  /\ UNCHANGED <<rows, audited, listing, clock>>

\* P2002: another request was faster.
UniqueViolation(c) ==
  /\ Is(c, "creating") /\ EntryFree(c)
  /\ CompaniesWith(creation[c].cnpj, rows) # {}
  /\ Becomes(c, "conflict")
  /\ UNCHANGED <<rows, pending, audited, listing, clock>>

CreateStock(c) ==
  /\ Is(c, "stocking")
  /\ \E company \in CompaniesWith(creation[c].cnpj, pending[c]) :
       Inserted(c, "stocks", company.id, None)
  /\ Becomes(c, "committing")
  /\ UNCHANGED <<rows, audited, listing, clock>>

\* The answer to COMMIT may be lost: the rows are there, the request fails.
Commit(c) ==
  /\ Is(c, "committing")
  /\ rows' = rows \cup pending[c]
  /\ pending' = [pending EXCEPT ![c] = {}]
  /\ \/ creation' = [creation EXCEPT ![c] = [@ EXCEPT !.state = "auditing", !.made = pending[c]]]
     \/ Becomes(c, "failed")
  /\ UNCHANGED <<audited, listing, clock>>

\* persistAuditBestEffort: the row is written, or its failure swallowed.
PersistAuditBestEffort(row) == audited' \in {audited, audited \cup {row}}

AuditCompanyCreated(c) ==
  /\ Is(c, "auditing")
  /\ \E company, stock \in creation[c].made :
       /\ company.id[1] = "companies" /\ stock.id[1] = "stocks"
       /\ PersistAuditBestEffort([userId |-> creation[c].ownerId, companyId |-> company.id,
                                  stockId |-> stock.id])
  /\ Becomes(c, "created")
  /\ UNCHANGED <<rows, pending, listing, clock>>

\* A statement before COMMIT fails and leaves its rows behind.
CreationFails_FaultyKeepsCompany(c) ==
  /\ creation[c].state \in {"creating", "stocking", "committing"}
  /\ rows' = rows \cup pending[c]
  /\ pending' = [pending EXCEPT ![c] = {}]
  /\ Becomes(c, "failed")
  /\ UNCHANGED <<audited, listing, clock>>

\* A statement before COMMIT fails, or the process dies: nothing is left.
CreationFails(c) ==
  /\ creation[c].state \in {"creating", "stocking", "committing"}
  /\ pending' = [pending EXCEPT ![c] = {}]
  /\ Becomes(c, "failed")
  /\ UNCHANGED <<rows, audited, listing, clock>>

\* An upload or a decision commits a product; NOW() is when it had begun.
EnterProduct(stock, createdAt) ==
  /\ \E n \in Numbers :
       /\ \A row \in rows : row.id # <<"products", n>>
       /\ rows' = rows \cup {[id |-> <<"products", n>>, of |-> stock.id, owner |-> None,
                              createdAt |-> createdAt]}
  /\ UNCHANGED <<pending, creation, audited, listing, clock>>

Tick ==
  /\ clock < MaxTime /\ clock' = clock + 1
  /\ UNCHANGED <<rows, pending, creation, audited, listing>>

-----------------------------------------------------------------------------
(* Access, as the repositories' predicates have it.                        *)

Owns(userId, companyId) == \E row \in rows : row.id = companyId /\ row.owner = userId

\* accessibleWhere
Accessible(userId, row) == row.owner = userId \/ <<userId, row.id>> \in Collaborators

\* findByIdForViewer and the predicate of findViewablePageByCompanyId
Viewable(userId, stock) == Owns(userId, stock.of) \/ <<userId, stock.id>> \in Viewers

\* `where` of findAccessiblePageByUserId, findViewablePageByCompanyId and
\* findPageByStockId.
AccessibleCompanies(userId) ==
  {row \in rows : row.id[1] = "companies" /\ Accessible(userId, row)}
ViewableStocks(userId, companyId) ==
  {row \in rows : row.id[1] = "stocks" /\ row.of = companyId /\ Viewable(userId, row)}
ProductsOf(stockId) == {row \in rows : row.id[1] = "products" /\ row.of = stockId}

\* The rows a listing is about.
Matching(table, userId, under) ==
  CASE table = "companies" -> AccessibleCompanies(userId)
    [] table = "stocks"    -> ViewableStocks(userId, under)
    [] OTHER               -> ProductsOf(under)

\* The gate before the listing: the company, or the stock, is the user's to see.
Gate(table, userId, under) ==
  CASE table = "companies" -> TRUE
    [] table = "stocks"    -> \E row \in rows : row.id = under /\ Accessible(userId, row)
    [] OTHER               -> \E row \in rows : row.id = under /\ Viewable(userId, row)

\* ORDER BY "createdAt" DESC, id DESC
Newer(a, b) ==
  a.createdAt > b.createdAt \/ (a.createdAt = b.createdAt /\ a.id[2] > b.id[2])

-----------------------------------------------------------------------------
(* A client walks through a listing.                                       *)

At(l, state) == listing[l].state = state
Goto(l, state) ==
  /\ listing' = [listing EXCEPT ![l].state = state]
  /\ UNCHANGED <<rows, pending, creation, audited, clock>>

\* A client begins at the newest row, or after a row it has kept.
List(l, table, userId, under, cursor) ==
  LET matching == Matching(table, userId, under)
  IN /\ At(l, "idle")
     /\ listing' = [listing EXCEPT ![l] =
          [state |-> "between", table |-> table, userId |-> userId, under |-> under,
           cursor |-> cursor, shown |-> <<>>,
           there |-> {row \in matching : \A c \in matching : c.id = cursor => Newer(c, row)}]]
     /\ UNCHANGED <<rows, pending, creation, audited, clock>>

\* The controllers of the listings.
ListCompanies(l, userId, cursor) == List(l, "companies", userId, None, cursor)
ListCompanyStocks(l, userId, companyId, cursor) == List(l, "stocks", userId, companyId, cursor)
ListProducts(l, userId, stockId, cursor) == List(l, "products", userId, stockId, cursor)

\* A request for the next page.
Authorize(l) ==
  /\ At(l, "between")
  /\ IF Gate(listing[l].table, listing[l].userId, listing[l].under)
     THEN Goto(l, IF listing[l].cursor = None THEN "paging" ELSE "checking")
     ELSE Goto(l, "refused")

\* The row of the cursor, looked up each in its own way: findAccessibleById,
\* findByIdForViewer of the same company, findById of the same stock.
CursorRows(l) ==
  {row \in rows :
     /\ row.id = listing[l].cursor /\ row.id[1] = listing[l].table
     /\ CASE row.id[1] = "companies" -> Accessible(listing[l].userId, row)
          [] row.id[1] = "stocks"    -> Viewable(listing[l].userId, row) /\ row.of = listing[l].under
          [] OTHER                   -> row.of = listing[l].under}

\* "Cursor inválido" without one.
CheckCursor(l) ==
  /\ At(l, "checking")
  /\ Goto(l, IF CursorRows(l) # {} THEN "paging" ELSE "refused")

\* The row of the cursor is skipped with all that were created with it.
Following_FaultyByTime(row, cursor) == row.createdAt < cursor.createdAt

\* `cursor` with `skip: 1`.
Following(row, cursor) == Newer(cursor, row)

\* The newest of some rows, Limit of them if there are as many.
Newest(table) ==
  {items \in UNION {[1 .. n -> table] : n \in 0 .. Limit} :
     /\ \A i, j \in DOMAIN items : i < j => Newer(items[i], items[j])
     /\ \A row \in table \ ToSet(items) :
          Len(items) = Limit /\ \A i \in DOMAIN items : Newer(items[i], row)}

\* take: limit + 1 tells whether there is another page.
Page(l) ==
  LET q == listing[l]
      matching == Matching(q.table, q.userId, q.under)
      left == {row \in matching : \A cursor \in matching :
                 cursor.id = q.cursor => Following(row, cursor)}
  IN /\ At(l, "paging")
     /\ \E items \in Newest(left) :
          LET more == left # ToSet(items) IN
          listing' = [listing EXCEPT ![l] = [q EXCEPT
            !.shown = q.shown \o items,
            !.cursor = IF more THEN items[Limit].id ELSE q.cursor,
            !.state = IF more THEN "between" ELSE "ended"]]
     /\ UNCHANGED <<rows, pending, creation, audited, clock>>

\* The client asks for the same page again.
RequestFails(l) == listing[l].state \in {"checking", "paging"} /\ Goto(l, "between")

-----------------------------------------------------------------------------
Finished ==
  /\ \A c \in Creations : creation[c].state \in {"created", "conflict", "refused", "failed"}
  /\ \A l \in Listings : listing[l].state \in {"ended", "refused"}
  /\ UNCHANGED vars

Next ==
  \/ \E c \in Creations :
       \/ \E written \in Writings, ownerId \in Users : Create(c, written, ownerId)
       \/ CreateCompany(c) \/ UniqueViolation(c) \/ CreateStock(c)
       \/ Commit(c) \/ AuditCompanyCreated(c) \/ CreationFails(c)
  \/ \E stock \in {row \in rows : row.id[1] = "stocks"}, createdAt \in 1 .. clock :
       EnterProduct(stock, createdAt)
  \/ Tick
  \/ \E l \in Listings :
       \/ \E userId \in Users, cursor \in {row.id : row \in rows} \cup {None} :
            \/ ListCompanies(l, userId, cursor)
            \/ \E row \in rows :
                 \/ row.id[1] = "companies" /\ ListCompanyStocks(l, userId, row.id, cursor)
                 \/ row.id[1] = "stocks" /\ ListProducts(l, userId, row.id, cursor)
       \/ Authorize(l) \/ CheckCursor(l) \/ Page(l) \/ RequestFails(l)
  \/ Finished

Spec == Init /\ [][Next]_vars

-----------------------------------------------------------------------------
(***************************************************************************)
(* However creations of a CNPJ race, fail or lose their answer, and however *)
(* it is written, a CNPJ is one company, each company has its one default  *)
(* stock, a creation that reports success has both, the audit log names a  *)
(* company that is there with its stock and owner, and a creation is       *)
(* refused only for a CNPJ that is taken or none.                          *)
(***************************************************************************)
CreationsTold ==
  \A c \in Creations :
    /\ Is(c, "auditing") \/ Is(c, "created") =>
         \E row \in CompaniesWith(creation[c].cnpj, rows) :
           row.owner = creation[c].ownerId /\ row \in creation[c].made
    /\ Is(c, "conflict") => CompaniesWith(creation[c].cnpj, rows) # {}

AuditTrue ==
  \A log \in audited :
    \E company, stock \in rows :
      /\ company.id = log.companyId /\ company.owner = log.userId
      /\ stock.id = log.stockId /\ stock.of = company.id

CompaniesInv ==
  TypeOK /\ OneByCnpj(rows) /\ OneStockEach(rows) /\ CreationsTold /\ AuditTrue

(***************************************************************************)
(* A client that walks a listing to its end is shown, newest first and     *)
(* once each, only rows it may see, and every row that was left to show    *)
(* when it began; rows created in the same instant, rows committed late    *)
(* and pages asked for again take nothing away.                            *)
(***************************************************************************)
ListedOnce ==
  \A l \in Listings :
    LET shown == listing[l].shown
    IN /\ \A i, j \in DOMAIN shown : i < j => Newer(shown[i], shown[j])
       /\ ToSet(shown) \subseteq Matching(listing[l].table, listing[l].userId, listing[l].under)
       /\ shown # <<>> => Gate(listing[l].table, listing[l].userId, listing[l].under)
       /\ At(l, "ended") => listing[l].there \subseteq ToSet(shown)
=============================================================================
