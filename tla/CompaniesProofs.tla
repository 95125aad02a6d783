--------------------------- MODULE CompaniesProofs ---------------------------
(***************************************************************************)
(* Theorems about Companies.                                               *)
(***************************************************************************)
EXTENDS Companies, SequenceTheorems, TLAPS

-----------------------------------------------------------------------------
(* The inductive invariant.                                                *)

\* Rows that are committed or inserted by an open transaction.
Known == rows \cup UNION {pending[c] : c \in Creations}

\* A row that a creation inserts for its company, and the stock of that.
Founds(company, k) ==
  company.id[1] = "companies" /\ company.of = k.cnpj /\ company.owner = k.ownerId
Houses(stock, company) == stock.id[1] = "stocks" /\ stock.of = company.id

\* What a creation has inserted, or what became of it.
Good(k, held, table) ==
  /\ k.state \notin {"idle", "refused"} => k.cnpj \in Cnpjs /\ k.ownerId \in Users
  /\ k.state = "stocking" => \E company \in Row : held = {company} /\ Founds(company, k)
  /\ k.state = "committing" =>
       \E company, stock \in Row :
         held = {company, stock} /\ Founds(company, k) /\ Houses(stock, company)
  /\ k.state \notin {"stocking", "committing"} => held = {}
  /\ k.state \in {"stocking", "committing"} => CompaniesWith(k.cnpj, table) = {}
  /\ k.state \in {"auditing", "created"} =>
       \E company, stock \in table :
         k.made = {company, stock} /\ Founds(company, k) /\ Houses(stock, company)
  /\ k.state = "conflict" => CompaniesWith(k.cnpj, table) # {}

CreationsGood == \A c \in Creations : Good(creation[c], pending[c], rows)

\* Open transactions hold entries of different CNPJs.
EntriesApart ==
  \A c, d \in Creations : c # d =>
    \A a \in pending[c], b \in pending[d] :
      a.id[1] = "companies" /\ b.id[1] = "companies" => a.of # b.of

\* The rows a page may still show come behind its cursor.
Behind(row, cursor, matching) == \A c \in matching : c.id = cursor => Newer(c, row)

\* How far a client has come.
Walked(q, matching, gate, table) ==
  /\ \A i, j \in DOMAIN q.shown : i < j => Newer(q.shown[i], q.shown[j])
  /\ ToSet(q.shown) \subseteq matching
  /\ q.shown # <<>> \/ q.state \in {"checking", "paging"} => gate
  /\ q.cursor = None \/ \E row \in table : row.id = q.cursor
  /\ q.state \in {"between", "checking", "paging"} =>
       /\ q.shown # <<>> => q.cursor = q.shown[Len(q.shown)].id
       /\ \A row \in q.there :
            row \in matching /\ (row \in ToSet(q.shown) \/ Behind(row, q.cursor, matching))
  /\ q.state = "ended" => q.there \subseteq ToSet(q.shown)

WalkedTo(l) ==
  LET q == listing[l]
  IN Walked(q, Matching(q.table, q.userId, q.under), Gate(q.table, q.userId, q.under), rows)

ListingsGood == \A l \in Listings : WalkedTo(l)

RowsGood == OneById(Known) /\ OneByCnpj(rows) /\ OneStockEach(rows)

StoreInv ==
  TypeOK /\ RowsGood /\ CreationsGood /\ EntriesApart /\ AuditTrue /\ ListingsGood

-----------------------------------------------------------------------------
(* Rows, and who may see them.                                             *)

\* Of three rows, what is newer than the second is newer than the third.
LEMMA NewerThrough ==
  ASSUME NEW a \in Row, NEW b \in Row, NEW c \in Row, Newer(a, b), Newer(b, c)
  PROVE  Newer(a, c)
<1>1. ASSUME NEW row \in Row PROVE row.createdAt \in Nat /\ row.id[2] \in Nat
  <2>1. row.createdAt \in 1 .. MaxTime /\ row.id \in Tables \X Numbers
    BY DEF Row, Ids
  <2>2. row.id[2] \in Numbers
    BY <2>1
  <2>3. row.createdAt \in Nat
    BY <2>1, CompaniesAssumption
  <2>4. row.id[2] \in Nat
    BY <2>2, CompaniesAssumption
  <2> QED BY <2>3, <2>4
<1> QED BY <1>1 DEF Newer

\* Rows as they were are seen as they were.
LEMMA SeenAlike ==
  ASSUME UNCHANGED rows, NEW table, NEW userId, NEW under
  PROVE  /\ Matching(table, userId, under)' = Matching(table, userId, under)
         /\ Gate(table, userId, under)' <=> Gate(table, userId, under)
<1>1. \A row : Viewable(userId, row)' <=> Viewable(userId, row)
  BY DEF Viewable, Owns
<1>2. /\ AccessibleCompanies(userId)' = AccessibleCompanies(userId)
      /\ ViewableStocks(userId, under)' = ViewableStocks(userId, under)
      /\ ProductsOf(under)' = ProductsOf(under)
  BY <1>1 DEF AccessibleCompanies, ViewableStocks, ProductsOf
<1>3. Matching(table, userId, under)' = Matching(table, userId, under)
  BY <1>2 DEF Matching
<1>4. Gate(table, userId, under)' <=> Gate(table, userId, under)
  BY <1>1 DEF Gate
<1> QED BY <1>3, <1>4

\* What a user may see stays so, and of the rows there were nothing is added to it.
LEMMA SeenStill ==
  ASSUME OneStockEach(rows), OneById(rows'), rows \subseteq rows', NEW table, NEW userId, NEW under
  PROVE  /\ Matching(table, userId, under) \subseteq Matching(table, userId, under)'
         /\ Matching(table, userId, under)' \cap rows \subseteq Matching(table, userId, under)
         /\ Gate(table, userId, under) => Gate(table, userId, under)'
<1>1. \A row : Viewable(userId, row) => Viewable(userId, row)'
  BY DEF Viewable, Owns
<1>2. ASSUME NEW stock \in rows, stock.id[1] = "stocks", Viewable(userId, stock)'
      PROVE  Viewable(userId, stock)
  <2>1. PICK company \in rows : company.id = stock.of
    BY <1>2 DEF OneStockEach
  <2>2. \A row \in rows' : row.id = stock.of => row = company
    BY <2>1 DEF OneById
  <2> QED BY <1>2, <2>1, <2>2 DEF Viewable, Owns
<1>3. AccessibleCompanies(userId) \subseteq AccessibleCompanies(userId)'
      /\ AccessibleCompanies(userId)' \cap rows \subseteq AccessibleCompanies(userId)
  BY DEF AccessibleCompanies
<1>4. ViewableStocks(userId, under) \subseteq ViewableStocks(userId, under)'
      /\ ViewableStocks(userId, under)' \cap rows \subseteq ViewableStocks(userId, under)
  BY <1>1, <1>2 DEF ViewableStocks
<1>5. ProductsOf(under) \subseteq ProductsOf(under)' /\ ProductsOf(under)' \cap rows \subseteq ProductsOf(under)
  BY DEF ProductsOf
<1>6. /\ Matching(table, userId, under) \subseteq Matching(table, userId, under)'
      /\ Matching(table, userId, under)' \cap rows \subseteq Matching(table, userId, under)
  BY <1>3, <1>4, <1>5 DEF Matching
<1>7. Gate(table, userId, under) => Gate(table, userId, under)'
  BY <1>1 DEF Gate
<1> QED BY <1>6, <1>7

\* What a listing is about are rows.
LEMMA MatchingRows ==
  ASSUME NEW table, NEW userId, NEW under
  PROVE  Matching(table, userId, under) \subseteq rows
<1>1. /\ AccessibleCompanies(userId) \subseteq rows /\ ViewableStocks(userId, under) \subseteq rows
      /\ ProductsOf(under) \subseteq rows
  BY DEF AccessibleCompanies, ViewableStocks, ProductsOf
<1> QED BY <1>1 DEF Matching

-----------------------------------------------------------------------------
(* Steps that leave most as it is.                                         *)

\* New rows take nothing from those who walk through a listing.
LEMMA ListingsStay ==
  ASSUME TypeOK, ListingsGood, OneStockEach(rows), rows \subseteq rows', rows' \subseteq Row,
         OneById(rows'), UNCHANGED listing
  PROVE  ListingsGood'
<1> SUFFICES ASSUME NEW l \in Listings PROVE WalkedTo(l)'
  BY DEF ListingsGood
<1> DEFINE q        == listing[l]
           matching == Matching(q.table, q.userId, q.under)
           gate     == Gate(q.table, q.userId, q.under)
<1>1. Walked(q, matching, gate, rows) /\ q \in Listing
  BY DEF ListingsGood, WalkedTo, TypeOK
<1>2. /\ matching \subseteq matching' /\ matching' \cap rows \subseteq matching
      /\ gate => gate' /\ q' = q
  BY SeenStill
<1>3. \A c \in matching' : c \in rows'
  BY DEF Matching, AccessibleCompanies, ViewableStocks, ProductsOf
<1>4. None \notin Ids /\ \A row \in rows' : row.id \in Ids
  BY CompaniesAssumption DEF Row
<1>5. \A c \in matching' : c.id = q.cursor => c \in matching
  <2> SUFFICES ASSUME NEW c \in matching', c.id = q.cursor PROVE c \in matching
    OBVIOUS
  <2>1. PICK row \in rows : row.id = q.cursor
    BY <1>1, <1>3, <1>4 DEF Walked
  <2>2. c = row
    BY <1>3, <2>1 DEF OneById
  <2> QED BY <1>2, <2>1, <2>2
<1> HIDE DEF matching, gate
<1>6. Walked(q, matching', gate', rows')
  BY <1>1, <1>2, <1>5 DEF Walked, Behind
<1> QED BY <1>2, <1>6 DEF WalkedTo, matching, gate

\* With the rows, what a client has come to stays.
LEMMA WalkedAlike ==
  ASSUME UNCHANGED rows, NEW q,
         Walked(q, Matching(q.table, q.userId, q.under), Gate(q.table, q.userId, q.under), rows)
  PROVE  Walked(q, Matching(q.table, q.userId, q.under)', Gate(q.table, q.userId, q.under)', rows')
<1>1. /\ Matching(q.table, q.userId, q.under)' = Matching(q.table, q.userId, q.under)
      /\ Gate(q.table, q.userId, q.under)' <=> Gate(q.table, q.userId, q.under)
  BY SeenAlike
<1> QED BY <1>1 DEF Walked

\* A client goes on, and the rows stay.
LEMMA OneListing ==
  ASSUME StoreInv, NEW l \in Listings, NEW q \in Listing, listing' = [listing EXCEPT ![l] = q],
         UNCHANGED <<rows, pending, creation, audited, clock>>,
         Walked(q, Matching(q.table, q.userId, q.under), Gate(q.table, q.userId, q.under), rows)
  PROVE  StoreInv'
<1> USE DEF StoreInv
<1>1. ListingsGood'
  <2> SUFFICES ASSUME NEW m \in Listings PROVE WalkedTo(m)'
    BY DEF ListingsGood
  <2>1. listing'[m] = IF m = l THEN q ELSE listing[m]
    BY DEF TypeOK
  <2>2. CASE m = l
    <3>1. listing'[m] = q
      BY <2>1, <2>2
    <3>2. Walked(q, Matching(q.table, q.userId, q.under)', Gate(q.table, q.userId, q.under)', rows')
      BY WalkedAlike
    <3> QED BY <3>1, <3>2 DEF WalkedTo
  <2>3. CASE m # l
    <3>1. PICK p : p = listing[m]
      OBVIOUS
    <3>2. listing'[m] = p /\ Walked(p, Matching(p.table, p.userId, p.under), Gate(p.table, p.userId, p.under), rows)
      BY <2>1, <2>3, <3>1 DEF ListingsGood, WalkedTo
    <3>3. Walked(p, Matching(p.table, p.userId, p.under)', Gate(p.table, p.userId, p.under)', rows')
      BY <3>2, WalkedAlike
    <3> QED BY <3>2, <3>3 DEF WalkedTo
  <2> QED BY <2>2, <2>3
<1>2. TypeOK'
  BY DEF TypeOK
<1>3. RowsGood' /\ CreationsGood' /\ EntriesApart' /\ AuditTrue'
  BY DEF RowsGood, Known, CreationsGood, EntriesApart, AuditTrue
<1> QED BY <1>1, <1>2, <1>3

\* Rows, once committed, make no creation's state untrue, if its CNPJ is not theirs.
LEMMA GoodStays ==
  ASSUME NEW k, NEW held, NEW table, NEW more, Good(k, held, table), table \subseteq more,
         k.state \in {"stocking", "committing"} => CompaniesWith(k.cnpj, more) = {}
  PROVE  Good(k, held, more)
<1>1. CompaniesWith(k.cnpj, table) # {} => CompaniesWith(k.cnpj, more) # {}
  BY DEF CompaniesWith
<1> QED BY <1>1 DEF Good

\* What is rolled back or committed is no new row.
LEMMA NothingNew ==
  ASSUME RowsGood, EntriesApart, rows' \subseteq Known,
         \A c \in Creations : pending'[c] \subseteq pending[c]
  PROVE  OneById(Known)' /\ EntriesApart'
<1>1. Known' \subseteq Known
  BY DEF Known
<1>2. OneById(Known)'
  BY <1>1 DEF RowsGood, OneById
<1> QED BY <1>2 DEF EntriesApart

\* A creation takes a step that commits nothing.
LEMMA OneCreation ==
  ASSUME StoreInv, NEW c \in Creations, NEW k \in Creation, NEW held \in SUBSET Row,
         creation' = [creation EXCEPT ![c] = k], pending' = [pending EXCEPT ![c] = held],
         UNCHANGED <<rows, listing, clock>>, audited' \subseteq AuditRow, AuditTrue',
         Good(k, held, rows), OneById(Known)', EntriesApart'
  PROVE  StoreInv'
<1> USE DEF StoreInv
<1>1. ListingsGood'
  <2>1. rows \subseteq rows' /\ rows' \subseteq Row /\ OneStockEach(rows)
    BY DEF TypeOK, RowsGood
  <2>2. OneById(rows')
    BY DEF OneById, Known
  <2> QED BY <2>1, <2>2, ListingsStay
<1>2. CreationsGood'
  <2> SUFFICES ASSUME NEW d \in Creations PROVE Good(creation'[d], pending'[d], rows)
    BY DEF CreationsGood
  <2>1. CASE d = c
    BY <2>1 DEF TypeOK
  <2>2. CASE d # c
    BY <2>2 DEF TypeOK, CreationsGood
  <2> QED BY <2>1, <2>2
<1>3. TypeOK'
  BY DEF TypeOK
<1>4. RowsGood'
  BY DEF RowsGood
<1> QED BY <1>1, <1>2, <1>3, <1>4

-----------------------------------------------------------------------------
(* Creations.                                                              *)

\* An insertion adds one row, under an identifier nobody has.
LEMMA OneInserted ==
  ASSUME TypeOK, RowsGood, NEW c \in Creations, NEW table \in Tables, NEW of \in Cnpjs \cup Ids,
         NEW owner \in Users \cup {None}, Inserted(c, table, of, owner), UNCHANGED rows
  PROVE  /\ OneById(Known)'
         /\ \E new \in Row :
              /\ new.id[1] = table /\ new.of = of /\ new.owner = owner
              /\ pending' = [pending EXCEPT ![c] = pending[c] \cup {new}]
              /\ \A row \in Known : row.id # new.id
<1>1. PICK n \in Numbers :
        /\ \A row \in rows \cup UNION {pending[d] : d \in Creations} : row.id # <<table, n>>
        /\ pending' = [pending EXCEPT ![c] = @ \cup
             {[id |-> <<table, n>>, of |-> of, owner |-> owner, createdAt |-> clock]}]
  BY DEF Inserted
<1> DEFINE new == [id |-> <<table, n>>, of |-> of, owner |-> owner, createdAt |-> clock]
<1>2. /\ new \in Row /\ new.id = <<table, n>> /\ new.id[1] = table /\ new.of = of
      /\ new.owner = owner
  BY DEF TypeOK, Row, Ids
<1>3. pending' = [pending EXCEPT ![c] = pending[c] \cup {new}]
  BY <1>1
<1>4. \A row \in Known : row.id # new.id
  BY <1>1, <1>2 DEF Known
<1> HIDE DEF new
<1>5. Known' \subseteq Known \cup {new}
  <2>1. \A d \in Creations : pending'[d] \subseteq pending[d] \cup {new}
    BY <1>3 DEF TypeOK
  <2> QED BY <2>1 DEF Known
<1>6. OneById(Known)'
  BY <1>4, <1>5 DEF RowsGood, OneById
<1> QED BY <1>2, <1>3, <1>4, <1>6

\* The use case looks for the CNPJ.
LEMMA CreateKeeps ==
  ASSUME StoreInv, NEW c \in Creations, NEW written \in Writings, NEW ownerId \in Users,
         Create(c, written, ownerId)
  PROVE  StoreInv'
<1> USE DEF StoreInv
<1> DEFINE cnpj == ParseCnpj(written)
           old  == creation[c]
           k    == IF cnpj = Invalid THEN [old EXCEPT !.state = "refused"]
                   ELSE [old EXCEPT !.state = IF CompaniesWith(cnpj, rows) = {} THEN "creating" ELSE "conflict",
                                    !.cnpj = cnpj, !.ownerId = ownerId]
<1>1. /\ old.state = "idle" /\ creation' = [creation EXCEPT ![c] = k]
      /\ UNCHANGED <<rows, pending, audited, listing, clock>>
  BY DEF Create, Is, TypeOK
<1>2. old \in Creation /\ pending[c] \in SUBSET Row /\ pending[c] = {} /\ pending' = [pending EXCEPT ![c] = {}]
  <2>1. Good(old, pending[c], rows) /\ old \in Creation /\ pending[c] \in SUBSET Row
    BY DEF CreationsGood, TypeOK
  <2>2. pending[c] = {}
    BY <1>1, <2>1 DEF Good
  <2> QED BY <1>1, <2>1, <2>2 DEF TypeOK
<1>3. cnpj # Invalid => cnpj \in Cnpjs
  BY DEF Cnpjs
<1> HIDE DEF cnpj
<1>4. k \in Creation /\ Good(k, {}, rows)
  <2>1. CASE cnpj = Invalid
    <3>1. k = [old EXCEPT !.state = "refused"]
      BY <2>1
    <3> HIDE DEF k, old
    <3>2. k \in Creation /\ k.state = "refused"
      BY <1>2, <3>1 DEF Creation
    <3> QED BY <3>2 DEF Good
  <2>2. CASE cnpj # Invalid
    <3> DEFINE found == IF CompaniesWith(cnpj, rows) = {} THEN "creating" ELSE "conflict"
    <3>1. k = [old EXCEPT !.state = found, !.cnpj = cnpj, !.ownerId = ownerId]
      BY <2>2
    <3>2. found \in {"creating", "conflict"} /\ (found = "conflict" => CompaniesWith(cnpj, rows) # {})
      OBVIOUS
    <3> HIDE DEF k, old, found
    <3>3. k \in Creation /\ k.state = found /\ k.cnpj = cnpj /\ k.ownerId = ownerId
      BY <1>2, <1>3, <2>2, <3>1, <3>2 DEF Creation
    <3> QED BY <1>3, <2>2, <3>2, <3>3 DEF Good
  <2> QED BY <2>1, <2>2
<1>5. OneById(Known)' /\ EntriesApart'
  BY <1>1, NothingNew DEF Known
<1>6. AuditTrue' /\ audited' \subseteq AuditRow
  BY <1>1 DEF AuditTrue, TypeOK
<1> HIDE DEF k
<1> QED BY <1>1, <1>2, <1>4, <1>5, <1>6, OneCreation

\* The company goes in when neither a row nor an open transaction has its CNPJ.
LEMMA CreateCompanyKeeps ==
  ASSUME StoreInv, NEW c \in Creations, CreateCompany(c)
  PROVE  StoreInv'
<1> USE DEF StoreInv
<1> DEFINE old == creation[c]
           k   == [old EXCEPT !.state = "stocking"]
<1>1. /\ old.state = "creating" /\ EntryFree(c) /\ CompaniesWith(old.cnpj, rows) = {}
      /\ Inserted(c, "companies", old.cnpj, old.ownerId)
      /\ creation' = [creation EXCEPT ![c] = k] /\ UNCHANGED <<rows, audited, listing, clock>>
  BY DEF CreateCompany, Is, Becomes, TypeOK
<1>2. old \in Creation /\ old.cnpj \in Cnpjs /\ old.ownerId \in Users /\ pending[c] = {}
  <2>1. Good(old, pending[c], rows) /\ old \in Creation
    BY DEF CreationsGood, TypeOK
  <2> QED BY <1>1, <2>1 DEF Good
<1>3. PICK new \in Row :
        /\ new.id[1] = "companies" /\ new.of = old.cnpj /\ new.owner = old.ownerId
        /\ pending' = [pending EXCEPT ![c] = pending[c] \cup {new}]
        /\ \A row \in Known : row.id # new.id
  BY <1>1, <1>2, OneInserted DEF Tables
<1>4. OneById(Known)'
  BY <1>1, <1>2, OneInserted DEF Tables
<1>5. pending' = [pending EXCEPT ![c] = {new}] /\ {new} \in SUBSET Row
  BY <1>2, <1>3
<1> HIDE DEF old
<1>6. k \in Creation /\ k.state = "stocking" /\ k.cnpj = old.cnpj /\ k.ownerId = old.ownerId
  BY <1>2 DEF Creation
<1> HIDE DEF k
<1>7. Good(k, {new}, rows)
  BY <1>1, <1>2, <1>3, <1>6 DEF Good, Founds
<1>8. EntriesApart'
  <2>1. ASSUME NEW d \in Creations \ {c}, NEW b \in pending[d], b.id[1] = "companies"
        PROVE  new.of # b.of
    BY <1>1, <1>3, <2>1 DEF EntryFree, CompaniesWith, old
  <2>2. \A d \in Creations : pending'[d] = IF d = c THEN {new} ELSE pending[d]
    BY <1>5 DEF TypeOK
  <2> QED BY <2>1, <2>2 DEF EntriesApart
<1>9. AuditTrue' /\ audited' \subseteq AuditRow
  BY <1>1 DEF AuditTrue, TypeOK
<1> QED BY <1>1, <1>4, <1>5, <1>6, <1>7, <1>8, <1>9, OneCreation

\* The stock goes in beside its company.
LEMMA CreateStockKeeps ==
  ASSUME StoreInv, NEW c \in Creations, CreateStock(c)
  PROVE  StoreInv'
<1> USE DEF StoreInv
<1> DEFINE old == creation[c]
           k   == [old EXCEPT !.state = "committing"]
<1>1. /\ old.state = "stocking"
      /\ \E company \in CompaniesWith(old.cnpj, pending[c]) : Inserted(c, "stocks", company.id, None)
      /\ creation' = [creation EXCEPT ![c] = k] /\ UNCHANGED <<rows, audited, listing, clock>>
  BY DEF CreateStock, Is, Becomes, TypeOK
<1>2. /\ old \in Creation /\ old.cnpj \in Cnpjs /\ old.ownerId \in Users
      /\ CompaniesWith(old.cnpj, rows) = {}
      /\ \E company \in Row : pending[c] = {company} /\ Founds(company, old)
  <2>1. Good(old, pending[c], rows) /\ old \in Creation
    BY DEF CreationsGood, TypeOK
  <2> QED BY <1>1, <2>1 DEF Good
<1>3. PICK company \in Row :
        pending[c] = {company} /\ Founds(company, old) /\ Inserted(c, "stocks", company.id, None)
  BY <1>1, <1>2 DEF CompaniesWith
<1>a. company.id \in Cnpjs \cup Ids
  BY DEF Row
<1>4. PICK new \in Row :
        /\ new.id[1] = "stocks" /\ new.of = company.id /\ new.owner = None
        /\ pending' = [pending EXCEPT ![c] = pending[c] \cup {new}]
  BY <1>1, <1>3, <1>a, OneInserted DEF Tables
<1>5. OneById(Known)'
  BY <1>1, <1>3, <1>a, OneInserted DEF Tables
<1>6. pending' = [pending EXCEPT ![c] = {company, new}] /\ {company, new} \in SUBSET Row
  <2>1. pending[c] \cup {new} = {company, new}
    BY <1>3
  <2> QED BY <1>4, <2>1
<1> HIDE DEF old
<1>7. k \in Creation /\ k.state = "committing" /\ k.cnpj = old.cnpj /\ k.ownerId = old.ownerId
  BY <1>2 DEF Creation
<1> HIDE DEF k
<1>8. Good(k, {company, new}, rows)
  BY <1>2, <1>3, <1>4, <1>7 DEF Good, Founds, Houses
<1>9. EntriesApart'
  <2>1. \A d \in Creations : pending'[d] = IF d = c THEN {company, new} ELSE pending[d]
    BY <1>6 DEF TypeOK
  <2>2. ASSUME NEW d \in Creations, NEW row \in pending'[d], row.id[1] = "companies"
        PROVE  row \in pending[d]
    BY <1>3, <1>4, <2>1, <2>2
  <2> QED BY <2>2 DEF EntriesApart
<1>10. AuditTrue' /\ audited' \subseteq AuditRow
  BY <1>1 DEF AuditTrue, TypeOK
<1> QED BY <1>1, <1>5, <1>6, <1>7, <1>8, <1>9, <1>10, OneCreation

\* A conflict or a failure leaves nothing of the transaction.
LEMMA RefusalKeeps ==
  ASSUME StoreInv, NEW c \in Creations, UniqueViolation(c) \/ CreationFails(c)
  PROVE  StoreInv'
<1> USE DEF StoreInv
<1> DEFINE old == creation[c]
<1>1. /\ old \in Creation /\ Good(old, pending[c], rows) /\ pending[c] \in SUBSET Row
      /\ old.state \in {"creating", "stocking", "committing"}
      /\ UNCHANGED <<rows, audited, listing, clock>>
  BY DEF CreationsGood, TypeOK, UniqueViolation, CreationFails, Is
<1>2. PICK state \in {"conflict", "failed"} :
        /\ creation' = [creation EXCEPT ![c].state = state]
        /\ state = "conflict" => CompaniesWith(old.cnpj, rows) # {}
  BY DEF UniqueViolation, CreationFails, Becomes
<1>3. pending' = [pending EXCEPT ![c] = {}]
  <2>1. CASE UniqueViolation(c)
    <3>1. pending[c] = {} /\ UNCHANGED pending
      BY <1>1, <2>1 DEF Good, UniqueViolation, Is
    <3> QED BY <3>1 DEF TypeOK
  <2>2. CASE CreationFails(c)
    BY <2>2 DEF CreationFails
  <2> QED BY <2>1, <2>2
<1> DEFINE k == [old EXCEPT !.state = state]
<1>4. creation' = [creation EXCEPT ![c] = k]
  BY <1>2 DEF TypeOK
<1>5. OneById(Known)' /\ EntriesApart'
  <2>1. \A d \in Creations : pending'[d] \subseteq pending[d]
    BY <1>3 DEF TypeOK
  <2>2. rows' \subseteq Known
    BY <1>1 DEF Known
  <2> QED BY <2>1, <2>2, NothingNew
<1> HIDE DEF old
<1>6. k \in Creation /\ k.state = state /\ k.cnpj = old.cnpj /\ k.ownerId = old.ownerId
  BY <1>1 DEF Creation
<1> HIDE DEF k
<1>7. Good(k, {}, rows)
  BY <1>1, <1>2, <1>6 DEF Good
<1>8. AuditTrue' /\ audited' \subseteq AuditRow
  BY <1>1 DEF AuditTrue, TypeOK
<1> QED BY <1>1, <1>3, <1>4, <1>5, <1>6, <1>7, <1>8, OneCreation

\* The audit row names what the transaction has made.
LEMMA AuditKeeps ==
  ASSUME StoreInv, NEW c \in Creations, AuditCompanyCreated(c)
  PROVE  StoreInv'
<1> USE DEF StoreInv
<1> DEFINE old == creation[c]
           k   == [old EXCEPT !.state = "created"]
<1>1. /\ old \in Creation /\ Good(old, pending[c], rows) /\ pending[c] \in SUBSET Row
      /\ old.state = "auditing"
      /\ creation' = [creation EXCEPT ![c] = k] /\ UNCHANGED <<rows, pending, listing, clock>>
  BY DEF CreationsGood, TypeOK, AuditCompanyCreated, Is, Becomes
<1>2. PICK company \in old.made, stock \in old.made :
        /\ company.id[1] = "companies" /\ stock.id[1] = "stocks"
        /\ PersistAuditBestEffort([userId |-> old.ownerId, companyId |-> company.id, stockId |-> stock.id])
  BY DEF AuditCompanyCreated
<1> HIDE DEF old
<1>3. /\ old.ownerId \in Users /\ company \in rows /\ stock \in rows
      /\ company.owner = old.ownerId /\ stock.of = company.id
  <2>1. PICK a \in rows, b \in rows : old.made = {a, b} /\ Founds(a, old) /\ Houses(b, a)
    BY <1>1 DEF Good
  <2>2. company = a /\ stock = b
    BY <1>2, <2>1 DEF Founds, Houses
  <2> QED BY <1>1, <2>1, <2>2 DEF Good, Founds, Houses
<1> DEFINE event == [userId |-> old.ownerId, companyId |-> company.id, stockId |-> stock.id]
<1>4. /\ event \in AuditRow /\ event.userId = old.ownerId /\ event.companyId = company.id
      /\ event.stockId = stock.id
  <2>1. company.id \in Ids /\ stock.id \in Ids
    BY <1>3 DEF TypeOK, Row
  <2> QED BY <1>3, <2>1 DEF AuditRow
<1>5. audited' \in {audited, audited \cup {event}}
  BY <1>2 DEF PersistAuditBestEffort
<1> HIDE DEF event
<1>6. audited' \subseteq AuditRow
  BY <1>4, <1>5 DEF TypeOK
<1>7. AuditTrue'
  BY <1>1, <1>3, <1>4, <1>5 DEF AuditTrue
<1>8. OneById(Known)' /\ EntriesApart'
  BY <1>1 DEF RowsGood, Known, EntriesApart, OneById
<1>9. k \in Creation /\ k.state = "created" /\ k.cnpj = old.cnpj /\ k.ownerId = old.ownerId /\ k.made = old.made
  BY <1>1 DEF Creation
<1>10. pending' = [pending EXCEPT ![c] = pending[c]]
  BY <1>1 DEF TypeOK
<1> HIDE DEF k
<1>11. Good(k, pending[c], rows)
  BY <1>1, <1>9 DEF Good, Founds
<1> QED BY <1>1, <1>6, <1>7, <1>8, <1>9, <1>10, <1>11, OneCreation

\* A commit brings one company of a new CNPJ, and its stock.
LEMMA CommittedTogether ==
  ASSUME StoreInv, NEW company \in Known, NEW stock \in Known, NEW k, Founds(company, k),
         Houses(stock, company), CompaniesWith(k.cnpj, rows) = {},
         NEW more, more = rows \cup {company, stock}
  PROVE  OneByCnpj(more) /\ OneStockEach(more)
<1> USE DEF StoreInv
<1>1. company.id[1] = "companies" /\ company.of = k.cnpj /\ stock.id[1] = "stocks" /\ stock.of = company.id
  BY DEF Founds, Houses
<1>2. company \notin rows /\ \A row \in rows : row.id # company.id
  <2>1. company \notin rows
    BY <1>1 DEF CompaniesWith
  <2> QED BY <2>1 DEF RowsGood, OneById, Known
<1>3. OneByCnpj(more)
  <2> SUFFICES ASSUME NEW cnpj \in Cnpjs, NEW a \in CompaniesWith(cnpj, more), NEW b \in CompaniesWith(cnpj, more)
               PROVE  a = b
    BY DEF OneByCnpj
  <2>1. a \in rows /\ b \in rows => a = b
    BY DEF RowsGood, OneByCnpj, CompaniesWith
  <2>2. \A row \in {a, b} : row \in rows \/ row = company
    BY <1>1 DEF CompaniesWith
  <2>3. \A row \in rows : row.id[1] = "companies" => row.of # company.of
    BY <1>1 DEF CompaniesWith
  <2> QED BY <2>1, <2>2, <2>3 DEF CompaniesWith
<1>4. ASSUME NEW a \in more, a.id[1] = "companies"
      PROVE  \E b \in more : StocksOf(a.id, more) = {b}
  <2>1. CASE a = company
    <3>1. \A row \in rows : row.id[1] = "stocks" => row.of # company.id
      BY <1>2 DEF RowsGood, OneStockEach
    <3>2. StocksOf(a.id, more) = {stock}
      BY <1>1, <2>1, <3>1 DEF StocksOf
    <3> QED BY <3>2
  <2>2. CASE a \in rows
    <3>1. PICK b \in rows : StocksOf(a.id, rows) = {b}
      BY <1>4, <2>2 DEF RowsGood, OneStockEach
    <3>2. StocksOf(a.id, more) = StocksOf(a.id, rows)
      BY <1>1, <1>2, <2>2 DEF StocksOf
    <3> QED BY <3>1, <3>2
  <2> QED BY <1>1, <1>4, <2>1, <2>2
<1>5. ASSUME NEW b \in more, b.id[1] = "stocks"
      PROVE  \E a \in more : a.id[1] = "companies" /\ a.id = b.of
  BY <1>1, <1>5 DEF RowsGood, OneStockEach
<1> QED BY <1>3, <1>4, <1>5 DEF OneStockEach

\* A commit keeps the invariant: no other open transaction has an entry of its CNPJ.
LEMMA CommitKeeps ==
  ASSUME StoreInv, NEW c \in Creations, Commit(c)
  PROVE  StoreInv'
<1> USE DEF StoreInv
<1> DEFINE old == creation[c]
<1>1. /\ old \in Creation /\ Good(old, pending[c], rows) /\ pending[c] \in SUBSET Row
      /\ old.state = "committing" /\ rows' = rows \cup pending[c]
      /\ pending' = [pending EXCEPT ![c] = {}] /\ UNCHANGED <<audited, listing, clock>>
  BY DEF CreationsGood, TypeOK, Commit, Is
<1>2. PICK k : /\ creation' = [creation EXCEPT ![c] = k] /\ k \in Creation
               /\ k.cnpj = old.cnpj /\ k.ownerId = old.ownerId
               /\ k.state = "failed" \/ (k.state = "auditing" /\ k.made = pending[c])
  <2>1. CASE creation' = [creation EXCEPT ![c] = [@ EXCEPT !.state = "auditing", !.made = pending[c]]]
    <3> DEFINE k == [old EXCEPT !.state = "auditing", !.made = pending[c]]
    <3>1. creation' = [creation EXCEPT ![c] = k]
      BY <2>1 DEF TypeOK
    <3> HIDE DEF old
    <3>2. k \in Creation /\ k.cnpj = old.cnpj /\ k.ownerId = old.ownerId
          /\ k.state = "auditing" /\ k.made = pending[c]
      BY <1>1 DEF Creation
    <3> QED BY <3>1, <3>2
  <2>2. CASE Becomes(c, "failed")
    <3> DEFINE k == [old EXCEPT !.state = "failed"]
    <3>1. creation' = [creation EXCEPT ![c] = k]
      BY <2>2 DEF TypeOK, Becomes
    <3> HIDE DEF old
    <3>2. k \in Creation /\ k.cnpj = old.cnpj /\ k.ownerId = old.ownerId /\ k.state = "failed"
      BY <1>1 DEF Creation
    <3> QED BY <3>1, <3>2
  <2> QED BY <2>1, <2>2 DEF Commit
<1> HIDE DEF old
<1>3. PICK company \in Row, stock \in Row :
        pending[c] = {company, stock} /\ Founds(company, old) /\ Houses(stock, company)
  BY <1>1 DEF Good
<1>4. /\ old.cnpj \in Cnpjs /\ old.ownerId \in Users /\ CompaniesWith(old.cnpj, rows) = {}
      /\ company \in Known /\ stock \in Known /\ rows' = rows \cup {company, stock}
  BY <1>1, <1>3 DEF Good, Known
<1>5. OneByCnpj(rows') /\ OneStockEach(rows')
  BY <1>3, <1>4, CommittedTogether
<1>6. OneById(Known)' /\ EntriesApart'
  <2>1. \A d \in Creations : pending'[d] \subseteq pending[d]
    BY <1>1 DEF TypeOK
  <2>2. rows' \subseteq Known
    BY <1>4 DEF Known
  <2> QED BY <2>1, <2>2, NothingNew
<1>7. OneById(rows') /\ rows' \subseteq Row
  BY <1>1, <1>6 DEF OneById, Known, TypeOK
<1>8. ListingsGood'
  <2>1. OneStockEach(rows) /\ rows \subseteq rows' /\ UNCHANGED listing
    BY <1>1 DEF RowsGood
  <2> QED BY <1>7, <2>1, ListingsStay
<1>9. AuditTrue'
  BY <1>1 DEF AuditTrue
<1>10. CreationsGood'
  <2> SUFFICES ASSUME NEW d \in Creations PROVE Good(creation'[d], pending'[d], rows')
    BY DEF CreationsGood
  <2>1. CASE d = c
    <3>1. creation'[d] = k /\ pending'[d] = {}
      BY <1>1, <1>2, <2>1 DEF TypeOK
    <3>2. Founds(company, k) /\ company \in rows' /\ stock \in rows'
      BY <1>2, <1>3, <1>4 DEF Founds
    <3>3. Good(k, {}, rows')
      BY <1>2, <1>3, <1>4, <3>2 DEF Good
    <3> QED BY <3>1, <3>3
  <2>2. CASE d # c
    <3>1. creation'[d] = creation[d] /\ pending'[d] = pending[d] /\ Good(creation[d], pending[d], rows)
      BY <1>1, <1>2, <2>2 DEF TypeOK, CreationsGood
    <3>2. creation[d].state \in {"stocking", "committing"} => CompaniesWith(creation[d].cnpj, rows') = {}
      <4> SUFFICES ASSUME creation[d].state \in {"stocking", "committing"}
                   PROVE  CompaniesWith(creation[d].cnpj, rows') = {}
        OBVIOUS
      <4>1. PICK other \in pending[d] : Founds(other, creation[d])
        BY <3>1 DEF Good
      <4>2. CompaniesWith(creation[d].cnpj, rows) = {}
        BY <3>1 DEF Good
      <4>3. other.of # company.of
        BY <1>3, <2>2, <4>1 DEF EntriesApart, Founds
      <4> QED BY <1>3, <1>4, <4>1, <4>2, <4>3 DEF CompaniesWith, Founds, Houses
    <3>3. rows \subseteq rows'
      BY <1>4
    <3> QED BY <3>1, <3>2, <3>3, GoodStays
  <2> QED BY <2>1, <2>2
<1>11. TypeOK'
  BY <1>1, <1>2, <1>7 DEF TypeOK
<1> QED BY <1>5, <1>6, <1>8, <1>9, <1>10, <1>11 DEF RowsGood

\* A product is none of the rows companies and stocks are made of.
LEMMA ProductKeeps ==
  ASSUME StoreInv, NEW stock \in rows, NEW createdAt \in 1 .. clock, EnterProduct(stock, createdAt)
  PROVE  StoreInv'
<1> USE DEF StoreInv
<1>1. UNCHANGED <<pending, creation, audited, listing, clock>>
  BY DEF EnterProduct
<1>2. PICK n \in Numbers :
        /\ \A row \in rows : row.id # <<"products", n>>
        /\ rows' = rows \cup {[id |-> <<"products", n>>, of |-> stock.id, owner |-> None,
                              createdAt |-> createdAt]}
  BY DEF EnterProduct
<1> DEFINE new == [id |-> <<"products", n>>, of |-> stock.id, owner |-> None, createdAt |-> createdAt]
<1>3. new \in Row /\ new.id = <<"products", n>> /\ new.id[1] = "products"
  <2>1. createdAt \in 1 .. MaxTime
    BY CompaniesAssumption DEF TypeOK
  <2>2. stock.id \in Ids
    BY DEF TypeOK, Row
  <2> QED BY <2>1, <2>2 DEF Row, Ids, Tables
<1>4. rows' = rows \cup {new}
  BY <1>2
<1> HIDE DEF new
<1>5. ASSUME NEW c \in Creations, NEW row \in pending[c] PROVE row.id[1] # "products"
  BY DEF CreationsGood, Good, Founds, Houses
<1>6. OneById(Known)'
  <2>1. \A row \in Known : row.id # new.id
    BY <1>2, <1>3, <1>5 DEF Known
  <2>2. Known' \subseteq Known \cup {new}
    BY <1>1, <1>4 DEF Known
  <2> QED BY <2>1, <2>2 DEF RowsGood, OneById
<1>7. OneById(rows') /\ rows' \subseteq Row
  BY <1>3, <1>4, <1>6 DEF OneById, Known, TypeOK
<1>8. \A cnpj : CompaniesWith(cnpj, rows') = CompaniesWith(cnpj, rows)
  BY <1>3, <1>4 DEF CompaniesWith
<1>9. OneByCnpj(rows') /\ OneStockEach(rows')
  <2>1. \A id : StocksOf(id, rows') = StocksOf(id, rows)
    BY <1>3, <1>4 DEF StocksOf
  <2>2. OneStockEach(rows')
    BY <1>3, <1>4, <2>1 DEF RowsGood, OneStockEach
  <2> QED BY <1>8, <2>2 DEF RowsGood, OneByCnpj
<1>10. ListingsGood'
  <2>1. OneStockEach(rows) /\ rows \subseteq rows' /\ UNCHANGED listing
    BY <1>1, <1>4 DEF RowsGood
  <2> QED BY <1>7, <2>1, ListingsStay
<1>11. CreationsGood'
  <2> SUFFICES ASSUME NEW c \in Creations PROVE Good(creation[c], pending[c], rows')
    BY <1>1 DEF CreationsGood
  <2>1. Good(creation[c], pending[c], rows) /\ rows \subseteq rows'
    BY <1>4 DEF CreationsGood
  <2>2. creation[c].state \in {"stocking", "committing"} => CompaniesWith(creation[c].cnpj, rows') = {}
    BY <1>8, <2>1 DEF Good
  <2> QED BY <2>1, <2>2, GoodStays
<1>12. AuditTrue' /\ EntriesApart'
  BY <1>1, <1>4 DEF AuditTrue, EntriesApart
<1>13. TypeOK'
  BY <1>1, <1>7 DEF TypeOK
<1> QED BY <1>6, <1>9, <1>10, <1>11, <1>12, <1>13 DEF RowsGood

\* Time passes.
LEMMA TickKeeps ==
  ASSUME StoreInv, Tick
  PROVE  StoreInv'
<1> USE DEF StoreInv
<1>1. UNCHANGED <<rows, pending, creation, audited, listing>> /\ clock' \in 1 .. MaxTime
  BY CompaniesAssumption DEF Tick, TypeOK
<1>2. ListingsGood'
  <2>1. OneStockEach(rows) /\ OneById(rows') /\ rows \subseteq rows' /\ rows' \subseteq Row
    BY <1>1 DEF RowsGood, OneById, Known, TypeOK
  <2> QED BY <1>1, <2>1, ListingsStay
<1>3. RowsGood' /\ CreationsGood' /\ EntriesApart' /\ AuditTrue'
  BY <1>1 DEF RowsGood, Known, CreationsGood, EntriesApart, AuditTrue
<1>4. TypeOK'
  BY <1>1 DEF TypeOK
<1> QED BY <1>2, <1>3, <1>4

-----------------------------------------------------------------------------
(* Listings.                                                               *)

\* What is left to show when a client begins.
LEMMA ListKeeps ==
  ASSUME StoreInv, NEW l \in Listings, NEW table \in Tables, NEW userId \in Users,
         NEW under \in Ids \cup {None}, NEW cursor \in {row.id : row \in rows} \cup {None},
         List(l, table, userId, under, cursor)
  PROVE  StoreInv'
<1> USE DEF StoreInv
<1> DEFINE matching == Matching(table, userId, under)
           nothing  == <<>>
           there    == {row \in matching : \A c \in matching : c.id = cursor => Newer(c, row)}
           q        == [state |-> "between", table |-> table, userId |-> userId, under |-> under,
                        cursor |-> cursor, shown |-> nothing, there |-> there]
<1>1. /\ listing' = [listing EXCEPT ![l] = q]
      /\ UNCHANGED <<rows, pending, creation, audited, clock>>
  BY DEF List
<1>2. nothing = <<>> /\ nothing \in Seq(Row) /\ Len(nothing) = 0 /\ DOMAIN nothing = {}
  OBVIOUS
<1>3. there \subseteq Row /\ \A row \in there : row \in matching /\ Behind(row, cursor, matching)
  <2>1. matching \subseteq Row
    BY MatchingRows DEF TypeOK
  <2> HIDE DEF matching
  <2> QED BY <2>1 DEF Behind
<1>4. cursor \in Ids \cup {None} /\ (cursor = None \/ \E row \in rows : row.id = cursor)
  BY DEF TypeOK, Row
<1> HIDE DEF there, nothing
<1>5. /\ q \in Listing /\ q.state = "between" /\ q.table = table /\ q.userId = userId
      /\ q.under = under /\ q.cursor = cursor /\ q.shown = nothing /\ q.there = there
  BY <1>2, <1>3, <1>4 DEF Listing
<1> HIDE DEF q
<1>6. Walked(q, Matching(q.table, q.userId, q.under), Gate(q.table, q.userId, q.under), rows)
  <2>1. Walked(q, matching, Gate(table, userId, under), rows)
    <3> HIDE DEF matching
    <3> QED BY <1>2, <1>3, <1>4, <1>5 DEF Walked, ToSet
  <2> QED BY <1>5, <2>1
<1> QED BY <1>1, <1>5, <1>6, OneListing

\* A request is admitted, its cursor found, or it fails and is made again.
LEMMA RequestKeeps ==
  ASSUME StoreInv, NEW l \in Listings, Authorize(l) \/ CheckCursor(l) \/ RequestFails(l)
  PROVE  StoreInv'
<1> USE DEF StoreInv
<1> DEFINE old      == listing[l]
           matching == Matching(old.table, old.userId, old.under)
           gate     == Gate(old.table, old.userId, old.under)
<1>1. /\ old \in Listing /\ Walked(old, matching, gate, rows)
      /\ old.state \in {"between", "checking", "paging"}
      /\ UNCHANGED <<rows, pending, creation, audited, clock>>
  BY DEF TypeOK, ListingsGood, WalkedTo, Authorize, CheckCursor, RequestFails, Goto, At
<1>2. PICK state \in {"between", "checking", "paging", "refused"} :
        /\ listing' = [listing EXCEPT ![l].state = state]
        /\ state \in {"checking", "paging"} => gate
  <2>1. CASE Authorize(l)
    BY <2>1 DEF Authorize, Goto
  <2>2. CASE CheckCursor(l)
    BY <1>1, <2>2 DEF CheckCursor, Goto, At, Walked
  <2>3. CASE RequestFails(l)
    BY <2>3 DEF RequestFails, Goto
  <2> QED BY <2>1, <2>2, <2>3
<1> DEFINE q == [old EXCEPT !.state = state]
<1>3. listing' = [listing EXCEPT ![l] = q]
  BY <1>2 DEF TypeOK
<1> HIDE DEF old
<1>4. /\ q \in Listing /\ q.state = state /\ q.table = old.table /\ q.userId = old.userId
      /\ q.under = old.under /\ q.cursor = old.cursor /\ q.shown = old.shown /\ q.there = old.there
  BY <1>1 DEF Listing
<1> HIDE DEF q
<1>5. Walked(q, Matching(q.table, q.userId, q.under), Gate(q.table, q.userId, q.under), rows)
  <2>1. Walked(q, matching, gate, rows)
    <3> HIDE DEF matching, gate
    <3> QED BY <1>1, <1>2, <1>4 DEF Walked
  <2> QED BY <1>4, <2>1
<1> QED BY <1>1, <1>3, <1>4, <1>5, OneListing

\* Newest first, and each once.
InOrder(list) == \A i, j \in 1 .. Len(list) : i < j => Newer(list[i], list[j])

\* A page put behind those before it: what is shown, and its order.
LEMMA PutBehind ==
  ASSUME NEW matching \in SUBSET Row, NEW shown \in Seq(matching), NEW items \in Seq(matching),
         InOrder(shown), InOrder(items),
         shown # <<>> => \A j \in 1 .. Len(items) : Newer(shown[Len(shown)], items[j])
  PROVE  /\ shown \o items \in Seq(matching) /\ Len(shown \o items) = Len(shown) + Len(items)
         /\ InOrder(shown \o items)
         /\ ToSet(shown \o items) = ToSet(shown) \cup ToSet(items)
         /\ Len(items) > 0 => (shown \o items)[Len(shown \o items)] = items[Len(items)]
<1> DEFINE m   == Len(shown)
           n   == Len(items)
           all == shown \o items
<1>1. m \in Nat /\ DOMAIN shown = 1 .. m /\ \A i \in 1 .. m : shown[i] \in matching
  OBVIOUS
<1>2. n \in Nat /\ DOMAIN items = 1 .. n /\ \A i \in 1 .. n : items[i] \in matching
  OBVIOUS
<1>3. /\ all \in Seq(matching) /\ Len(all) = m + n /\ DOMAIN all = 1 .. (m + n)
      /\ \A i \in 1 .. (m + n) : all[i] = IF i <= m THEN shown[i] ELSE items[i - m]
  <2>1. /\ all \in Seq(matching) /\ Len(all) = m + n
        /\ \A i \in 1 .. (m + n) : all[i] = IF i <= m THEN shown[i] ELSE items[i - m]
    BY ConcatProperties
  <2> HIDE DEF m, n, all
  <2>2. DOMAIN all = 1 .. (m + n)
    BY <2>1
  <2> QED BY <2>1, <2>2
<1>4. /\ shown # <<>> <=> m > 0
      /\ \A i, j \in 1 .. m : i < j => Newer(shown[i], shown[j])
  BY <1>1 DEF InOrder
<1>5. /\ \A i, j \in 1 .. n : i < j => Newer(items[i], items[j])
      /\ m > 0 => \A j \in 1 .. n : Newer(shown[m], items[j])
  BY <1>4 DEF InOrder
<1> HIDE DEF m, n, all
<1>6. ASSUME NEW i \in 1 .. Len(all), NEW j \in 1 .. Len(all), i < j
      PROVE  Newer(all[i], all[j])
  <2>1. i \in 1 .. (m + n) /\ j \in 1 .. (m + n)
    BY <1>3
  <2>2. CASE j <= m
    <3>1. i \in 1 .. m /\ j \in 1 .. m /\ all[i] = shown[i] /\ all[j] = shown[j]
      BY <1>1, <1>2, <1>3, <1>6, <2>1, <2>2
    <3> QED BY <1>4, <1>6, <3>1
  <2>3. CASE i > m
    <3> DEFINE a == i - m
               b == j - m
    <3>1. a \in 1 .. n /\ b \in 1 .. n /\ a < b /\ ~(i <= m) /\ ~(j <= m)
      BY <1>1, <1>2, <1>6, <2>1, <2>3
    <3>2. all[i] = items[a] /\ all[j] = items[b]
      BY <1>3, <2>1, <3>1
    <3> HIDE DEF a, b
    <3> QED BY <1>5, <3>1, <3>2
  <2>4. CASE i <= m /\ j > m
    <3> DEFINE b == j - m
    <3>1. i \in 1 .. m /\ m \in 1 .. m /\ b \in 1 .. n /\ ~(j <= m) /\ (i = m \/ i < m) /\ m > 0
      BY <1>1, <1>2, <2>1, <2>4
    <3>2. all[i] = shown[i] /\ all[j] = items[b]
      BY <1>3, <2>1, <2>4, <3>1
    <3> HIDE DEF b
    <3>3. Newer(shown[m], items[b])
      BY <1>5, <3>1
    <3>4. shown[i] \in Row /\ shown[m] \in Row /\ items[b] \in Row
      BY <1>1, <1>2, <3>1
    <3>5. i = m \/ Newer(shown[i], shown[m])
      BY <1>4, <3>1
    <3> QED BY <3>2, <3>3, <3>4, <3>5, NewerThrough
  <2> QED BY <1>1, <1>2, <2>1, <2>2, <2>3, <2>4
<1>7. ToSet(all) = ToSet(shown) \cup ToSet(items)
  <2>1. \A i \in 1 .. (m + n) : all[i] \in ToSet(shown) \cup ToSet(items)
    <3> SUFFICES ASSUME NEW i \in 1 .. (m + n) PROVE all[i] \in ToSet(shown) \cup ToSet(items)
      OBVIOUS
    <3>1. i <= m => i \in DOMAIN shown /\ all[i] = shown[i]
      BY <1>1, <1>2, <1>3
    <3>2. i > m => i - m \in DOMAIN items /\ ~(i <= m)
      BY <1>1, <1>2
    <3>3. i > m => all[i] = items[i - m]
      BY <1>3, <3>2
    <3>4. i <= m \/ i > m
      BY <1>1
    <3> QED BY <3>1, <3>2, <3>3, <3>4 DEF ToSet
  <2>2. \A i \in 1 .. m : shown[i] \in ToSet(all)
    <3> SUFFICES ASSUME NEW i \in 1 .. m PROVE shown[i] \in ToSet(all)
      OBVIOUS
    <3>1. i \in DOMAIN all /\ all[i] = shown[i]
      BY <1>1, <1>2, <1>3
    <3> QED BY <3>1 DEF ToSet
  <2>3. \A i \in 1 .. n : items[i] \in ToSet(all)
    <3> SUFFICES ASSUME NEW i \in 1 .. n PROVE items[i] \in ToSet(all)
      OBVIOUS
    <3>1. m + i \in DOMAIN all /\ all[m + i] = items[i]
      BY <1>1, <1>2, <1>3
    <3> QED BY <3>1 DEF ToSet
  <2>4. ToSet(all) \subseteq ToSet(shown) \cup ToSet(items)
    BY <1>3, <2>1 DEF ToSet
  <2>5. ToSet(shown) \subseteq ToSet(all) /\ ToSet(items) \subseteq ToSet(all)
    BY <1>1, <1>2, <2>2, <2>3 DEF ToSet
  <2> QED BY <2>4, <2>5
<1>8. n > 0 => all[Len(all)] = items[n]
  <2> SUFFICES ASSUME n > 0 PROVE all[m + n] = items[n]
    BY <1>3
  <2>1. m + n \in 1 .. (m + n) /\ ~(m + n <= m) /\ (m + n) - m = n
    BY <1>1, <1>2
  <2> QED BY <1>3, <2>1
<1>9. InOrder(all)
  BY <1>6 DEF InOrder
<1> QED BY <1>3, <1>7, <1>8, <1>9 DEF m, n, all

\* The next page: the rows left to show are on it, or behind its last.
LEMMA PageKeeps ==
  ASSUME StoreInv, NEW l \in Listings, Page(l)
  PROVE  StoreInv'
<1> USE DEF StoreInv
<1> DEFINE old      == listing[l]
           matching == Matching(old.table, old.userId, old.under)
           gate     == Gate(old.table, old.userId, old.under)
           left     == {row \in matching : \A cursor \in matching :
                          cursor.id = old.cursor => Following(row, cursor)}
<1>1. /\ old \in Listing /\ Walked(old, matching, gate, rows) /\ old.state = "paging"
      /\ UNCHANGED <<rows, pending, creation, audited, clock>>
  BY DEF TypeOK, ListingsGood, WalkedTo, Page, At
<1>2. PICK items \in Newest(left) :
        listing' = [listing EXCEPT ![l] = [old EXCEPT
            !.shown = old.shown \o items,
            !.cursor = IF left # ToSet(items) THEN items[Limit].id ELSE old.cursor,
            !.state = IF left # ToSet(items) THEN "between" ELSE "ended"]]
  BY DEF Page
<1>3. matching \subseteq rows /\ matching \in SUBSET Row /\ OneById(rows)
  <2>1. matching \subseteq rows
    BY MatchingRows
  <2> HIDE DEF matching
  <2> QED BY <2>1 DEF TypeOK, RowsGood, OneById, Known
<1>4. left \subseteq matching /\ \A row \in matching : row \in left <=> Behind(row, old.cursor, matching)
  BY DEF Behind, Following
<1> DEFINE more  == left # ToSet(items)
           all   == old.shown \o items
           now   == IF more THEN items[Limit].id ELSE old.cursor
           state == IF more THEN "between" ELSE "ended"
           q     == [old EXCEPT !.shown = all, !.cursor = now, !.state = state]
<1>5. listing' = [listing EXCEPT ![l] = q] /\ all = old.shown \o items
  BY <1>2
<1> HIDE DEF matching, gate, left, old
<1>6. PICK n \in 0 .. Limit : items \in [1 .. n -> left]
  BY <1>2 DEF Newest
<1>7. /\ \A i, j \in 1 .. n : i < j => Newer(items[i], items[j])
      /\ n \in Nat /\ Limit \in Nat /\ Limit > 0 /\ Len(items) = n /\ DOMAIN items = 1 .. n
      /\ \A row \in left \ ToSet(items) : n = Limit /\ \A i \in 1 .. n : Newer(items[i], row)
  BY <1>2, <1>6, CompaniesAssumption DEF Newest
<1>8. old.shown \in Seq(matching)
  <2>1. old.shown \in Seq(Row) /\ ToSet(old.shown) \subseteq matching
    BY <1>1 DEF Listing, Walked
  <2>2. \A i \in 1 .. Len(old.shown) : old.shown[i] \in matching
    BY <2>1 DEF ToSet
  <2> QED BY <2>1, <2>2
<1>9. /\ all \in Seq(matching) /\ Len(all) = Len(old.shown) + n
      /\ \A i, j \in DOMAIN all : i < j => Newer(all[i], all[j])
      /\ ToSet(all) = ToSet(old.shown) \cup ToSet(items)
      /\ n > 0 => all[Len(all)] = items[n]
  <2>1. items \in Seq(matching) /\ Len(items) = n
    BY <1>4, <1>6, <1>7
  <2>2. InOrder(old.shown)
    BY <1>1, <1>8 DEF Walked, InOrder
  <2>3. InOrder(items)
    BY <1>7 DEF InOrder
  <2>4. old.shown # <<>> => \A j \in 1 .. Len(items) : Newer(old.shown[Len(old.shown)], items[j])
    <3> SUFFICES ASSUME old.shown # <<>>, NEW j \in 1 .. n PROVE Newer(old.shown[Len(old.shown)], items[j])
      BY <2>1
    <3>1. old.cursor = old.shown[Len(old.shown)].id
      BY <1>1 DEF Walked
    <3>2. old.shown[Len(old.shown)] \in matching
      BY <1>8
    <3>3. Behind(items[j], old.cursor, matching)
      BY <1>4, <1>6
    <3> QED BY <3>1, <3>2, <3>3 DEF Behind
  <2>5. /\ all \in Seq(matching) /\ Len(all) = Len(old.shown) + Len(items) /\ InOrder(all)
        /\ ToSet(all) = ToSet(old.shown) \cup ToSet(items)
        /\ Len(items) > 0 => all[Len(all)] = items[Len(items)]
    BY <1>3, <1>8, <2>1, <2>2, <2>3, <2>4, PutBehind
  <2> HIDE DEF all
  <2>6. DOMAIN all = 1 .. Len(all)
    BY <2>5
  <2> QED BY <2>1, <2>5, <2>6 DEF InOrder
<1> HIDE DEF all
<1>10. ToSet(items) \subseteq left
  BY <1>6, <1>7 DEF ToSet
<1>11. more => n = Limit /\ n > 0 /\ items[Limit] \in matching /\ all[Len(all)] = items[Limit]
  <2> SUFFICES ASSUME more
               PROVE  n = Limit /\ n > 0 /\ items[Limit] \in matching /\ all[Len(all)] = items[Limit]
    OBVIOUS
  <2>1. n = Limit /\ n > 0
    BY <1>7, <1>10
  <2>2. items[n] \in matching
    BY <1>4, <1>6, <1>7, <2>1
  <2> QED BY <1>9, <2>1, <2>2
<1>12. now \in Ids \cup {None} /\ (now = None \/ \E row \in rows : row.id = now)
  <2>1. old.cursor \in Ids \cup {None} /\ (old.cursor = None \/ \E row \in rows : row.id = old.cursor)
    BY <1>1 DEF Listing, Walked
  <2>2. more => items[Limit] \in rows /\ items[Limit].id \in Ids
    BY <1>3, <1>11 DEF Row
  <2> QED BY <2>1, <2>2
<1>13. more => \A row \in left \ ToSet(items) : Behind(row, now, matching)
  <2> SUFFICES ASSUME more, NEW row \in left \ ToSet(items), NEW c \in matching, c.id = now
               PROVE  Newer(c, row)
    BY DEF Behind
  <2>1. c = items[Limit]
    BY <1>3, <1>11 DEF OneById
  <2> QED BY <1>7, <1>11, <2>1
<1>14. state \in {"between", "ended"} /\ (state = "between" <=> more)
  OBVIOUS
<1>15. all \in Seq(Row)
  BY <1>3, <1>9
<1>16. all # <<>> => Len(all) > 0
  BY <1>9
<1>17. ToSet(all) \subseteq matching /\ ToSet(items) \subseteq ToSet(all) /\ ToSet(old.shown) \subseteq ToSet(all)
  BY <1>1, <1>4, <1>9, <1>10 DEF Walked
<1>18. more => now = all[Len(all)].id
  BY <1>11
<1>19. ~more => left \subseteq ToSet(items)
  OBVIOUS
<1> HIDE DEF more, now, state
<1>20. /\ q \in Listing /\ q.state = state /\ q.table = old.table /\ q.userId = old.userId
       /\ q.under = old.under /\ q.cursor = now /\ q.shown = all /\ q.there = old.there
  BY <1>1, <1>12, <1>14, <1>15 DEF Listing
<1> HIDE DEF q
<1>21. gate /\ \A row \in old.there :
         row \in matching /\ (row \in ToSet(old.shown) \/ Behind(row, old.cursor, matching))
  BY <1>1 DEF Walked
<1>22. more => \A row \in old.there :
         row \in matching /\ (row \in ToSet(all) \/ Behind(row, now, matching))
  BY <1>4, <1>13, <1>17, <1>21
<1>23. ~more => old.there \subseteq ToSet(all)
  BY <1>4, <1>17, <1>19, <1>21
<1>24. Walked(q, matching, gate, rows)
  BY <1>9, <1>12, <1>14, <1>17, <1>18, <1>20, <1>21, <1>22, <1>23 DEF Walked
<1>25. Walked(q, Matching(q.table, q.userId, q.under), Gate(q.table, q.userId, q.under), rows)
  BY <1>20, <1>24 DEF matching, gate
<1> QED BY <1>1, <1>5, <1>20, <1>25, OneListing

-----------------------------------------------------------------------------
(* The invariant and what follows from it.                                 *)

\* Nobody has asked for anything yet.
LEMMA StoreStarts ==
  Init => StoreInv
<1> SUFFICES ASSUME Init PROVE StoreInv
  OBVIOUS
<1> DEFINE nothing == <<>>
<1>1. /\ rows = InitialRows /\ pending = [c \in Creations |-> {}]
      /\ creation = [c \in Creations |-> NoCreation] /\ audited = {} /\ clock = 1
      /\ listing = [l \in Listings |-> NoListing]
  BY DEF Init
<1>2. NoCreation \in Creation /\ NoCreation.state = "idle"
  BY DEF NoCreation, Creation
<1>3. nothing = <<>> /\ nothing \in Seq(Row) /\ DOMAIN nothing = {}
  OBVIOUS
<1>4. NoListing = [state |-> "idle", table |-> "companies", userId |-> None, under |-> None,
                   cursor |-> None, shown |-> nothing, there |-> {}]
  BY DEF NoListing
<1> HIDE DEF nothing
<1>5. NoListing \in Listing /\ NoListing.state = "idle" /\ NoListing.cursor = None /\ NoListing.shown = nothing
  BY <1>3, <1>4 DEF Listing, Tables
<1>6. TypeOK
  <2>1. 1 \in 1 .. MaxTime
    BY CompaniesAssumption
  <2> QED BY <1>1, <1>2, <1>5, <2>1, CompaniesAssumption DEF TypeOK
<1>7. RowsGood
  <2>1. Known = InitialRows
    BY <1>1 DEF Known
  <2> QED BY <1>1, <2>1, CompaniesAssumption DEF RowsGood
<1>8. CreationsGood
  <2>1. Good(NoCreation, {}, rows)
    BY <1>2 DEF Good
  <2> QED BY <1>1, <2>1 DEF CreationsGood
<1>9. EntriesApart /\ AuditTrue
  BY <1>1 DEF EntriesApart, AuditTrue
<1>10. ListingsGood
  <2>1. \A matching, gate, table : Walked(NoListing, matching, gate, table)
    BY <1>3, <1>5 DEF Walked, ToSet
  <2> QED BY <1>1, <2>1 DEF ListingsGood, WalkedTo
<1> QED BY <1>6, <1>7, <1>8, <1>9, <1>10 DEF StoreInv

\* Every step keeps the invariant.
LEMMA StepsKeep ==
  StoreInv /\ [Next]_vars => StoreInv'
<1> SUFFICES ASSUME StoreInv, [Next]_vars PROVE StoreInv'
  OBVIOUS
<1>1. ASSUME NEW c \in Creations, NEW written \in Writings, NEW ownerId \in Users, Create(c, written, ownerId)
      PROVE  StoreInv'
  BY <1>1, CreateKeeps
<1>2. ASSUME NEW c \in Creations, CreateCompany(c) PROVE StoreInv'
  BY <1>2, CreateCompanyKeeps
<1>3. ASSUME NEW c \in Creations, UniqueViolation(c) \/ CreationFails(c) PROVE StoreInv'
  BY <1>3, RefusalKeeps
<1>4. ASSUME NEW c \in Creations, CreateStock(c) PROVE StoreInv'
  BY <1>4, CreateStockKeeps
<1>5. ASSUME NEW c \in Creations, Commit(c) PROVE StoreInv'
  BY <1>5, CommitKeeps
<1>6. ASSUME NEW c \in Creations, AuditCompanyCreated(c) PROVE StoreInv'
  BY <1>6, AuditKeeps
<1>7. ASSUME NEW stock \in {row \in rows : row.id[1] = "stocks"}, NEW createdAt \in 1 .. clock,
             EnterProduct(stock, createdAt)
      PROVE  StoreInv'
  BY <1>7, ProductKeeps
<1>8. CASE Tick
  BY <1>8, TickKeeps
<1>9. ASSUME NEW l \in Listings, NEW userId \in Users, NEW cursor \in {row.id : row \in rows} \cup {None},
             \/ ListCompanies(l, userId, cursor)
             \/ \E row \in rows : \/ ListCompanyStocks(l, userId, row.id, cursor)
                                  \/ ListProducts(l, userId, row.id, cursor)
      PROVE  StoreInv'
  <2>1. "companies" \in Tables /\ "stocks" \in Tables /\ "products" \in Tables
    BY DEF Tables
  <2>2. \A row \in rows : row.id \in Ids \cup {None}
    BY DEF StoreInv, TypeOK, Row
  <2>3. PICK table \in Tables, under \in Ids \cup {None} : List(l, table, userId, under, cursor)
    BY <1>9, <2>1, <2>2 DEF ListCompanies, ListCompanyStocks, ListProducts
  <2> QED BY <2>3, ListKeeps
<1>10. ASSUME NEW l \in Listings, Authorize(l) \/ CheckCursor(l) \/ RequestFails(l) PROVE StoreInv'
  BY <1>10, RequestKeeps
<1>11. ASSUME NEW l \in Listings, Page(l) PROVE StoreInv'
  BY <1>11, PageKeeps
<1>12. CASE UNCHANGED vars
  <2> USE DEF StoreInv
  <2>1. UNCHANGED <<rows, pending, creation, audited, listing, clock>>
    BY <1>12 DEF vars
  <2>2. ListingsGood'
    <3>1. OneStockEach(rows) /\ OneById(rows') /\ rows \subseteq rows' /\ rows' \subseteq Row
      BY <2>1 DEF RowsGood, OneById, Known, TypeOK
    <3> QED BY <2>1, <3>1, ListingsStay
  <2>3. RowsGood' /\ CreationsGood' /\ EntriesApart' /\ AuditTrue'
    BY <2>1 DEF RowsGood, Known, CreationsGood, EntriesApart, AuditTrue
  <2>4. TypeOK'
    BY <2>1 DEF TypeOK
  <2> QED BY <2>2, <2>3, <2>4
<1> QED BY <1>1, <1>2, <1>3, <1>4, <1>5, <1>6, <1>7, <1>8, <1>9, <1>10, <1>11, <1>12 DEF Next, Finished

\* The invariant is one: however creations race, fail or lose their answer, and
\* whatever is committed while clients walk through the listings.
THEOREM StoreInvariant == Spec => []StoreInv
<1>1. Init => StoreInv
  BY StoreStarts
<1>2. StoreInv /\ [Next]_vars => StoreInv'
  BY StepsKeep
<1> QED BY <1>1, <1>2, PTL DEF Spec

\* However creations of a CNPJ race, fail or lose their answer, it is one company, with
\* its one default stock; success is reported of what is there, a conflict only of a
\* CNPJ that is taken, and the audit log names what is there.
THEOREM CompaniesSafe == Spec => []CompaniesInv
<1>1. StoreInv => CompaniesInv
  <2> SUFFICES ASSUME StoreInv PROVE CompaniesInv
    OBVIOUS
  <2>1. CreationsTold
    <3> SUFFICES ASSUME NEW c \in Creations
                 PROVE  /\ creation[c].state \in {"auditing", "created"} =>
                             \E row \in CompaniesWith(creation[c].cnpj, rows) :
                               row.owner = creation[c].ownerId /\ row \in creation[c].made
                        /\ creation[c].state = "conflict" => CompaniesWith(creation[c].cnpj, rows) # {}
      BY DEF CreationsTold, Is
    <3> DEFINE k == creation[c]
    <3>1. Good(k, pending[c], rows)
      BY DEF StoreInv, CreationsGood
    <3> HIDE DEF k
    <3>2. ASSUME k.state \in {"auditing", "created"}
          PROVE  \E row \in CompaniesWith(k.cnpj, rows) : row.owner = k.ownerId /\ row \in k.made
      BY <3>1, <3>2 DEF Good, Founds, CompaniesWith
    <3>3. k.state = "conflict" => CompaniesWith(k.cnpj, rows) # {}
      BY <3>1 DEF Good
    <3> QED BY <3>2, <3>3 DEF k
  <2> QED BY <2>1 DEF StoreInv, RowsGood, CompaniesInv
<1> QED BY <1>1, StoreInvariant, PTL

\* A client that walks through a listing is shown, newest first and once each, what it
\* may see, and at the end every row that was left to show when it began.
THEOREM ListedOnceAlways == Spec => []ListedOnce
<1>1. StoreInv => ListedOnce
  <2> SUFFICES ASSUME StoreInv, NEW l \in Listings
               PROVE  LET shown == listing[l].shown
                      IN /\ \A i, j \in DOMAIN shown : i < j => Newer(shown[i], shown[j])
                         /\ ToSet(shown) \subseteq Matching(listing[l].table, listing[l].userId, listing[l].under)
                         /\ shown # <<>> => Gate(listing[l].table, listing[l].userId, listing[l].under)
                         /\ At(l, "ended") => listing[l].there \subseteq ToSet(shown)
    BY DEF ListedOnce
  <2>1. WalkedTo(l)
    BY DEF StoreInv, ListingsGood
  <2> QED BY <2>1 DEF WalkedTo, Walked, At
<1> QED BY <1>1, StoreInvariant, PTL

=============================================================================
