---------------------------- MODULE StockAmounts ----------------------------
(***************************************************************************)
(* The figures of one product of one stock: quantity, unit price and total *)
(* as invoices and decisions on suggestions enter it, the checks that the  *)
(* figures of an invoice pass first, the rounding of every column, and the *)
(* figures before and after that the audit log is told. Which entries are  *)
(* accepted, and that each enters once, is in StockStore; here code, origin*)
(* and unit always match.                                                  *)
(*                                                                         *)
(* An amount as received has a finer grain than the columns it ends in:    *)
(*              received     column                                        *)
(*   quantity   0.00001      0.0001  Decimal(12, 4)                        *)
(*   unitPrice  0.001        0.01    Decimal(12, 2)                        *)
(*   totalPrice 0.01         0.01    Decimal(12, 2)                        *)
(* Every amount is an integer in its own grain. That a column overflows    *)
(* its twelve digits is one of the failures of a statement.                *)
(***************************************************************************)
EXTENDS Integers, Sequences

CONSTANTS
  Processes,  \* uploads and decisions
  Invoices,   \* Bound: the lines of this product on an invoice, and its total
  Absent,     \* no row
  Null        \* what a division by NULLIF(0, 0) makes of a mandatory column

Amount == [quantity : Nat, unitPrice : Nat, totalPrice : Nat]
Row == [quantity : Nat, unitPrice : Nat, totalPrice : Nat]

ASSUME AmountsAssumption ==
  /\ \A v \in Invoices : /\ v.lines \in Seq(Amount) /\ v.lines # <<>>
                         /\ v.totalValue \in Nat
  /\ Absent \notin Row /\ Null \notin Row \cup {Absent}

VARIABLES
  product,   \* the row, or Absent
  process,   \* what each process has got to
  log,       \* rows of the audit log about this product
  states,    \* History: the row after each entry
  books      \* History: what the entries were worth
vars == <<product, process, log, states, books>>

Stages == {"idle", "matching", "persisting", "rejecting", "auditing", "done", "failed"}

Idle == [stage |-> "idle", lines |-> <<>>, previous |-> Absent, seenAt |-> 0, base |-> 0,
         line |-> 0]

Init ==
  /\ product = Absent
  /\ process = [p \in Processes |-> Idle]
  /\ log = {}
  /\ states = <<>>
  /\ books = [worth |-> 0, declared |-> 0, allowance |-> 0]

-----------------------------------------------------------------------------
(* Half a grain is rounded up.                                             *)

Round(n, grain) == (n + grain \div 2) \div grain
RoundRatio(n, d) == (2 * n + d) \div (2 * d)

Larger(m, n) == IF m >= n THEN m ELSE n
Distance(m, n) == IF m >= n THEN m - n ELSE n - m

-----------------------------------------------------------------------------
(* What the figures of an invoice must satisfy, in 0.00000001.             *)

Tolerance == 2 * 1000000

ItemCoherent(a) ==
  LET expected == a.quantity * a.unitPrice
  IN  Distance(expected, a.totalPrice * 1000000) <= Larger(Tolerance, expected \div 100)

ItemsTotal(lines) ==
  LET sum[i \in 0 .. Len(lines)] == IF i = 0 THEN 0 ELSE sum[i - 1] + lines[i].totalPrice
  IN  sum[Len(lines)]

Sound(v) ==
  /\ \A i \in DOMAIN v.lines :
       /\ v.lines[i].quantity > 0 /\ v.lines[i].unitPrice > 0 /\ v.lines[i].totalPrice > 0
       /\ ItemCoherent(v.lines[i])
  /\ ItemsTotal(v.lines) <= v.totalValue + 2

-----------------------------------------------------------------------------
(* The weighted entry.                                                     *)

Column(a) == [quantity |-> Round(a.quantity, 10), unitPrice |-> Round(a.unitPrice, 10)]

\* The first total is rounded from the factors as received.
Inserted(a) ==
  [quantity |-> Column(a).quantity, unitPrice |-> Column(a).unitPrice,
   totalPrice |-> Round(a.quantity * a.unitPrice, 1000000)]

Accumulated_FaultyLastPrice(row, a) ==
  LET quantity == row.quantity + Column(a).quantity
  IN  IF quantity = 0 THEN Null
      ELSE [quantity |-> quantity, unitPrice |-> Column(a).unitPrice,
            totalPrice |-> Round(quantity * Column(a).unitPrice, 10000)]

Accumulated(row, a) ==
  LET quantity == row.quantity + Column(a).quantity
      price == RoundRatio(row.quantity * row.unitPrice
                            + Column(a).quantity * Column(a).unitPrice, quantity)
  IN  IF quantity = 0 THEN Null
      ELSE [quantity |-> quantity, unitPrice |-> price,
            totalPrice |-> Round(quantity * price, 10000)]

Entered(row, a) ==
  CASE row = Null -> Null
    [] row = Absent -> Inserted(a)
    [] OTHER -> Accumulated(row, a)

\* The row after each line of one transaction, which keeps its lock.
Results(lines) ==
  LET after[i \in 0 .. Len(lines)] ==
        IF i = 0 THEN product ELSE Entered(after[i - 1], lines[i])
  IN  [i \in 1 .. Len(lines) |-> after[i]]

-----------------------------------------------------------------------------
Becomes(p, changes) == process' = [process EXCEPT ![p] = changes]

Fails(p) ==
  /\ process[p].stage \in {"matching", "persisting", "rejecting"}
  /\ Becomes(p, [process[p] EXCEPT !.stage = "failed"])
  /\ UNCHANGED <<product, log, states, books>>

\* The checks, then findByStockId, whose rows are kept for the audit.
Extract(p) ==
  /\ process[p].stage = "idle"
  /\ \E v \in Invoices :
       Becomes(p, IF Sound(v)
                  THEN [Idle EXCEPT !.stage = "matching", !.lines = v.lines,
                                    !.previous = product, !.seenAt = Len(states)]
                  ELSE [Idle EXCEPT !.stage = "failed"])
  /\ UNCHANGED <<product, log, states, books>>

\* The figures of a product that an invoice is about to create, as received.
Planned(a) == [planned |-> a]

FindByCode_FaultySnapshotOnly(p) ==
  /\ process[p].stage = "matching"
  /\ Becomes(p, [process[p] EXCEPT !.stage = "persisting", !.seenAt = Len(states)])
  /\ UNCHANGED <<product, log, states, books>>

\* After the calls of the AI: a code the catalog lacked is looked for again. A
\* second line of the code finds what the first is about to create, and keeps
\* that as the state before.
FindByCode(p) ==
  LET q == process[p] IN
  /\ q.stage = "matching"
  /\ Becomes(p, IF q.previous # Absent THEN [q EXCEPT !.stage = "persisting"]
                ELSE [q EXCEPT !.stage = "persisting", !.seenAt = Len(states),
                               !.previous = IF product = Absent /\ Len(q.lines) > 1
                                            THEN Planned(q.lines[1]) ELSE product])
  /\ UNCHANGED <<product, log, states, books>>

\* The figures of a suggestion, rounded when it was made.
Received(a) == [a EXCEPT !.quantity = 10 * Column(a).quantity,
                         !.unitPrice = 10 * Column(a).unitPrice]

\* A decision on a line of an invoice accepted before. Confirming reads the
\* suggested product, without a lock, in the transaction that then enters it.
Decide(p) ==
  /\ process[p].stage = "idle"
  /\ \E v \in Invoices :
       /\ Sound(v)
       /\ LET q == [Idle EXCEPT !.lines = <<Received(v.lines[1])>>, !.previous = product,
                                !.seenAt = Len(states)]
          IN  \/ product # Absent /\ Becomes(p, [q EXCEPT !.stage = "persisting"])
              \/ Becomes(p, [q EXCEPT !.stage = "rejecting", !.previous = Absent])
  /\ UNCHANGED <<product, log, states, books>>

-----------------------------------------------------------------------------
(* The books, kept beside the code in 0.000001: what the columns of the    *)
(* entries are worth, what the invoices declared, and twice how far their  *)
(* lines may be from the columns by the tolerance and by rounding.         *)

Allowance(a) ==
  Larger(Tolerance, (a.quantity * a.unitPrice) \div 100) \div 50
    + Column(a).unitPrice + Column(a).quantity + 4

Sum(lines, f(_)) ==
  LET sum[i \in 0 .. Len(lines)] == IF i = 0 THEN 0 ELSE sum[i - 1] + f(lines[i])
  IN  sum[Len(lines)]

Booked(lines) ==
  [worth     |-> books.worth
                   + Sum(lines, LAMBDA a : Column(a).quantity * Column(a).unitPrice),
   declared  |-> books.declared + Sum(lines, LAMBDA a : a.totalPrice * 10000),
   allowance |-> books.allowance + Sum(lines, Allowance)]

Commits(p, rows) ==
  /\ product' = rows[Len(rows)]
  /\ states' = states \o rows
  /\ books' = Booked(process[p].lines)
  /\ Becomes(p, [process[p] EXCEPT !.stage = "auditing", !.base = Len(states), !.line = 1])
  /\ UNCHANGED log

Persist(p) ==
  LET rows == Results(process[p].lines) IN
  /\ process[p].stage = "persisting"
  /\ \A i \in DOMAIN rows : rows[i] # Null
  /\ Commits(p, rows)

\* A statement that writes NULL takes the transaction back.
PersistNull(p) ==
  /\ process[p].stage = "persisting"
  /\ \E i \in 1 .. Len(process[p].lines) : Results(process[p].lines)[i] = Null
  /\ Fails(p)

\* insertNewProductEntry; a code that is taken is a conflict.
Insert(p) ==
  /\ process[p].stage = "rejecting"
  /\ product = Absent
  /\ Commits(p, Results(process[p].lines))

\* What the audit log is told: an entry is an update if something was there.
Event(p, next) ==
  LET q == process[p] IN
  [action |-> IF q.previous = Absent THEN "CREATE" ELSE "UPDATE",
   process |-> p, line |-> q.line, previous |-> q.previous, next |-> next]

\* assertAuditLogWrite: the figures an event may carry depend on its action.
Writable(event) ==
  CASE event.action = "CREATE" -> event.previous = Absent
    [] event.action = "UPDATE" -> TRUE

\* PrismaAuditLogRepository.create
CreateAuditLog(event) == Writable(event) /\ log' = log \cup {event}

\* One row for each entry, or none if it cannot be written; what it left is what
\* the next entry of the code is told to have found.
Audit(p) ==
  LET q == process[p]
      next == states[q.base + q.line]
  IN
  /\ q.stage = "auditing"
  /\ \/ UNCHANGED log
     \/ CreateAuditLog(Event(p, next))
  /\ Becomes(p, IF q.line = Len(q.lines) THEN [q EXCEPT !.stage = "done"]
                ELSE [q EXCEPT !.line = @ + 1, !.previous = next])
  /\ UNCHANGED <<product, states, books>>

Next ==
  \E p \in Processes :
    \/ Extract(p) \/ FindByCode(p) \/ Decide(p)
    \/ Persist(p) \/ PersistNull(p) \/ Insert(p)
    \/ Audit(p)
    \/ Fails(p)

Spec == Init /\ [][Next]_vars

-----------------------------------------------------------------------------
TypeOK ==
  /\ product \in Row \cup {Absent}
  /\ process \in [Processes -> [stage : Stages, lines : Seq(Amount),
                                previous : Row \cup {Absent} \cup [planned : Amount],
                                seenAt : Nat, base : Nat, line : Nat]]
  /\ states \in Seq(Row)
  /\ books \in [worth : Nat, declared : Nat, allowance : Nat]

(***************************************************************************)
(* However invoices and decisions interleave, and however often the price  *)
(* is averaged and rounded, the product is worth what has entered it: each *)
(* entry after the first moves quantity times price by half a cent a unit  *)
(* at most, and the total is that product to half a cent. It is hence also *)
(* worth what the invoices declared, within their tolerance of one percent *)
(* or two cents a line (the two ROUNDs of the ON CONFLICT clause;          *)
(* assertDanfeCoherence).                                                  *)
(***************************************************************************)
WorthKept ==
  product # Absent =>
    LET value == product.quantity * product.unitPrice
        drift == (Len(states) - 1) * product.quantity
    IN  /\ 2 * Distance(value, books.worth) <= drift
        /\ 2 * Distance(value, books.declared) <= drift + books.allowance
        /\ Len(states) > 1 => 2 * Distance(product.totalPrice * 10000, value) <= 10000

AmountsInv == TypeOK /\ WorthKept

(***************************************************************************)
(* An audit row tells the figures its entry left; the figures it tells to  *)
(* have been before are those the entry found, if nothing was committed    *)
(* between the reading and the entry, and always from the second line of   *)
(* an invoice on. (A code an invoice creates and repeats is the exception: *)
(* the first of its rows shows the figures of the invoice as a state       *)
(* before.)                                                                *)
(***************************************************************************)
AuditTells ==
  \A e \in log :
    LET q == process[e.process]
        k == q.base + e.line
    IN  /\ e.next = states[k]
        /\ e.line > 1 \/ (q.seenAt = q.base /\ ~(q.base = 0 /\ Len(q.lines) > 1))
             => e.previous = (IF k = 1 THEN Absent ELSE states[k - 1])
=============================================================================
