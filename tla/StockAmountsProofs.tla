------------------------- MODULE StockAmountsProofs -------------------------
(***************************************************************************)
(* Proofs about StockAmounts for any processes, any invoices and any       *)
(* amounts.                                                                *)
(***************************************************************************)
EXTENDS StockAmounts, SequenceTheorems, WellFoundedInduction, TLAPS

-----------------------------------------------------------------------------
(* Rounding.                                                               *)

\* A quotient is within its remainder.
LEMMA Quotient ==
  ASSUME NEW n \in Nat, NEW d \in Nat \ {0}
  PROVE  /\ n \div d \in Nat
         /\ d * (n \div d) <= n
         /\ n < d * (n \div d) + d
OBVIOUS

\* Half a grain is rounded up: what is rounded is nearer than half a grain, or half
\* a grain below.
LEMMA RoundNear ==
  ASSUME NEW n \in Nat, NEW grain \in Nat \ {0}, grain = 2 * (grain \div 2)
  PROVE  /\ Round(n, grain) \in Nat
         /\ grain * Round(n, grain) <= n + grain \div 2
         /\ n < grain * Round(n, grain) + grain \div 2
<1> DEFINE half == grain \div 2
           r == Round(n, grain)
           m == grain * r
<1>1. half \in Nat /\ n + half \in Nat
  OBVIOUS
<1>2. r \in Nat /\ grain * r <= n + half /\ n + half < grain * r + grain
  BY <1>1, Quotient DEF Round
<1>3. m \in Nat
  BY <1>2
<1>4. grain = 2 * half
  OBVIOUS
<1> HIDE DEF r, m, half
<1>5. m <= n + half /\ n < m + half
  BY <1>1, <1>2, <1>3, <1>4 DEF m
<1> QED BY <1>2, <1>5 DEF r, m, half

\* So is a mean: of the denominator, it is off by half at most.
LEMMA MeanNear ==
  ASSUME NEW n \in Nat, NEW d \in Nat \ {0}
  PROVE  /\ RoundRatio(n, d) \in Nat
         /\ 2 * Distance(d * RoundRatio(n, d), n) <= d
<1> DEFINE r == RoundRatio(n, d)
           m == d * r
<1>1. 2 * n + d \in Nat /\ 2 * d \in Nat \ {0}
  OBVIOUS
<1>2. /\ r \in Nat
      /\ (2 * d) * r <= 2 * n + d
      /\ 2 * n + d < (2 * d) * r + 2 * d
  BY <1>1, Quotient DEF RoundRatio
<1>3. m \in Nat /\ (2 * d) * r = 2 * m
  BY <1>2
<1> HIDE DEF m, r
<1>4. 2 * m <= 2 * n + d /\ 2 * n + d < 2 * m + 2 * d
  BY <1>2, <1>3
<1>5. 2 * Distance(m, n) <= d
  BY <1>3, <1>4 DEF Distance
<1> QED BY <1>2, <1>5 DEF m, r

-----------------------------------------------------------------------------
(* A line and the columns it ends in.                                      *)

\* What is received is within half a grain of the columns.
LEMMA ColumnNear ==
  ASSUME NEW a \in Amount
  PROVE  /\ Column(a).quantity \in Nat /\ Column(a).unitPrice \in Nat
         /\ 10 * Column(a).quantity <= a.quantity + 5
         /\ a.quantity < 10 * Column(a).quantity + 5
         /\ 10 * Column(a).unitPrice <= a.unitPrice + 5
         /\ a.unitPrice < 10 * Column(a).unitPrice + 5
<1>1. a.quantity \in Nat /\ a.unitPrice \in Nat
  BY DEF Amount
<1>2. Column(a).quantity = Round(a.quantity, 10) /\ Column(a).unitPrice = Round(a.unitPrice, 10)
  BY DEF Column
<1>3. 10 \in Nat \ {0} /\ 10 = 2 * (10 \div 2) /\ 10 \div 2 = 5
  OBVIOUS
<1>4. /\ Round(a.quantity, 10) \in Nat
      /\ 10 * Round(a.quantity, 10) <= a.quantity + 5
      /\ a.quantity < 10 * Round(a.quantity, 10) + 5
  BY <1>1, <1>3, RoundNear
<1>5. /\ Round(a.unitPrice, 10) \in Nat
      /\ 10 * Round(a.unitPrice, 10) <= a.unitPrice + 5
      /\ a.unitPrice < 10 * Round(a.unitPrice, 10) + 5
  BY <1>1, <1>3, RoundNear
<1> QED BY <1>1, <1>2, <1>4, <1>5

\* A product of what is received is near the product of the columns.
LEMMA ProductNear ==
  ASSUME NEW x \in Nat, NEW y \in Nat, NEW q \in Nat, NEW p \in Nat,
         10 * q <= x + 5, x < 10 * q + 5, 10 * p <= y + 5, y < 10 * p + 5
  PROVE  /\ 100 * (q * p) <= x * y + 50 * (q + p) + 25
         /\ x * y <= 100 * (q * p) + 40 * (q + p) + 25
<1> DEFINE e == x - 10 * q
           f == y - 10 * p
<1>1. e \in -5 .. 4 /\ f \in -5 .. 4
  OBVIOUS
<1>2. x * y = 100 * (q * p) + 10 * (q * f) + 10 * (p * e) + e * f
  OBVIOUS
<1> HIDE DEF e, f
<1>3. ASSUME NEW n \in Nat, NEW g \in -5 .. 4
      PROVE  n * g \in Int /\ -5 * n <= n * g /\ n * g <= 4 * n
  BY <1>3
<1>4. q * f \in Int /\ -5 * q <= q * f /\ q * f <= 4 * q
  BY <1>1, <1>3
<1>5. p * e \in Int /\ -5 * p <= p * e /\ p * e <= 4 * p
  BY <1>1, <1>3
<1>6. e * f \in Int /\ -25 <= e * f /\ e * f <= 25
  BY <1>1
<1>7. x * y \in Nat /\ q * p \in Nat
  OBVIOUS
<1> QED BY <1>2, <1>4, <1>5, <1>6, <1>7

\* The columns of a line are worth what the invoice declares, within its allowance.
Coherent(a) ==
  2 * Distance(Column(a).quantity * Column(a).unitPrice, a.totalPrice * 10000) <= Allowance(a)

\* The columns of a line that passes the check per item (danfe-coherence.ts) are coherent.
LEMMA LineCoherent ==
  ASSUME NEW a \in Amount, ItemCoherent(a)
  PROVE  Coherent(a)
<1> DEFINE q == Column(a).quantity
           p == Column(a).unitPrice
           x == a.quantity
           y == a.unitPrice
           t == a.totalPrice
           product1 == x * y
           value == q * p
           limit == Larger(Tolerance, product1 \div 100)
<1>1. q \in Nat /\ p \in Nat /\ x \in Nat /\ y \in Nat /\ t \in Nat
  BY ColumnNear DEF Amount
<1>2. 100 * value <= product1 + 50 * (q + p) + 25 /\ product1 <= 100 * value + 40 * (q + p) + 25
  BY <1>1, ColumnNear, ProductNear
<1>3. product1 \in Nat /\ value \in Nat
  BY <1>1
<1>4. Distance(product1, t * 1000000) <= limit
  BY DEF ItemCoherent
<1>5. Allowance(a) = (limit \div 50) + p + q + 4
  BY DEF Allowance
<1>6. limit \in Nat
  BY <1>3 DEF Larger, Tolerance
<1> HIDE DEF q, p, x, y, t, product1, value, limit
<1>7. limit \div 50 \in Nat /\ limit < 50 * (limit \div 50) + 50
  BY <1>6
<1>8. /\ product1 - t * 1000000 <= limit /\ t * 1000000 - product1 <= limit
      /\ t * 1000000 \in Nat
  BY <1>1, <1>3, <1>4, <1>6 DEF Distance
<1>9. /\ 2 * (value - t * 10000) <= (limit \div 50) + p + q + 4
      /\ 2 * (t * 10000 - value) <= (limit \div 50) + p + q + 4
  BY <1>1, <1>2, <1>3, <1>6, <1>7, <1>8
<1>10. 2 * Distance(value, t * 10000) <= Allowance(a)
  BY <1>1, <1>3, <1>5, <1>9 DEF Distance
<1> QED BY <1>10 DEF Coherent, value, q, p, t

\* The figures of a suggestion are rounded, and stay coherent.
LEMMA ReceivedCoherent ==
  ASSUME NEW a \in Amount, ItemCoherent(a)
  PROVE  Received(a) \in Amount /\ Coherent(Received(a))
<1> DEFINE q == Column(a).quantity
           p == Column(a).unitPrice
           x == a.quantity
           y == a.unitPrice
           t == a.totalPrice
           b == Received(a)
           product1 == x * y
           value == q * p
           limit == Larger(Tolerance, product1 \div 100)
           limit2 == Larger(Tolerance, ((10 * q) * (10 * p)) \div 100)
<1>1. q \in Nat /\ p \in Nat /\ x \in Nat /\ y \in Nat /\ t \in Nat
  BY ColumnNear DEF Amount
<1>2. 100 * value <= product1 + 50 * (q + p) + 25 /\ product1 <= 100 * value + 40 * (q + p) + 25
  BY <1>1, ColumnNear, ProductNear
<1>3. product1 \in Nat /\ value \in Nat
  BY <1>1
<1>4. Distance(product1, t * 1000000) <= limit
  BY DEF ItemCoherent
<1>5. /\ b \in Amount /\ b.quantity = 10 * q /\ b.unitPrice = 10 * p /\ b.totalPrice = t
  <2>1. 10 * q \in Nat /\ 10 * p \in Nat
    BY <1>1
  <2>2. PICK m \in Nat, n \in Nat : m = 10 * q /\ n = 10 * p
    BY <2>1
  <2>3. b = [a EXCEPT !.quantity = m, !.unitPrice = n]
    BY <2>2, Zenon DEF Received
  <2> HIDE DEF b, q, p
  <2>4. b \in Amount /\ b.quantity = m /\ b.unitPrice = n /\ b.totalPrice = t
    BY <2>3 DEF Amount
  <2> QED BY <2>2, <2>4
<1>6. Column(b).quantity = q /\ Column(b).unitPrice = p
  <2>1. /\ 10 * Column(b).quantity <= 10 * q + 5 /\ 10 * q < 10 * Column(b).quantity + 5
        /\ 10 * Column(b).unitPrice <= 10 * p + 5 /\ 10 * p < 10 * Column(b).unitPrice + 5
        /\ Column(b).quantity \in Nat /\ Column(b).unitPrice \in Nat
    BY <1>5, ColumnNear
  <2> HIDE DEF q, p, b
  <2> QED BY <1>1, <2>1
<1>7. Allowance(b) = (limit2 \div 50) + p + q + 4
  BY <1>5, <1>6 DEF Allowance
<1> HIDE DEF q, p, x, y, t, b, product1, value
<1>8. limit = IF 2000000 >= product1 \div 100 THEN 2000000 ELSE product1 \div 100
  BY DEF Larger, Tolerance
<1>9. ((10 * q) * (10 * p)) \div 100 = value
  <2>1. (10 * q) * (10 * p) = 100 * value
    BY <1>1 DEF value
  <2> QED BY <1>3, <2>1
<1>10. limit2 = IF 2000000 >= value THEN 2000000 ELSE value
  BY <1>9 DEF Larger, Tolerance
<1>11. 100 * (product1 \div 100) <= product1 /\ product1 \div 100 \in Nat
  BY <1>3
<1> HIDE DEF limit, limit2
<1>12. limit \in Nat /\ limit2 \in Nat
  BY <1>3, <1>8, <1>10, <1>11
<1>13. limit2 \div 50 \in Nat /\ limit2 < 50 * (limit2 \div 50) + 50
  BY <1>12
<1>14. /\ product1 - t * 1000000 <= limit /\ t * 1000000 - product1 <= limit
       /\ t * 1000000 \in Nat
  BY <1>1, <1>3, <1>4, <1>12 DEF Distance
<1>15. /\ 2 * (100 * value - t * 1000000) <= 2 * limit2 + 100 * (p + q) + 300
       /\ 2 * (t * 1000000 - 100 * value) <= 2 * limit2 + 100 * (p + q) + 300
  BY <1>1, <1>2, <1>3, <1>8, <1>10, <1>11, <1>12, <1>14
<1>16. /\ 2 * (value - t * 10000) <= (limit2 \div 50) + p + q + 4
       /\ 2 * (t * 10000 - value) <= (limit2 \div 50) + p + q + 4
  BY <1>1, <1>3, <1>12, <1>13, <1>15
<1>17. 2 * Distance(value, t * 10000) <= Allowance(b)
  BY <1>1, <1>3, <1>7, <1>16 DEF Distance
<1>18. Coherent(b)
  BY <1>5, <1>6, <1>17 DEF Coherent, value
<1> QED BY <1>5, <1>18 DEF b

-----------------------------------------------------------------------------
(* An entry.                                                               *)

\* The sums the properties compare a product with.
Books == [worth : Nat, declared : Nat, allowance : Nat]

\* Before the first entry.
NoBooks == [worth |-> 0, declared |-> 0, allowance |-> 0]

\* What the columns of a line are worth.
Value(a) == Column(a).quantity * Column(a).unitPrice

\* What a line adds to the books.
Added(b, a) ==
  [worth |-> b.worth + Value(a), declared |-> b.declared + a.totalPrice * 10000,
   allowance |-> b.allowance + Allowance(a)]

\* WorthKept, of a row with k entries.
Worth(row, b, k) ==
  LET value == row.quantity * row.unitPrice
      drift == (k - 1) * row.quantity
  IN  /\ 2 * Distance(value, b.worth) <= drift
      /\ 2 * Distance(value, b.declared) <= drift + b.allowance
      /\ k > 1 => 2 * Distance(row.totalPrice * 10000, value) <= 10000

\* The row after k entries, and their books.
Standing(row, b, k) ==
  \/ k = 0 /\ row = Absent /\ b = NoBooks
  \/ k # 0 /\ row \in Row /\ Worth(row, b, k)

\* Figures of a line are natural numbers.
LEMMA LineTyped ==
  ASSUME NEW a \in Amount
  PROVE  /\ Column(a).quantity \in Nat /\ Column(a).unitPrice \in Nat /\ Value(a) \in Nat
         /\ a.totalPrice * 10000 \in Nat /\ Allowance(a) \in Nat
<1>1. Column(a).quantity \in Nat /\ Column(a).unitPrice \in Nat
  BY ColumnNear
<1>2. a.quantity * a.unitPrice \in Nat /\ a.totalPrice * 10000 \in Nat
  BY DEF Amount
<1>3. Larger(Tolerance, (a.quantity * a.unitPrice) \div 100) \in Nat
  BY <1>2 DEF Larger, Tolerance
<1>4. Larger(Tolerance, (a.quantity * a.unitPrice) \div 100) \div 50 \in Nat
  BY <1>3
<1>5. Allowance(a) \in Nat
  BY <1>1, <1>4 DEF Allowance
<1>6. Value(a) \in Nat
  BY <1>1 DEF Value
<1> QED BY <1>1, <1>2, <1>5, <1>6

\* Books stay books.
LEMMA AddedTyped ==
  ASSUME NEW a \in Amount, NEW b \in Books
  PROVE  Added(b, a) \in Books
BY LineTyped DEF Books, Added

\* The first entry is worth its columns.
LEMMA FirstEntry ==
  ASSUME NEW a \in Amount, Coherent(a)
  PROVE  Inserted(a) \in Row /\ Worth(Inserted(a), Added(NoBooks, a), 1)
<1> DEFINE q == Column(a).quantity
           p == Column(a).unitPrice
           total == Round(a.quantity * a.unitPrice, 1000000)
           declared == a.totalPrice * 10000
           allowance == Allowance(a)
<1>1. /\ q \in Nat /\ p \in Nat /\ q * p \in Nat /\ declared \in Nat /\ allowance \in Nat
      /\ Value(a) = q * p
  BY LineTyped DEF Value
<1>2. total \in Nat
  <2>1. a.quantity * a.unitPrice \in Nat
    BY DEF Amount
  <2>2. 1000000 \in Nat \ {0} /\ 1000000 = 2 * (1000000 \div 2)
    OBVIOUS
  <2> QED BY <2>1, <2>2, RoundNear
<1>3. 2 * Distance(q * p, declared) <= allowance
  BY DEF Coherent
<1>4. Inserted(a) = [quantity |-> q, unitPrice |-> p, totalPrice |-> total]
  BY DEF Inserted
<1>5. /\ Added(NoBooks, a).worth = 0 + Value(a) /\ Added(NoBooks, a).declared = 0 + declared
      /\ Added(NoBooks, a).allowance = 0 + allowance
  BY DEF Added, NoBooks
<1> HIDE DEF q, p, total, declared, allowance
<1>6. Inserted(a) \in Row /\ Inserted(a).quantity = q /\ Inserted(a).unitPrice = p
  BY <1>1, <1>2, <1>4 DEF Row
<1>7. Distance(q * p, q * p) = 0 /\ (1 - 1) * q = 0
  BY <1>1 DEF Distance
<1>8. /\ Added(NoBooks, a).worth = q * p /\ Added(NoBooks, a).declared = declared
      /\ Added(NoBooks, a).allowance = allowance
  BY <1>1, <1>5
<1>9. 0 + allowance = allowance
  BY <1>1
<1> QED BY <1>3, <1>6, <1>7, <1>8, <1>9 DEF Worth

\* A mean adds half a cent a unit to the drift.
LEMMA Drift ==
  ASSUME NEW k \in Nat \ {0}, NEW Q \in Nat, NEW q \in Nat,
         NEW value \in Nat, NEW v \in Nat, NEW m \in Nat,
         NEW books0 \in Nat, NEW v0 \in Nat, NEW slack \in Nat, NEW slack0 \in Nat,
         2 * Distance(value, books0) <= (k - 1) * Q + slack,
         2 * Distance(v, v0) <= slack0,
         2 * Distance(m, value + v) <= Q + q
  PROVE  2 * Distance(m, books0 + v0) <= ((k + 1) - 1) * (Q + q) + slack + slack0
<1>1. (k - 1) * Q + (Q + q) <= ((k + 1) - 1) * (Q + q) /\ ((k + 1) - 1) * (Q + q) \in Nat
      /\ (k - 1) * Q \in Nat
  <2>1. PICK j \in Nat : k = j + 1
    <3>1. k - 1 \in Nat /\ k = (k - 1) + 1
      OBVIOUS
    <3> QED BY <3>1
  <2>2. j * Q \in Nat /\ j * q \in Nat
    BY <2>1
  <2>3. (k - 1) * Q = j * Q /\ ((k + 1) - 1) * (Q + q) = j * Q + j * q + Q + q
    BY <2>1
  <2> QED BY <2>2, <2>3
<1> DEFINE old == (k - 1) * Q
           new == ((k + 1) - 1) * (Q + q)
<1>2. old \in Nat /\ new \in Nat /\ old + (Q + q) <= new
  BY <1>1
<1>3. 2 * Distance(value, books0) <= old + slack
  OBVIOUS
<1> HIDE DEF old, new
<1>4. 2 * Distance(m, books0 + v0) <= new + slack + slack0
  BY <1>2, <1>3 DEF Distance
<1> QED BY <1>4 DEF new

\* What a further entry makes of a row.
LEMMA NextEntry ==
  ASSUME NEW a \in Amount, NEW row \in Row, Accumulated(row, a) # Null
  PROVE  /\ Accumulated(row, a) \in Row
         /\ Accumulated(row, a).quantity = row.quantity + Column(a).quantity
         /\ LET next == Accumulated(row, a)
                value == next.quantity * next.unitPrice
            IN  /\ 2 * Distance(value, row.quantity * row.unitPrice + Value(a)) <= next.quantity
                /\ 2 * Distance(next.totalPrice * 10000, value) <= 10000
<1> DEFINE Q == row.quantity + Column(a).quantity
           n == row.quantity * row.unitPrice + Column(a).quantity * Column(a).unitPrice
           P == RoundRatio(n, Q)
           T == Round(Q * P, 10000)
<1>1. row.quantity \in Nat /\ row.unitPrice \in Nat /\ Column(a).quantity \in Nat
      /\ Column(a).unitPrice \in Nat
  BY LineTyped DEF Row
<1>2. Q \in Nat /\ n \in Nat
  BY <1>1
<1>3. Q # 0 /\ Accumulated(row, a) = [quantity |-> Q, unitPrice |-> P, totalPrice |-> T]
  BY DEF Accumulated
<1>4. n = row.quantity * row.unitPrice + Value(a)
  BY DEF Value
<1> HIDE DEF n
<1>5. P \in Nat /\ 2 * Distance(Q * P, n) <= Q
  <2> HIDE DEF Q
  <2> QED BY <1>2, <1>3, MeanNear
<1> DEFINE value == Q * P
<1>6. value \in Nat
  <2> HIDE DEF Q, P
  <2> QED BY <1>2, <1>5
<1>7. T \in Nat /\ 2 * Distance(T * 10000, value) <= 10000
  <2>1. 10000 \in Nat \ {0} /\ 10000 = 2 * (10000 \div 2) /\ 10000 \div 2 = 5000
    OBVIOUS
  <2>2. T = Round(value, 10000)
    OBVIOUS
  <2> HIDE DEF value, T
  <2>3. T \in Nat /\ 10000 * T <= value + 5000 /\ value < 10000 * T + 5000
    BY <1>6, <2>1, <2>2, RoundNear
  <2> QED BY <1>6, <2>3 DEF Distance
<1>8. /\ Accumulated(row, a).quantity = Q /\ Accumulated(row, a).unitPrice = P
      /\ Accumulated(row, a).totalPrice = T /\ Accumulated(row, a) \in Row
  <2> HIDE DEF Q, P, T
  <2> QED BY <1>2, <1>3, <1>5, <1>7 DEF Row
<1> QED BY <1>4, <1>5, <1>7, <1>8

\* An entry keeps what the row is worth.
LEMMA StandingStep ==
  ASSUME NEW row, NEW b \in Books, NEW k \in Nat, Standing(row, b, k),
         NEW a \in Amount, Coherent(a), Entered(row, a) # Null
  PROVE  Standing(Entered(row, a), Added(b, a), k + 1)
<1>1. CASE k = 0
  <2>1. row = Absent /\ b = NoBooks
    BY <1>1 DEF Standing
  <2>2. Entered(row, a) = Inserted(a)
    BY <2>1, AmountsAssumption DEF Entered
  <2> QED BY <1>1, <2>1, <2>2, FirstEntry DEF Standing
<1>2. CASE k # 0
  <2>1. row \in Row /\ Worth(row, b, k)
    BY <1>2 DEF Standing
  <2> DEFINE next == Accumulated(row, a)
             value == row.quantity * row.unitPrice
             m == next.quantity * next.unitPrice
             declared == a.totalPrice * 10000
  <2>2. Entered(row, a) = next
    BY <2>1, AmountsAssumption DEF Entered
  <2>3. /\ next \in Row /\ next.quantity = row.quantity + Column(a).quantity
        /\ 2 * Distance(m, value + Value(a)) <= next.quantity
        /\ 2 * Distance(next.totalPrice * 10000, m) <= 10000
    BY <2>1, <2>2, NextEntry
  <2>4. /\ 2 * Distance(value, b.worth) <= (k - 1) * row.quantity
        /\ 2 * Distance(value, b.declared) <= (k - 1) * row.quantity + b.allowance
    BY <2>1 DEF Worth
  <2>5. 2 * Distance(Value(a), declared) <= Allowance(a)
    BY DEF Coherent, Value
  <2>6. /\ Added(b, a).worth = b.worth + Value(a) /\ Added(b, a).declared = b.declared + declared
        /\ Added(b, a).allowance = b.allowance + Allowance(a)
    BY DEF Added
  <2>7. /\ b.worth \in Nat /\ b.declared \in Nat /\ b.allowance \in Nat
        /\ Value(a) \in Nat /\ declared \in Nat /\ Allowance(a) \in Nat
        /\ row.quantity \in Nat /\ Column(a).quantity \in Nat /\ value \in Nat /\ m \in Nat
        /\ k \in Nat \ {0}
    BY <1>2, <2>1, <2>3, LineTyped DEF Books, Row
  <2> HIDE DEF next, value, m, declared
  <2>8. 2 * Distance(m, value + Value(a)) <= row.quantity + Column(a).quantity
    BY <2>3
  <2>9. 2 * Distance(m, b.worth + Value(a))
          <= ((k + 1) - 1) * (row.quantity + Column(a).quantity) + 0 + 0
    <3>1. 2 * Distance(Value(a), Value(a)) <= 0
      BY <2>7 DEF Distance
    <3>2. 2 * Distance(value, b.worth) <= (k - 1) * row.quantity + 0
      BY <2>4, <2>7
    <3> QED BY <2>7, <2>8, <3>1, <3>2, Drift
  <2>10. 2 * Distance(m, b.declared + declared)
           <= ((k + 1) - 1) * (row.quantity + Column(a).quantity) + b.allowance + Allowance(a)
    BY <2>4, <2>5, <2>7, <2>8, Drift
  <2> DEFINE drift == ((k + 1) - 1) * next.quantity
  <2>11. drift \in Nat
    BY <2>3, <2>7
  <2>12. /\ 2 * Distance(m, b.worth + Value(a)) <= drift + 0 + 0
         /\ 2 * Distance(m, b.declared + declared) <= drift + b.allowance + Allowance(a)
    BY <2>3, <2>9, <2>10
  <2>13. drift + 0 + 0 = drift
         /\ drift + b.allowance + Allowance(a) = drift + (b.allowance + Allowance(a))
    <3> HIDE DEF drift
    <3> QED BY <2>7, <2>11
  <2>14. Worth(next, Added(b, a), k + 1)
    BY <2>3, <2>6, <2>12, <2>13 DEF Worth, m
  <2> QED BY <2>2, <2>3, <2>7, <2>14 DEF Standing
<1> QED BY <1>1, <1>2

-----------------------------------------------------------------------------
(* The lines of an invoice, one after the other.                           *)

\* A set of natural numbers has a least one.
LEMMA Least ==
  ASSUME NEW T \in SUBSET Nat, T # {}
  PROVE  \E n \in T : \A m \in T : n <= m
<1> DEFINE R == {ss \in Nat \X Nat : ss[1] < ss[2]}
<1>1. R = OpToRel(<, Nat)
  BY DEF OpToRel
<1>2. IsWellFoundedOn(R, Nat)
  BY <1>1, NatLessThanWellFounded
<1> HIDE DEF R
<1>3. PICK n \in T : \A m \in T : ~(<<m, n>> \in R)
  BY <1>2, WFMin
<1>4. \A m \in T : ~(m < n)
  BY <1>3 DEF R
<1> QED BY <1>4

\* f is what the steps make of start, one after the other.
Iterates(f, n, start, step) ==
  f = [i \in 0 .. n |-> IF i = 0 THEN start ELSE step[i][f[i - 1]]]

\* There is such a function: the least number of steps without one would be one more
\* than a number with one.
LEMMA Iteration ==
  ASSUME NEW n \in Nat, NEW T, NEW start \in T, NEW step \in [1 .. n -> [T -> T]]
  PROVE  \E f \in [0 .. n -> T] : Iterates(f, n, start, step)
<1> DEFINE bad == {k \in Nat : k <= n /\ ~\E f \in [0 .. k -> T] : Iterates(f, k, start, step)}
<1>1. ASSUME bad # {} PROVE FALSE
  <2>1. PICK k \in bad : \A j \in bad : k <= j
    BY <1>1, Least
  <2>2. k \in Nat /\ k <= n
    OBVIOUS
  <2>3. CASE k = 0
    <3> DEFINE f == [i \in 0 .. 0 |-> start]
    <3>1. f \in [0 .. 0 -> T] /\ Iterates(f, 0, start, step)
      BY DEF Iterates
    <3> HIDE DEF f
    <3> QED BY <2>3, <3>1
  <2>4. CASE k # 0
    <3>1. k - 1 \in Nat /\ k - 1 <= n /\ ~(k <= k - 1)
      BY <2>2, <2>4
    <3>2. k - 1 \notin bad
      BY <2>1, <3>1
    <3>3. PICK g \in [0 .. k - 1 -> T] : Iterates(g, k - 1, start, step)
      BY <3>1, <3>2
    <3> DEFINE f == [i \in 0 .. k |-> IF i = k THEN step[k][g[k - 1]] ELSE g[i]]
    <3>4. ASSUME NEW i \in 0 .. k
          PROVE  f[i] \in T /\ f[i] = IF i = 0 THEN start ELSE step[i][f[i - 1]]
      <4>1. CASE i = k
        <5>1. f[k] = step[k][g[k - 1]] /\ f[k - 1] = g[k - 1]
          BY <2>2, <3>1
        <5>2. g[k - 1] \in T /\ k \in 1 .. n
          BY <2>2, <2>4, <3>1, <3>3
        <5>3. step[k][g[k - 1]] \in T
          BY <5>2
        <5> HIDE DEF f
        <5> QED BY <2>4, <4>1, <5>1, <5>3
      <4>2. CASE i # k
        <5>1. i \in 0 .. k - 1 /\ f[i] = g[i]
          BY <2>2, <4>2
        <5>2. g[i] = (IF i = 0 THEN start ELSE step[i][g[i - 1]]) /\ g[i] \in T
          BY <3>3, <5>1 DEF Iterates
        <5>3. i # 0 => f[i - 1] = g[i - 1]
          BY <2>2, <5>1
        <5> HIDE DEF f
        <5> QED BY <5>1, <5>2, <5>3
      <4> QED BY <4>1, <4>2
    <3> DEFINE h == [i \in 0 .. k |-> IF i = 0 THEN start ELSE step[i][f[i - 1]]]
    <3>5. f = [i \in 0 .. k |-> f[i]]
      OBVIOUS
    <3> HIDE DEF f
    <3>6. f = h
      <4>1. \A i \in 0 .. k : f[i] = h[i]
        BY <3>4
      <4> QED BY <3>5, <4>1
    <3>7. f \in [0 .. k -> T] /\ Iterates(f, k, start, step)
      BY <3>4, <3>5, <3>6 DEF Iterates
    <3> QED BY <3>7
  <2> QED BY <2>3, <2>4
<1>2. n \notin bad
  BY <1>1
<1> QED BY <1>2

\* Iterates, one step at a time.
LEMMA IteratesStep ==
  ASSUME NEW n \in Nat, NEW start, NEW step, NEW f, Iterates(f, n, start, step)
  PROVE  f[0] = start /\ \A i \in 1 .. n : f[i] = step[i][f[i - 1]]
<1>1. 0 \in 0 .. n /\ \A i \in 1 .. n : i \in 0 .. n /\ i # 0
  OBVIOUS
<1> QED BY <1>1 DEF Iterates

\* What a row may be after an entry: a NULL is refused by the column later.
Outcomes == Row \cup {Absent, Null}

\* An entry makes such an outcome of such a row.
LEMMA EnteredTyped ==
  ASSUME NEW row \in Outcomes, NEW a \in Amount
  PROVE  Entered(row, a) \in Outcomes
<1>1. CASE row = Null
  BY <1>1, AmountsAssumption DEF Entered, Outcomes
<1>2. CASE row = Absent
  <2>1. Entered(row, a) = Inserted(a)
    BY <1>2, AmountsAssumption DEF Entered
  <2>2. Inserted(a) = [quantity |-> Column(a).quantity, unitPrice |-> Column(a).unitPrice,
                       totalPrice |-> Round(a.quantity * a.unitPrice, 1000000)]
    BY DEF Inserted
  <2>3. Round(a.quantity * a.unitPrice, 1000000) \in Nat
    <3>1. a.quantity * a.unitPrice \in Nat
      BY DEF Amount
    <3>2. 1000000 \in Nat \ {0} /\ 1000000 = 2 * (1000000 \div 2)
      OBVIOUS
    <3> QED BY <3>1, <3>2, RoundNear
  <2> QED BY <2>1, <2>2, <2>3, LineTyped DEF Outcomes, Row
<1>3. CASE row \in Row
  <2>1. Entered(row, a) = Accumulated(row, a)
    BY <1>3, AmountsAssumption DEF Entered
  <2> QED BY <1>3, <2>1, NextEntry DEF Outcomes
<1> QED BY <1>1, <1>2, <1>3 DEF Outcomes

\* The rows of a transaction: each line enters what the one before has left.
LEMMA ResultsChain ==
  ASSUME product \in Row \cup {Absent}, NEW lines \in Seq(Amount)
  PROVE  \E after : /\ Results(lines) = [i \in 1 .. Len(lines) |-> after[i]]
                    /\ after[0] = product
                    /\ \A i \in 1 .. Len(lines) : after[i] = Entered(after[i - 1], lines[i])
<1> DEFINE n == Len(lines)
           step == [i \in 1 .. n |-> [row \in Outcomes |-> Entered(row, lines[i])]]
           after == CHOOSE f : f = [i \in 0 .. Len(lines) |->
                                      IF i = 0 THEN product ELSE Entered(f[i - 1], lines[i])]
<1>1. n \in Nat /\ \A i \in 1 .. n : lines[i] \in Amount
  BY ElementOfSeq
<1>2. step \in [1 .. n -> [Outcomes -> Outcomes]] /\ product \in Outcomes
  <2> HIDE DEF n
  <2> QED BY <1>1, EnteredTyped DEF Outcomes
<1>3. \A i \in 1 .. n : \A row \in Outcomes : step[i][row] = Entered(row, lines[i])
  OBVIOUS
<1> HIDE DEF step
<1>4. PICK f \in [0 .. n -> Outcomes] : Iterates(f, n, product, step)
  BY <1>1, <1>2, Iteration
<1>5. f = [i \in 0 .. Len(lines) |-> IF i = 0 THEN product ELSE Entered(f[i - 1], lines[i])]
  <2> DEFINE g == [i \in 0 .. n |-> IF i = 0 THEN product ELSE Entered(f[i - 1], lines[i])]
  <2>1. \A i \in 0 .. n : f[i] = g[i]
    <3> SUFFICES ASSUME NEW i \in 0 .. n PROVE f[i] = g[i]
      OBVIOUS
    <3>1. f[i] = IF i = 0 THEN product ELSE step[i][f[i - 1]]
      BY <1>4 DEF Iterates
    <3>2. i # 0 => i \in 1 .. n /\ f[i - 1] \in Outcomes
      BY <1>1, <1>4
    <3> QED BY <1>3, <3>1, <3>2
  <2>2. f = [i \in 0 .. n |-> f[i]]
    OBVIOUS
  <2>3. f = g
    BY <2>1, <2>2
  <2> QED BY <2>3
<1>6. after = [i \in 0 .. Len(lines) |-> IF i = 0 THEN product ELSE Entered(after[i - 1], lines[i])]
  BY <1>5
<1>7. Results(lines) = [i \in 1 .. Len(lines) |-> after[i]]
  BY DEF Results
<1> HIDE DEF after
<1>8. 0 \in 0 .. n /\ \A i \in 1 .. n : i \in 0 .. n /\ i # 0
  BY <1>1
<1>9. after[0] = product /\ \A i \in 1 .. n : after[i] = Entered(after[i - 1], lines[i])
  BY <1>6, <1>8
<1> QED BY <1>7, <1>9

\* f adds a table up.
Adds(f, n, table) == f = [i \in 0 .. n |-> IF i = 0 THEN 0 ELSE f[i - 1] + table[i]]

\* Every finite table can be added up.
LEMMA Addition ==
  ASSUME NEW n \in Nat, NEW table \in [1 .. n -> Nat]
  PROVE  \E f : Adds(f, n, table)
<1> DEFINE step == [i \in 1 .. n |-> [x \in Nat |-> x + table[i]]]
<1>1. step \in [1 .. n -> [Nat -> Nat]] /\ 0 \in Nat
  OBVIOUS
<1>2. \A i \in 1 .. n : \A x \in Nat : step[i][x] = x + table[i]
  OBVIOUS
<1> HIDE DEF step
<1>3. PICK f \in [0 .. n -> Nat] : Iterates(f, n, 0, step)
  BY <1>1, Iteration
<1> DEFINE g == [i \in 0 .. n |-> IF i = 0 THEN 0 ELSE f[i - 1] + table[i]]
<1>4. \A i \in 0 .. n : f[i] = g[i]
  <2> SUFFICES ASSUME NEW i \in 0 .. n PROVE f[i] = g[i]
    OBVIOUS
  <2>1. f[i] = IF i = 0 THEN 0 ELSE step[i][f[i - 1]]
    BY <1>3 DEF Iterates
  <2>2. i # 0 => i \in 1 .. n /\ f[i - 1] \in Nat
    BY <1>3
  <2> QED BY <1>2, <2>1, <2>2
<1>5. f = [i \in 0 .. n |-> f[i]]
  OBVIOUS
<1>6. f = g
  BY <1>4, <1>5
<1> QED BY <1>6 DEF Adds

\* Adds, one step at a time.
LEMMA AddsStep ==
  ASSUME NEW n \in Nat, NEW table, NEW f, Adds(f, n, table)
  PROVE  f[0] = 0 /\ \A i \in 1 .. n : f[i] = f[i - 1] + table[i]
<1>1. 0 \in 0 .. n /\ \A i \in 1 .. n : i \in 0 .. n /\ i # 0
  OBVIOUS
<1> QED BY <1>1 DEF Adds

\* What a transaction adds to the books, line by line.
BooksBy(lines, w, d, l) ==
  /\ Booked(lines) = [worth |-> books.worth + w[Len(lines)],
                      declared |-> books.declared + d[Len(lines)],
                      allowance |-> books.allowance + l[Len(lines)]]
  /\ w[0] = 0 /\ d[0] = 0 /\ l[0] = 0
  /\ \A i \in 1 .. Len(lines) : /\ w[i] = w[i - 1] + Value(lines[i])
                               /\ d[i] = d[i - 1] + lines[i].totalPrice * 10000
                               /\ l[i] = l[i - 1] + Allowance(lines[i])

\* The three sums of Booked exist, and grow line by line.
LEMMA BookedChain ==
  ASSUME NEW lines \in Seq(Amount)
  PROVE  \E w, d, l : BooksBy(lines, w, d, l)
<1> DEFINE n == Len(lines)
           worth == [i \in 1 .. n |-> Value(lines[i])]
           declared == [i \in 1 .. n |-> lines[i].totalPrice * 10000]
           allowance == [i \in 1 .. n |-> Allowance(lines[i])]
           w == CHOOSE sum : sum = [i \in 0 .. Len(lines) |-> IF i = 0 THEN 0
                       ELSE sum[i - 1] + Column(lines[i]).quantity * Column(lines[i]).unitPrice]
           Declares(sum) == sum = [i \in 0 .. Len(lines) |-> IF i = 0 THEN 0
                                    ELSE sum[i - 1] + lines[i].totalPrice * 10000]
           d == CHOOSE sum : Declares(sum)
           l == CHOOSE sum : sum = [i \in 0 .. Len(lines) |-> IF i = 0 THEN 0
                       ELSE sum[i - 1] + Allowance(lines[i])]
<1>1. n \in Nat /\ \A i \in 1 .. n : lines[i] \in Amount
  BY ElementOfSeq
<1>2. /\ worth \in [1 .. n -> Nat] /\ declared \in [1 .. n -> Nat]
      /\ allowance \in [1 .. n -> Nat]
  <2> HIDE DEF n
  <2> QED BY <1>1, LineTyped
<1>3. Booked(lines) = [worth |-> books.worth + w[Len(lines)],
                       declared |-> books.declared + d[Len(lines)],
                       allowance |-> books.allowance + l[Len(lines)]]
  BY DEF Booked, Sum
<1>4. Adds(w, n, worth)
  <2>1. PICK f : Adds(f, n, worth)
    <3> HIDE DEF worth
    <3> QED BY <1>1, <1>2, Addition
  <2>2. \A i \in 0 .. n : i # 0 => worth[i] = Column(lines[i]).quantity * Column(lines[i]).unitPrice
    BY <1>1 DEF Value
  <2>3. ASSUME NEW g
        PROVE  Adds(g, n, worth)
                 <=> g = [i \in 0 .. Len(lines) |-> IF i = 0 THEN 0
                           ELSE g[i - 1] + Column(lines[i]).quantity * Column(lines[i]).unitPrice]
    <3> HIDE DEF worth, n
    <3>1. \A i \in 0 .. n : (IF i = 0 THEN 0 ELSE g[i - 1] + worth[i])
                            = (IF i = 0 THEN 0 ELSE g[i - 1] + Column(lines[i]).quantity
                                                 * Column(lines[i]).unitPrice)
      BY <2>2
    <3>2. n = Len(lines)
      BY DEF n
    <3> QED BY <3>1, <3>2 DEF Adds
  <2>4. w = [i \in 0 .. Len(lines) |-> IF i = 0 THEN 0
               ELSE w[i - 1] + Column(lines[i]).quantity * Column(lines[i]).unitPrice]
    <3> HIDE DEF worth
    <3> QED BY <2>1, <2>3
  <2> HIDE DEF worth, w
  <2> QED BY <2>3, <2>4
<1>5. Adds(d, n, declared)
  <2>1. PICK f : Adds(f, n, declared)
    <3> HIDE DEF declared
    <3> QED BY <1>1, <1>2, Addition
  <2>2. \A i \in 0 .. n : i # 0 => declared[i] = lines[i].totalPrice * 10000
    BY <1>1
  <2>3. ASSUME NEW g PROVE Adds(g, n, declared) <=> Declares(g)
    <3> HIDE DEF declared
    <3> QED BY <2>2 DEF Adds
  <2>4. Declares(d)
    <3> HIDE DEF declared, n, Declares
    <3> QED BY <2>1, <2>3
  <2> HIDE DEF declared, d, Declares
  <2> QED BY <2>3, <2>4
<1>6. Adds(l, n, allowance)
  <2>1. PICK f : Adds(f, n, allowance)
    <3> HIDE DEF allowance
    <3> QED BY <1>1, <1>2, Addition
  <2>2. \A i \in 0 .. n : i # 0 => allowance[i] = Allowance(lines[i])
    BY <1>1
  <2>3. ASSUME NEW g
        PROVE  Adds(g, n, allowance)
                 <=> g = [i \in 0 .. Len(lines) |->
                            IF i = 0 THEN 0 ELSE g[i - 1] + Allowance(lines[i])]
    <3> HIDE DEF allowance, n
    <3>1. \A i \in 0 .. n : (IF i = 0 THEN 0 ELSE g[i - 1] + allowance[i])
                            = (IF i = 0 THEN 0 ELSE g[i - 1] + Allowance(lines[i]))
      BY <2>2
    <3>2. n = Len(lines)
      BY DEF n
    <3> QED BY <3>1, <3>2 DEF Adds
  <2>4. l = [i \in 0 .. Len(lines) |-> IF i = 0 THEN 0 ELSE l[i - 1] + Allowance(lines[i])]
    <3> HIDE DEF allowance
    <3> QED BY <2>1, <2>3
  <2> HIDE DEF allowance, l
  <2> QED BY <2>3, <2>4
<1> HIDE DEF w, d, l
<1>7. /\ w[0] = 0 /\ \A i \in 1 .. n : w[i] = w[i - 1] + worth[i]
      /\ d[0] = 0 /\ \A i \in 1 .. n : d[i] = d[i - 1] + declared[i]
      /\ l[0] = 0 /\ \A i \in 1 .. n : l[i] = l[i - 1] + allowance[i]
  <2> HIDE DEF n, worth, declared, allowance
  <2> QED BY <1>1, <1>4, <1>5, <1>6, AddsStep
<1>8. \A i \in 1 .. n : /\ w[i] = w[i - 1] + Value(lines[i])
                        /\ d[i] = d[i - 1] + lines[i].totalPrice * 10000
                        /\ l[i] = l[i - 1] + Allowance(lines[i])
  BY <1>7
<1> HIDE DEF worth, declared, allowance, Declares
<1>9. BooksBy(lines, w, d, l)
  BY <1>3, <1>7, <1>8 DEF BooksBy
<1> QED BY <1>9

\* Sums and books go on together.
LEMMA SumsCarry ==
  ASSUME NEW b \in Books, NEW line \in Amount,
         NEW x \in Nat, NEW y \in Nat, NEW z \in Nat, NEW x1, NEW y1, NEW z1,
         x1 = x + Value(line), y1 = y + line.totalPrice * 10000, z1 = z + Allowance(line)
  PROVE  /\ x1 \in Nat /\ y1 \in Nat /\ z1 \in Nat
         /\ [worth |-> b.worth + x1, declared |-> b.declared + y1, allowance |-> b.allowance + z1]
              = Added([worth |-> b.worth + x, declared |-> b.declared + y,
                       allowance |-> b.allowance + z], line)
<1> DEFINE v == Value(line)
           t == line.totalPrice * 10000
           a == Allowance(line)
<1>1. v \in Nat /\ t \in Nat /\ a \in Nat
  BY LineTyped
<1>2. x1 = x + v /\ y1 = y + t /\ z1 = z + a
  OBVIOUS
<1>3. b.worth \in Nat /\ b.declared \in Nat /\ b.allowance \in Nat
  BY DEF Books
<1>4. Added([worth |-> b.worth + x, declared |-> b.declared + y,
             allowance |-> b.allowance + z], line)
        = [worth |-> (b.worth + x) + v, declared |-> (b.declared + y) + t,
           allowance |-> (b.allowance + z) + a]
  BY DEF Added
<1> HIDE DEF v, t, a
<1>5. /\ x1 \in Nat /\ y1 \in Nat /\ z1 \in Nat
      /\ b.worth + x1 = (b.worth + x) + v /\ b.declared + y1 = (b.declared + y) + t
      /\ b.allowance + z1 = (b.allowance + z) + a
  BY <1>1, <1>2, <1>3
<1> QED BY <1>4, <1>5

\* A transaction keeps what the product is worth, whatever its lines.
LEMMA TransactionStands ==
  ASSUME product \in Row \cup {Absent}, books \in Books, NEW k \in Nat,
         Standing(product, books, k),
         NEW lines \in Seq(Amount), \A i \in 1 .. Len(lines) : Coherent(lines[i]),
         \A i \in 1 .. Len(lines) : Results(lines)[i] # Null
  PROVE  /\ Booked(lines) \in Books
         /\ \A i \in 1 .. Len(lines) : Results(lines)[i] \in Row
         /\ Len(lines) # 0 => Standing(Results(lines)[Len(lines)], Booked(lines), k + Len(lines))
<1> DEFINE n == Len(lines)
<1>1. n \in Nat /\ \A i \in 1 .. n : lines[i] \in Amount
  BY ElementOfSeq
<1>2. PICK after : /\ Results(lines) = [i \in 1 .. Len(lines) |-> after[i]]
                   /\ after[0] = product
                   /\ \A i \in 1 .. Len(lines) : after[i] = Entered(after[i - 1], lines[i])
  BY ResultsChain
<1>3. PICK w, d, l : BooksBy(lines, w, d, l)
  BY BookedChain
<1> DEFINE book(i) == [worth |-> books.worth + w[i], declared |-> books.declared + d[i],
                       allowance |-> books.allowance + l[i]]
           Right(i) == /\ w[i] \in Nat /\ d[i] \in Nat /\ l[i] \in Nat
                       /\ Standing(after[i], book(i), k + i)
           wrong == {i \in 0 .. n : ~Right(i)}
<1>4. ASSUME NEW x \in Nat, NEW y \in Nat, NEW z \in Nat
      PROVE  [worth |-> books.worth + x, declared |-> books.declared + y,
              allowance |-> books.allowance + z] \in Books
  BY DEF Books
<1>5. Right(0)
  <2>1. w[0] = 0 /\ d[0] = 0 /\ l[0] = 0
    BY <1>3 DEF BooksBy
  <2>2. /\ books.worth + 0 = books.worth /\ books.declared + 0 = books.declared
        /\ books.allowance + 0 = books.allowance /\ k + 0 = k
    BY DEF Books
  <2>3. books = [worth |-> books.worth, declared |-> books.declared, allowance |-> books.allowance]
    BY DEF Books
  <2>4. book(0) = books
    BY <2>1, <2>2, <2>3
  <2> HIDE DEF book
  <2> QED BY <1>2, <2>1, <2>2, <2>4
<1>6. ASSUME NEW i \in 1 .. n, Right(i - 1) PROVE Right(i)
  <2>1. lines[i] \in Amount /\ Coherent(lines[i])
    BY <1>1
  <2>2. after[i] = Entered(after[i - 1], lines[i]) /\ after[i] # Null
    BY <1>2
  <2>3. /\ w[i] = w[i - 1] + Value(lines[i]) /\ d[i] = d[i - 1] + lines[i].totalPrice * 10000
        /\ l[i] = l[i - 1] + Allowance(lines[i])
    BY <1>3 DEF BooksBy
  <2>4. w[i - 1] \in Nat /\ d[i - 1] \in Nat /\ l[i - 1] \in Nat
    BY <1>6
  <2>5. /\ w[i] \in Nat /\ d[i] \in Nat /\ l[i] \in Nat
        /\ book(i) = Added(book(i - 1), lines[i])
    BY <2>1, <2>3, <2>4, SumsCarry
  <2>6. book(i - 1) \in Books
    BY <1>4, <2>4
  <2>9. Standing(after[i - 1], book(i - 1), k + (i - 1)) /\ k + (i - 1) \in Nat
        /\ (k + (i - 1)) + 1 = k + i
    BY <1>6
  <2> HIDE DEF book
  <2>10. Standing(after[i], book(i), k + i)
    BY <2>1, <2>2, <2>5, <2>6, <2>9, StandingStep
  <2> QED BY <2>5, <2>10
<1> HIDE DEF Right
<1>7. ASSUME wrong # {} PROVE FALSE
  <2>0. wrong \in SUBSET Nat
    OBVIOUS
  <2>1. PICK i \in wrong : \A j \in wrong : i <= j
    <3> HIDE DEF wrong
    <3> QED BY <1>7, <2>0, Least
  <2>2. i \in 1 .. n /\ i - 1 \in 0 .. n /\ ~(i <= i - 1)
    BY <1>1, <1>5
  <2>3. Right(i - 1)
    BY <2>1, <2>2
  <2> QED BY <1>6, <2>1, <2>2, <2>3
<1>8. \A i \in 0 .. n : Right(i)
  BY <1>7
<1>9. Booked(lines) = book(n)
  BY <1>3 DEF BooksBy
<1>10. book(n) \in Books
  <2>1. n \in 0 .. n
    BY <1>1
  <2>2. w[n] \in Nat /\ d[n] \in Nat /\ l[n] \in Nat
    BY <1>8, <2>1 DEF Right
  <2> HIDE DEF n
  <2> QED BY <1>4, <2>2
<1>11. \A i \in 1 .. n : after[i] \in Row
  <2> SUFFICES ASSUME NEW i \in 1 .. n PROVE after[i] \in Row
    OBVIOUS
  <2>1. Right(i) /\ k + i # 0
    BY <1>1, <1>8
  <2> QED BY <2>1 DEF Right, Standing
<1>12. n # 0 => n \in 1 .. n /\ Right(n)
  BY <1>1, <1>8
<1> HIDE DEF book
<1>13. n # 0 => Standing(after[n], Booked(lines), k + n)
  BY <1>9, <1>12 DEF Right
<1> QED BY <1>2, <1>9, <1>10, <1>11, <1>12, <1>13

-----------------------------------------------------------------------------
(* The inductive invariant.                                                *)

\* What was there after k entries.
Found(k) == IF k = 0 THEN Absent ELSE states[k]

\* The row is the last entry's, and is worth what the books say.
StatesInv ==
  /\ product = Found(Len(states))
  /\ Standing(product, books, Len(states))

\* Nothing was committed between reading and entry.
Undisturbed(q) == q.seenAt = q.base /\ ~(q.base = 0 /\ Len(q.lines) > 1)

\* The lines a process holds have passed the checks on the figures.
CoherentLines(q) == q.lines # <<>> /\ \A i \in 1 .. Len(q.lines) : Coherent(q.lines[i])

\* What a process holds at each stage, and what it knows of the state before.
ProcessInv(q) ==
  /\ q.stage \in {"matching", "persisting", "rejecting"} =>
       CoherentLines(q) /\ q.seenAt <= Len(states)
  /\ q.stage = "matching" => q.previous = Found(q.seenAt)
  /\ q.stage = "persisting" =>
       q.previous = Found(q.seenAt) \/ (q.seenAt = 0 /\ Len(q.lines) > 1)
  /\ q.stage = "rejecting" => q.previous = Absent /\ Len(q.lines) = 1
  /\ q.stage \in {"auditing", "done"} => q.base + Len(q.lines) <= Len(states)
  /\ q.stage = "auditing" =>
       /\ q.line \in 1 .. Len(q.lines)
       /\ q.line > 1 \/ Undisturbed(q) => q.previous = Found(q.base + q.line - 1)

\* An audit row, and the process that has written it.
RowInv(e) ==
  LET q == process[e.process] IN
  /\ e.process \in Processes
  /\ q.stage \in {"auditing", "done"} /\ e.line \in 1 .. Len(q.lines)
  /\ e.next = Found(q.base + e.line)
  /\ e.line > 1 \/ Undisturbed(q) => e.previous = Found(q.base + e.line - 1)

\* The four parts together.
FiguresInv ==
  /\ TypeOK
  /\ StatesInv
  /\ \A p \in Processes : ProcessInv(process[p])
  /\ \A e \in log : RowInv(e)

\* The type of a process.
Course == [stage : Stages, lines : Seq(Amount),
           previous : Row \cup {Absent} \cup [planned : Amount],
           seenAt : Nat, base : Nat, line : Nat]

\* What the invariant says of the rows, in the terms of the properties.
LEMMA StatesKnown ==
  ASSUME FiguresInv
  PROVE  /\ states \in Seq(Row) /\ Len(states) \in Nat
         /\ \A k \in 1 .. Len(states) : states[k] \in Row
         /\ product \in Row \cup {Absent} /\ books \in Books
         /\ process \in [Processes -> Course]
         /\ Len(states) = 0 <=> product = Absent
<1>1. /\ states \in Seq(Row) /\ product \in Row \cup {Absent} /\ books \in Books
      /\ process \in [Processes -> Course]
  BY DEF FiguresInv, TypeOK, Books, Course
<1>2. Len(states) \in Nat /\ \A k \in 1 .. Len(states) : states[k] \in Row
  BY <1>1, ElementOfSeq
<1>3. Standing(product, books, Len(states))
  BY DEF FiguresInv, StatesInv
<1>4. Len(states) = 0 <=> product = Absent
  BY <1>3, AmountsAssumption DEF Standing
<1> QED BY <1>1, <1>2, <1>4

\* What is found stays, if entries are only appended.
LEMMA FoundStays ==
  ASSUME FiguresInv, NEW rows \in Seq(Row), states' = states \o rows
  PROVE  /\ states' \in Seq(Row) /\ Len(states') = Len(states) + Len(rows)
         /\ \A k \in 0 .. Len(states) : Found(k)' = Found(k)
         /\ \A k \in 1 .. Len(states') :
              k > Len(states) => Found(k)' = rows[k - Len(states)]
<1>1. /\ states' \in Seq(Row) /\ Len(states') = Len(states) + Len(rows)
      /\ \A i \in 1 .. Len(states) + Len(rows) :
           states'[i] = IF i <= Len(states) THEN states[i] ELSE rows[i - Len(states)]
  BY StatesKnown, ConcatProperties
<1>2. Len(states) \in Nat /\ Len(rows) \in Nat
  BY StatesKnown, ElementOfSeq
<1>3. ASSUME NEW k \in 0 .. Len(states) PROVE Found(k)' = Found(k)
  <2>1. k # 0 => k \in 1 .. Len(states) + Len(rows) /\ k <= Len(states)
    BY <1>2
  <2> QED BY <1>1, <2>1 DEF Found
<1>4. ASSUME NEW k \in 1 .. Len(states'), k > Len(states)
      PROVE  Found(k)' = rows[k - Len(states)]
  <2>1. k \in 1 .. Len(states) + Len(rows) /\ ~(k <= Len(states)) /\ k # 0
    BY <1>1, <1>2, <1>4
  <2> QED BY <1>1, <2>1 DEF Found
<1> QED BY <1>1, <1>3, <1>4

\* A process knows as much of a longer history.
LEMMA ProcessKept ==
  ASSUME FiguresInv, NEW rows \in Seq(Row), states' = states \o rows,
         NEW q \in Course, ProcessInv(q)
  PROVE  ProcessInv(q)'
<1>1. /\ Len(states') = Len(states) + Len(rows)
      /\ \A k \in 0 .. Len(states) : Found(k)' = Found(k)
  BY FoundStays
<1>2. Len(states) \in Nat /\ Len(rows) \in Nat /\ Len(states) <= Len(states')
  BY <1>1, StatesKnown, ElementOfSeq
<1>3. q.seenAt \in Nat /\ q.base \in Nat /\ Len(q.lines) \in Nat
  BY ElementOfSeq DEF Course
<1>4. q.stage \in {"matching", "persisting", "rejecting"} => Found(q.seenAt)' = Found(q.seenAt)
  BY <1>1, <1>2, <1>3 DEF ProcessInv
<1>5. q.stage = "auditing" => Found(q.base + q.line - 1)' = Found(q.base + q.line - 1)
  <2>1. q.stage = "auditing" => q.base + q.line - 1 \in 0 .. Len(states)
    BY <1>2, <1>3 DEF ProcessInv
  <2> QED BY <1>1, <2>1
<1>6. q.stage \in {"matching", "persisting", "rejecting"} => q.seenAt <= Len(states')
  BY <1>2, <1>3 DEF ProcessInv
<1>7. q.stage \in {"auditing", "done"} => q.base + Len(q.lines) <= Len(states')
  BY <1>2, <1>3 DEF ProcessInv
<1> QED BY <1>4, <1>5, <1>6, <1>7 DEF ProcessInv, CoherentLines, Undisturbed

\* So is an audit row, as long as the process that wrote it keeps its lines and its place.
LEMMA RowKept ==
  ASSUME FiguresInv, NEW rows \in Seq(Row), states' = states \o rows,
         NEW e \in log,
         LET q == process[e.process]
             r == process'[e.process]
         IN  /\ r.stage \in {"auditing", "done"} /\ r.lines = q.lines
             /\ r.base = q.base /\ r.seenAt = q.seenAt
  PROVE  RowInv(e)'
<1> DEFINE q == process[e.process]
           r == process'[e.process]
<1>1. RowInv(e) /\ q \in Course /\ ProcessInv(q)
  BY StatesKnown DEF FiguresInv, RowInv
<1>2. /\ Len(states') = Len(states) + Len(rows) /\ Len(states) \in Nat
      /\ \A k \in 0 .. Len(states) : Found(k)' = Found(k)
  BY FoundStays, StatesKnown
<1>3. q.base \in Nat /\ Len(q.lines) \in Nat
  BY <1>1, ElementOfSeq DEF Course
<1>4. e.line \in 1 .. Len(q.lines) /\ q.base + Len(q.lines) <= Len(states)
  BY <1>1 DEF RowInv, ProcessInv
<1>5. q.base + e.line \in 0 .. Len(states) /\ q.base + e.line - 1 \in 0 .. Len(states)
  BY <1>2, <1>3, <1>4
<1>6. /\ Found(q.base + e.line)' = Found(q.base + e.line)
      /\ Found(q.base + e.line - 1)' = Found(q.base + e.line - 1)
  BY <1>2, <1>5
<1>7. /\ r.stage \in {"auditing", "done"} /\ r.lines = q.lines
      /\ r.base = q.base /\ r.seenAt = q.seenAt
  OBVIOUS
<1> QED BY <1>1, <1>6, <1>7 DEF RowInv, Undisturbed

\* A step of one process that commits and audits nothing.
LEMMA QuietStep ==
  ASSUME FiguresInv, NEW p \in Processes, process[p].stage \notin {"auditing", "done"},
         NEW q \in Course, ProcessInv(q), Becomes(p, q),
         UNCHANGED <<product, log, states, books>>
  PROVE  FiguresInv'
<1>1. process \in [Processes -> Course] /\ process' = [process EXCEPT ![p] = q]
  BY StatesKnown DEF Becomes
<1>2. TypeOK'
  BY <1>1 DEF FiguresInv, TypeOK, Course
<1>3. StatesInv'
  BY DEF FiguresInv, StatesInv, Found, Standing, Worth
<1>4. ASSUME NEW u \in Processes PROVE ProcessInv(process[u])'
  <2>1. PICK r \in Course : r = process'[u] /\ ProcessInv(r)
    <3>1. process'[u] \in Course /\ process'[u] = IF u = p THEN q ELSE process[u]
      BY <1>1
    <3>2. ProcessInv(process[u])
      BY DEF FiguresInv
    <3> QED BY <3>1, <3>2
  <2>2. ProcessInv(r)'
    BY <2>1 DEF ProcessInv, Found, CoherentLines, Undisturbed
  <2> QED BY <2>1, <2>2 DEF ProcessInv, Found, CoherentLines, Undisturbed
<1>5. ASSUME NEW e \in log PROVE RowInv(e)'
  <2>1. RowInv(e)
    BY DEF FiguresInv
  <2>2. e.process \in Processes \ {p}
    BY <2>1 DEF RowInv
  <2>3. process'[e.process] = process[e.process]
    BY <1>1, <2>2
  <2> QED BY <2>1, <2>3 DEF RowInv, Found, Undisturbed
<1> QED BY <1>2, <1>3, <1>4, <1>5 DEF FiguresInv

\* The lines of an invoice that passes the checks are coherent.
LEMMA SoundCoherent ==
  ASSUME NEW v \in Invoices, Sound(v)
  PROVE  /\ v.lines \in Seq(Amount) /\ v.lines # <<>> /\ Len(v.lines) \in Nat \ {0}
         /\ \A i \in 1 .. Len(v.lines) :
              v.lines[i] \in Amount /\ ItemCoherent(v.lines[i]) /\ Coherent(v.lines[i])
<1>1. v.lines \in Seq(Amount) /\ v.lines # <<>>
  BY AmountsAssumption
<1>2. Len(v.lines) \in Nat \ {0} /\ DOMAIN v.lines = 1 .. Len(v.lines)
  BY <1>1, EmptySeq, LenProperties
<1>3. \A i \in 1 .. Len(v.lines) : v.lines[i] \in Amount /\ ItemCoherent(v.lines[i])
  BY <1>1, <1>2, ElementOfSeq DEF Sound
<1> QED BY <1>1, <1>2, <1>3, LineCoherent

\* What a process may hold as the state before.
Previous == Row \cup {Absent} \cup [planned : Amount]

\* A process that has not begun.
LEMMA IdleTyped == Idle \in Course
<1> DEFINE none == <<>>
<1>1. none \in Seq(Amount)
  BY EmptySeq
<1>2. Idle = [stage |-> "idle", lines |-> none, previous |-> Absent, seenAt |-> 0, base |-> 0,
              line |-> 0]
  BY DEF Idle
<1> HIDE DEF none
<1> QED BY <1>1, <1>2 DEF Course, Stages

\* A failure leaves the process with nothing to tell.
LEMMA FailsStep ==
  ASSUME FiguresInv, NEW p \in Processes, Fails(p)
  PROVE  FiguresInv'
<1>1. process[p] \in Course /\ process[p].stage \notin {"auditing", "done"}
  BY StatesKnown DEF Fails
<1>2. PICK q : q = [process[p] EXCEPT !.stage = "failed"]
  OBVIOUS
<1>3. q \in Course /\ q.stage = "failed"
  BY <1>1, <1>2 DEF Course, Stages
<1>4. ProcessInv(q)
  BY <1>3 DEF ProcessInv
<1> QED BY <1>1, <1>2, <1>3, <1>4, QuietStep DEF Fails

\* An invoice that is extracted holds coherent lines, and the product as it was then.
LEMMA ExtractStep ==
  ASSUME FiguresInv, NEW p \in Processes, Extract(p)
  PROVE  FiguresInv'
<1>1. process[p].stage \notin {"auditing", "done"} /\ UNCHANGED <<product, log, states, books>>
  BY DEF Extract
<1>2. PICK v \in Invoices :
        Becomes(p, IF Sound(v)
                   THEN [Idle EXCEPT !.stage = "matching", !.lines = v.lines,
                                     !.previous = product, !.seenAt = Len(states)]
                   ELSE [Idle EXCEPT !.stage = "failed"])
  BY DEF Extract
<1>3. CASE Sound(v)
  <2>1. PICK q : q = [Idle EXCEPT !.stage = "matching", !.lines = v.lines,
                                  !.previous = product, !.seenAt = Len(states)]
    OBVIOUS
  <2>2. /\ v.lines \in Seq(Amount) /\ product \in Previous /\ Len(states) \in Nat
        /\ "matching" \in Stages
    BY <1>3, SoundCoherent, StatesKnown DEF Previous, Stages
  <2>3. /\ q \in Course /\ q.stage = "matching" /\ q.lines = v.lines
        /\ q.previous = product /\ q.seenAt = Len(states)
    BY <2>1, <2>2, IdleTyped DEF Course, Previous
  <2>4. ProcessInv(q)
    BY <1>3, <2>2, <2>3, SoundCoherent DEF ProcessInv, CoherentLines, FiguresInv, StatesInv
  <2> QED BY <1>1, <1>2, <1>3, <2>1, <2>3, <2>4, QuietStep
<1>4. CASE ~Sound(v)
  <2>1. PICK q : q = [Idle EXCEPT !.stage = "failed"]
    OBVIOUS
  <2>2. q \in Course /\ q.stage = "failed"
    BY <2>1, IdleTyped DEF Course, Stages
  <2>3. ProcessInv(q)
    BY <2>2 DEF ProcessInv
  <2> QED BY <1>1, <1>2, <1>4, <2>1, <2>2, <2>3, QuietStep
<1> QED BY <1>3, <1>4

\* A match by code keeps the product read before, or reads it anew.
LEMMA FindByCodeStep ==
  ASSUME FiguresInv, NEW p \in Processes, FindByCode(p)
  PROVE  FiguresInv'
<1>1. PICK c : c = process[p]
  OBVIOUS
<1>2. /\ c \in Course /\ c.stage = "matching" /\ ProcessInv(c)
      /\ process[p].stage \notin {"auditing", "done"} /\ UNCHANGED <<product, log, states, books>>
  BY <1>1, StatesKnown DEF FindByCode, FiguresInv
<1>3. /\ CoherentLines(c) /\ c.seenAt <= Len(states) /\ c.previous = Found(c.seenAt)
      /\ c.seenAt \in Nat /\ c.lines \in Seq(Amount) /\ Len(states) \in Nat
  BY <1>2, StatesKnown DEF ProcessInv, Course
<1>4. CASE c.previous # Absent
  <2>1. PICK q : q = [c EXCEPT !.stage = "persisting"]
    OBVIOUS
  <2>2. /\ q \in Course /\ q.stage = "persisting" /\ q.lines = c.lines
        /\ q.previous = c.previous /\ q.seenAt = c.seenAt
    BY <1>2, <2>1 DEF Course, Stages
  <2>3. ProcessInv(q)
    BY <1>3, <2>2 DEF ProcessInv, CoherentLines
  <2>4. Becomes(p, q)
    BY <1>1, <1>4, <2>1 DEF FindByCode
  <2> QED BY <1>2, <2>2, <2>3, <2>4, QuietStep
<1>5. CASE c.previous = Absent
  <2>1. PICK r : r = IF product = Absent /\ Len(c.lines) > 1 THEN Planned(c.lines[1]) ELSE product
    OBVIOUS
  <2>2. PICK q : q = [c EXCEPT !.stage = "persisting", !.seenAt = Len(states), !.previous = r]
    OBVIOUS
  <2>3. r \in Previous
    <3>1. Len(c.lines) > 1 => c.lines[1] \in Amount
      BY <1>3, ElementOfSeq
    <3> QED BY <2>1, <3>1, StatesKnown DEF Previous, Planned
  <2>4. /\ q \in Course /\ q.stage = "persisting" /\ q.lines = c.lines
        /\ q.previous = r /\ q.seenAt = Len(states)
    BY <1>2, <1>3, <2>2, <2>3 DEF Course, Stages, Previous
  <2>5. r = Found(Len(states)) \/ (Len(states) = 0 /\ Len(c.lines) > 1)
    BY <2>1, StatesKnown DEF FiguresInv, StatesInv
  <2>6. ProcessInv(q)
    BY <1>3, <2>4, <2>5 DEF ProcessInv, CoherentLines
  <2>7. Becomes(p, q)
    BY <1>1, <1>5, <2>1, <2>2 DEF FindByCode
  <2> QED BY <1>2, <2>4, <2>6, <2>7, QuietStep
<1> QED BY <1>4, <1>5

\* A decision reads the suggested product, and enters the figures kept with it.
LEMMA DecideStep ==
  ASSUME FiguresInv, NEW p \in Processes, Decide(p)
  PROVE  FiguresInv'
<1>1. process[p].stage \notin {"auditing", "done"} /\ UNCHANGED <<product, log, states, books>>
  BY DEF Decide
<1>2. PICK v \in Invoices :
        /\ Sound(v)
        /\ LET q == [Idle EXCEPT !.lines = <<Received(v.lines[1])>>, !.previous = product,
                                 !.seenAt = Len(states)]
           IN  \/ product # Absent /\ Becomes(p, [q EXCEPT !.stage = "persisting"])
               \/ Becomes(p, [q EXCEPT !.stage = "rejecting", !.previous = Absent])
  BY DEF Decide
<1>3. PICK a, l : a = Received(v.lines[1]) /\ l = <<a>>
  OBVIOUS
<1>4. a \in Amount /\ Coherent(a)
  BY <1>2, <1>3, SoundCoherent, ReceivedCoherent
<1>5. l \in Seq(Amount) /\ Len(l) = 1 /\ l[1] = a /\ l # <<>>
  BY <1>3, <1>4
<1>6. product \in Previous /\ Absent \in Previous /\ Len(states) \in Nat
  BY StatesKnown DEF Previous
<1>7. PICK c : c = [Idle EXCEPT !.lines = l, !.previous = product, !.seenAt = Len(states)]
  OBVIOUS
<1>8. /\ c \in Course /\ c.lines = l /\ c.previous = product /\ c.seenAt = Len(states)
  BY <1>5, <1>6, <1>7, IdleTyped DEF Course, Previous
<1>9. l # <<>> /\ \A i \in 1 .. Len(l) : Coherent(l[i])
  <2>1. \A i \in 1 .. Len(l) : i = 1
    BY <1>5
  <2> QED BY <1>4, <1>5, <2>1
<1>10. \/ Becomes(p, [c EXCEPT !.stage = "persisting"])
       \/ Becomes(p, [c EXCEPT !.stage = "rejecting", !.previous = Absent])
  BY <1>2, <1>3, <1>7
<1>11. CASE Becomes(p, [c EXCEPT !.stage = "persisting"])
  <2>1. PICK q : q = [c EXCEPT !.stage = "persisting"]
    OBVIOUS
  <2>2. /\ q \in Course /\ q.stage = "persisting" /\ q.lines = l
        /\ q.previous = product /\ q.seenAt = Len(states)
    BY <1>8, <2>1 DEF Course, Stages
  <2>3. ProcessInv(q)
    <3>1. CoherentLines(q)
      BY <1>9, <2>2 DEF CoherentLines
    <3>2. product = Found(Len(states)) /\ Len(states) <= Len(states)
      BY <1>6 DEF FiguresInv, StatesInv
    <3> QED BY <2>2, <3>1, <3>2 DEF ProcessInv
  <2> QED BY <1>1, <1>11, <2>1, <2>2, <2>3, QuietStep
<1>12. CASE Becomes(p, [c EXCEPT !.stage = "rejecting", !.previous = Absent])
  <2>1. PICK q : q = [c EXCEPT !.stage = "rejecting", !.previous = Absent]
    OBVIOUS
  <2>2. /\ q \in Course /\ q.stage = "rejecting" /\ q.lines = l
        /\ q.previous = Absent /\ q.seenAt = Len(states)
    BY <1>8, <2>1 DEF Course, Stages
  <2>3. ProcessInv(q)
    <3>1. CoherentLines(q)
      BY <1>9, <2>2 DEF CoherentLines
    <3> QED BY <1>5, <1>6, <2>2, <3>1 DEF ProcessInv
  <2> QED BY <1>1, <1>12, <2>1, <2>2, <2>3, QuietStep
<1> QED BY <1>10, <1>11, <1>12

\* A commit: the rows of a transaction are appended, and the process begins to audit them.
LEMMA CommitsStep ==
  ASSUME FiguresInv, NEW p \in Processes, process[p].stage \in {"persisting", "rejecting"},
         process[p].stage = "rejecting" => product = Absent,
         \A i \in 1 .. Len(process[p].lines) : Results(process[p].lines)[i] # Null,
         Commits(p, Results(process[p].lines))
  PROVE  FiguresInv'
<1>1. PICK c : c = process[p]
  OBVIOUS
<1>2. PICK rows : rows = Results(c.lines)
  OBVIOUS
<1>3. c \in Course /\ ProcessInv(c)
  BY <1>1, StatesKnown DEF FiguresInv
<1>4. /\ c.lines \in Seq(Amount) /\ c.lines # <<>> /\ c.seenAt \in Nat /\ c.seenAt <= Len(states)
      /\ \A i \in 1 .. Len(c.lines) : Coherent(c.lines[i])
  BY <1>1, <1>3 DEF Course, ProcessInv, CoherentLines
<1>5. PICK n \in Nat \ {0} : n = Len(c.lines)
  BY <1>4, EmptySeq, LenProperties
<1>6. PICK m \in Nat : m = Len(states)
  BY StatesKnown
<1>7. Standing(product, books, m)
  BY <1>6 DEF FiguresInv, StatesInv
<1>8. /\ Booked(c.lines) \in Books
      /\ \A i \in 1 .. n : rows[i] \in Row
      /\ Standing(rows[n], Booked(c.lines), m + n)
  BY <1>1, <1>2, <1>4, <1>5, <1>7, StatesKnown, TransactionStands
<1>9. rows \in Seq(Row) /\ Len(rows) = n
  <2>1. rows = [i \in 1 .. n |-> rows[i]]
    BY <1>2, <1>5 DEF Results
  <2> QED BY <1>8, <2>1, IsASeq
<1>10. /\ product' = rows[n] /\ states' = states \o rows /\ books' = Booked(c.lines)
       /\ process' = [process EXCEPT ![p] =
                         [c EXCEPT !.stage = "auditing", !.base = m, !.line = 1]]
       /\ log' = log
  BY <1>1, <1>2, <1>6, <1>9 DEF Commits, Becomes
<1>11. /\ states' \in Seq(Row) /\ Len(states') = m + n
       /\ \A k \in 0 .. m : Found(k)' = Found(k)
       /\ \A k \in 1 .. m + n : k > m => Found(k)' = rows[k - m]
  BY <1>6, <1>9, <1>10, FoundStays
<1>12. PICK q : q = [c EXCEPT !.stage = "auditing", !.base = m, !.line = 1]
  OBVIOUS
<1>13. /\ q \in Course /\ q.stage = "auditing" /\ q.base = m /\ q.line = 1
       /\ q.lines = c.lines /\ q.previous = c.previous /\ q.seenAt = c.seenAt
  BY <1>3, <1>12 DEF Course, Stages
<1>14. process \in [Processes -> Course] /\ process' = [process EXCEPT ![p] = q]
  BY <1>10, <1>12, StatesKnown
<1>15. TypeOK'
  <2>1. rows[n] \in Row
    BY <1>8
  <2> QED BY <1>8, <1>10, <1>11, <1>13, <1>14, <2>1 DEF TypeOK, Course, Books
<1>16. StatesInv'
  <2>1. Len(states)' = m + n /\ m + n \in 1 .. m + n /\ m + n > m /\ (m + n) - m = n
    BY <1>11
  <2>2. Found(m + n)' = rows[n]
    BY <1>11, <2>1
  <2> QED BY <1>8, <1>10, <2>1, <2>2 DEF StatesInv, Found, Standing, Worth
<1>17. ProcessInv(q)'
  <2>1. Undisturbed(q) => c.previous = Found(m)
    <3> SUFFICES ASSUME Undisturbed(q) PROVE c.previous = Found(m)
      OBVIOUS
    <3>1. c.seenAt = m /\ ~(m = 0 /\ n > 1)
      BY <1>5, <1>13 DEF Undisturbed
    <3>2. CASE c.stage = "persisting"
      BY <1>3, <1>5, <3>1, <3>2 DEF ProcessInv
    <3>3. CASE c.stage = "rejecting"
      <4>1. c.previous = Absent /\ m = 0
        BY <1>1, <1>3, <1>6, <3>3, StatesKnown DEF ProcessInv
      <4> QED BY <4>1 DEF Found
    <3> QED BY <1>1, <3>2, <3>3
  <2>2. q.base + q.line - 1 = m /\ Found(m)' = Found(m) /\ q.line \in 1 .. Len(q.lines)
    BY <1>5, <1>11, <1>13
  <2>3. q.base + Len(q.lines) <= Len(states')
    BY <1>5, <1>11, <1>13
  <2> QED BY <1>13, <2>1, <2>2, <2>3 DEF ProcessInv, Undisturbed
<1>18. ASSUME NEW u \in Processes PROVE ProcessInv(process[u])'
  <2>1. PICK r \in Course : r = process'[u] /\ ProcessInv(r)'
    <3>1. CASE u = p
      BY <1>13, <1>14, <1>17, <3>1
    <3>2. CASE u # p
      <4>1. PICK r \in Course : r = process[u] /\ ProcessInv(r)
        BY <1>14 DEF FiguresInv
      <4>2. ProcessInv(r)'
        BY <1>9, <1>10, <4>1, ProcessKept
      <4>3. r = process'[u]
        BY <1>14, <3>2, <4>1
      <4> QED BY <4>2, <4>3
    <3> QED BY <3>1, <3>2
  <2> QED BY <2>1 DEF ProcessInv, Found, CoherentLines, Undisturbed
<1>19. ASSUME NEW e \in log PROVE RowInv(e)'
  <2>1. RowInv(e)
    BY DEF FiguresInv
  <2>2. e.process \in Processes \ {p} /\ process[e.process].stage \in {"auditing", "done"}
    BY <2>1 DEF RowInv
  <2>3. process'[e.process] = process[e.process]
    BY <1>14, <2>2
  <2> QED BY <1>9, <1>10, <2>2, <2>3, RowKept
<1> QED BY <1>10, <1>15, <1>16, <1>18, <1>19 DEF FiguresInv

\* An audit row tells what the process has kept, and leaves it what the next is to tell.
LEMMA AuditStep ==
  ASSUME FiguresInv, NEW p \in Processes, Audit(p)
  PROVE  FiguresInv'
<1>1. PICK c : c = process[p]
  OBVIOUS
<1>2. /\ c \in Course /\ ProcessInv(c) /\ c.stage = "auditing"
      /\ UNCHANGED <<product, states, books>>
  BY <1>1, StatesKnown DEF Audit, FiguresInv
<1>3. /\ c.lines \in Seq(Amount) /\ Len(c.lines) \in Nat /\ c.base \in Nat
      /\ c.line \in 1 .. Len(c.lines) /\ c.base + Len(c.lines) <= Len(states)
      /\ c.line > 1 \/ Undisturbed(c) => c.previous = Found(c.base + c.line - 1)
  BY <1>2, ElementOfSeq DEF Course, ProcessInv
<1>4. PICK m \in Nat : m = c.base + c.line
  BY <1>3
<1>5. m \in 1 .. Len(states)
  BY <1>3, <1>4, StatesKnown
<1>6. PICK next \in Row : next = states[m] /\ next = Found(m)
  BY <1>5, StatesKnown DEF Found
<1>7. PICK q : q = IF c.line = Len(c.lines) THEN [c EXCEPT !.stage = "done"]
                   ELSE [c EXCEPT !.line = c.line + 1, !.previous = next]
  OBVIOUS
<1>8. PICK e \in {Event(p, next)} : e = Event(p, next)
  OBVIOUS
<1>9. /\ process' = [process EXCEPT ![p] = q]
      /\ log' = log \/ log' = log \cup {e}
  BY <1>1, <1>4, <1>6, <1>7, <1>8 DEF Audit, Becomes, CreateAuditLog
<1>10. /\ q \in Course /\ q.lines = c.lines /\ q.base = c.base /\ q.seenAt = c.seenAt
       /\ \/ c.line = Len(c.lines) /\ q.stage = "done"
          \/ /\ c.line # Len(c.lines) /\ q.stage = "auditing"
             /\ q.line = c.line + 1 /\ q.previous = next
  <2>1. CASE c.line = Len(c.lines)
    BY <1>2, <1>7, <2>1 DEF Course, Stages
  <2>2. CASE c.line # Len(c.lines)
    <3>1. PICK n \in Nat : n = c.line + 1
      BY <1>3
    <3>2. q = [c EXCEPT !.line = n, !.previous = next]
      BY <1>7, <2>2, <3>1
    <3>3. /\ q \in Course /\ q.lines = c.lines /\ q.base = c.base /\ q.seenAt = c.seenAt
          /\ q.stage = c.stage /\ q.line = n /\ q.previous = next
      BY <1>2, <1>6, <3>2 DEF Course
    <3> QED BY <1>2, <2>2, <3>1, <3>3
  <2> QED BY <2>1, <2>2
<1>11. process \in [Processes -> Course]
  BY StatesKnown
<1>12. TypeOK'
  BY <1>2, <1>9, <1>10, <1>11 DEF FiguresInv, TypeOK, Course
<1>13. StatesInv'
  BY <1>2 DEF FiguresInv, StatesInv, Found, Standing, Worth
<1>14. ProcessInv(q)
  <2>1. CASE c.line = Len(c.lines)
    BY <1>3, <1>10, <2>1 DEF ProcessInv
  <2>2. CASE c.line # Len(c.lines)
    <3>1. /\ q.stage = "auditing" /\ q.line = c.line + 1 /\ q.previous = next
          /\ q.lines = c.lines /\ q.base = c.base
      BY <1>10, <2>2
    <3>2. q.line \in 1 .. Len(q.lines) /\ q.base + q.line - 1 = m
      BY <1>3, <1>4, <2>2, <3>1
    <3> QED BY <1>3, <1>6, <3>1, <3>2 DEF ProcessInv
  <2> QED BY <2>1, <2>2
<1>15. ASSUME NEW u \in Processes PROVE ProcessInv(process[u])'
  <2>1. PICK r \in Course : r = process'[u] /\ ProcessInv(r)
    <3>1. process'[u] \in Course /\ process'[u] = IF u = p THEN q ELSE process[u]
      BY <1>9, <1>10, <1>11
    <3>2. ProcessInv(process[u])
      BY DEF FiguresInv
    <3> QED BY <1>14, <3>1, <3>2
  <2>2. ProcessInv(r)'
    BY <1>2, <2>1 DEF ProcessInv, Found, CoherentLines, Undisturbed
  <2> QED BY <2>1, <2>2 DEF ProcessInv, Found, CoherentLines, Undisturbed
<1>16. ASSUME NEW f \in log PROVE RowInv(f)'
  <2>1. RowInv(f)
    BY DEF FiguresInv
  <2>2. f.process \in Processes /\ process[f.process].stage \in {"auditing", "done"}
    BY <2>1 DEF RowInv
  <2>3. /\ process'[f.process].stage \in {"auditing", "done"}
        /\ process'[f.process].lines = process[f.process].lines
        /\ process'[f.process].base = process[f.process].base
        /\ process'[f.process].seenAt = process[f.process].seenAt
    BY <1>1, <1>9, <1>10, <1>11, <2>2
  <2>4. <<>> \in Seq(Row) /\ states' = states \o <<>>
    BY <1>2, StatesKnown, EmptySeq, ConcatEmptySeq
  <2> QED BY <2>2, <2>3, <2>4, RowKept
<1>17. RowInv(e)'
  <2>1. e.process = p /\ e.line = c.line /\ e.next = next /\ e.previous = c.previous
    BY <1>1, <1>8 DEF Event
  <2>2. process'[e.process] = q
    BY <1>9, <1>11, <2>1
  <2>3. q.base + e.line = m /\ q.base + e.line - 1 = c.base + c.line - 1
    BY <1>4, <1>10, <2>1
  <2>4. e.line > 1 \/ Undisturbed(q) => e.previous = Found(c.base + c.line - 1)
    BY <1>3, <1>10, <2>1 DEF Undisturbed
  <2> QED BY <1>2, <1>3, <1>6, <1>10, <2>1, <2>2, <2>3, <2>4 DEF RowInv, Found, Undisturbed
<1> QED BY <1>9, <1>12, <1>13, <1>15, <1>16, <1>17 DEF FiguresInv

-----------------------------------------------------------------------------
(* The theorems.                                                           *)

\* What is known of the first state.
LEMMA FiguresInit == Init => FiguresInv
<1> SUFFICES ASSUME Init PROVE FiguresInv
  OBVIOUS
<1>1. Idle \in Course /\ Idle.stage = "idle"
  BY IdleTyped DEF Idle
<1>2. /\ product = Absent /\ process = [p \in Processes |-> Idle] /\ log = {} /\ states = <<>>
      /\ books = [worth |-> 0, declared |-> 0, allowance |-> 0]
  BY DEF Init
<1>3. TypeOK
  BY <1>1, <1>2, EmptySeq DEF TypeOK, Course
<1>4. StatesInv
  <2>1. Len(states) = 0
    BY <1>2, EmptySeq
  <2> QED BY <1>2, <2>1 DEF StatesInv, Found, Standing, NoBooks
<1>5. ProcessInv(Idle)
  <2>1. PICK q : q = Idle
    OBVIOUS
  <2> QED BY <1>1 DEF ProcessInv
<1> QED BY <1>2, <1>3, <1>4, <1>5 DEF FiguresInv

\* One case per action, and one for steps that change nothing.
LEMMA FiguresStep == FiguresInv /\ [Next]_vars => FiguresInv'
<1> SUFFICES ASSUME FiguresInv, [Next]_vars PROVE FiguresInv'
  OBVIOUS
<1>1. ASSUME NEW p \in Processes, Persist(p) PROVE FiguresInv'
  <2>1. process[p] \in Course
    BY StatesKnown
  <2>2. \A i \in 1 .. Len(process[p].lines) : Results(process[p].lines)[i] # Null
    BY <1>1 DEF Persist, Results
  <2> QED BY <1>1, <2>2, CommitsStep DEF Persist
<1>2. ASSUME NEW p \in Processes, Insert(p) PROVE FiguresInv'
  <2>1. PICK lines : lines = process[p].lines
    OBVIOUS
  <2>2. lines \in Seq(Amount) /\ Len(lines) = 1 /\ Coherent(lines[1])
    <3>1. process[p] \in Course /\ ProcessInv(process[p]) /\ process[p].stage = "rejecting"
      BY <1>2, StatesKnown DEF FiguresInv, Insert
    <3> QED BY <2>1, <3>1 DEF Course, ProcessInv, CoherentLines
  <2>3. product = Absent
    BY <1>2 DEF Insert
  <2>4. Results(lines)[1] # Null
    <3>1. PICK after : /\ Results(lines) = [i \in 1 .. Len(lines) |-> after[i]]
                       /\ after[0] = product
                       /\ \A i \in 1 .. Len(lines) : after[i] = Entered(after[i - 1], lines[i])
      BY <2>2, <2>3, ResultsChain
    <3>2. 1 \in 1 .. Len(lines) /\ 1 - 1 = 0
      BY <2>2
    <3>3. Results(lines)[1] = Entered(Absent, lines[1])
      BY <2>3, <3>1, <3>2
    <3>4. Entered(Absent, lines[1]) = Inserted(lines[1])
      BY AmountsAssumption DEF Entered
    <3>5. Inserted(lines[1]) \in Row
      BY <2>2, <3>2, ElementOfSeq, FirstEntry
    <3> QED BY <3>3, <3>4, <3>5, AmountsAssumption
  <2>5. \A i \in 1 .. Len(lines) : i = 1
    BY <2>2
  <2> QED BY <1>2, <2>1, <2>3, <2>4, <2>5, CommitsStep DEF Insert
<1>3. CASE UNCHANGED vars
  BY <1>3 DEF vars, FiguresInv, TypeOK, StatesInv, Found, Standing, Worth, ProcessInv,
               CoherentLines, Undisturbed, RowInv
<1> QED BY <1>1, <1>2, <1>3, ExtractStep, FindByCodeStep, DecideStep, AuditStep, FailsStep
        DEF Next, PersistNull

\* For any processes, invoices and amounts: what each process holds, what its rows say,
\* and what the product is worth by the books.
THEOREM FiguresInvariant == Spec => []FiguresInv
BY FiguresInit, FiguresStep, PTL DEF Spec

\* For any number of entries of any amounts, quantity times price stays what the columns
\* of the entries were worth, to half a cent a unit and entry, and what the invoices
\* declared, within their tolerance (the ROUNDs of the ON CONFLICT clause).
THEOREM AmountsAreKept == Spec => []AmountsInv
<1>1. FiguresInv => AmountsInv
  <2> SUFFICES ASSUME FiguresInv PROVE AmountsInv
    OBVIOUS
  <2>1. TypeOK /\ Standing(product, books, Len(states))
    BY DEF FiguresInv, StatesInv
  <2>2. product # Absent => Worth(product, books, Len(states))
    BY <2>1 DEF Standing
  <2> QED BY <2>1, <2>2 DEF AmountsInv, WorthKept, Worth
<1> QED BY <1>1, FiguresInvariant, PTL

\* The audit log tells the figures each entry left, and those it found if nothing came
\* between, for any number of overlapping uploads and decisions (assertAuditLogWrite, and
\* the figures kept from findByStockId and findByCode).
THEOREM AuditIsTrue == Spec => []AuditTells
<1>1. FiguresInv => AuditTells
  <2> SUFFICES ASSUME FiguresInv, NEW e \in log
               PROVE  LET q == process[e.process]
                          k == q.base + e.line
                      IN  /\ e.next = states[k]
                          /\ e.line > 1 \/ (q.seenAt = q.base /\ ~(q.base = 0 /\ Len(q.lines) > 1))
                               => e.previous = (IF k = 1 THEN Absent ELSE states[k - 1])
    BY DEF AuditTells
  <2>1. PICK q \in Course : q = process[e.process] /\ ProcessInv(q)
    BY StatesKnown DEF FiguresInv, RowInv
  <2>2. /\ e.line \in 1 .. Len(q.lines) /\ e.next = Found(q.base + e.line)
        /\ e.line > 1 \/ Undisturbed(q) => e.previous = Found(q.base + e.line - 1)
    BY <2>1 DEF FiguresInv, RowInv
  <2>3. PICK k \in Nat \ {0} : k = q.base + e.line
    <3>1. q.base \in Nat /\ e.line \in Nat \ {0}
      BY <2>1, <2>2, ElementOfSeq DEF Course
    <3>2. q.base + e.line \in Nat \ {0}
      BY <3>1
    <3> QED BY <3>2
  <2>4. Found(k) = states[k] /\ Found(k - 1) = IF k = 1 THEN Absent ELSE states[k - 1]
    BY <2>3 DEF Found
  <2>5. k - 1 = q.base + e.line - 1
    <3>1. q.base \in Nat /\ e.line \in Nat
      BY <2>1, <2>2, ElementOfSeq DEF Course
    <3> QED BY <2>3, <3>1
  <2>6. e.next = states[k]
    BY <2>2, <2>3, <2>4
  <2>7. e.line > 1 \/ Undisturbed(q) => e.previous = IF k = 1 THEN Absent ELSE states[k - 1]
    <3> HIDE DEF Found
    <3>1. Found(q.base + e.line - 1) = Found(k - 1)
      BY <2>5
    <3> QED BY <2>2, <2>4, <3>1
  <2> QED BY <2>1, <2>3, <2>6, <2>7 DEF Undisturbed
<1> QED BY <1>1, FiguresInvariant, PTL

=============================================================================
