--------------------------- MODULE MCStockAmounts ---------------------------
(***************************************************************************)
(* A small instance of StockAmounts: amounts on both sides of every        *)
(* rounding and of the tolerances.                                         *)
(***************************************************************************)
EXTENDS StockAmounts, TLC

A(q, u, t) == [quantity |-> q, unitPrice |-> u, totalPrice |-> t]

One(a) == [lines |-> <<a>>, totalValue |-> a.totalPrice]

Samples ==
  { One(A(4, 3000, 1)),           \* 0.00004 at 3.000, which leaves no quantity
    One(A(100000, 1005, 101)),    \* 1 at 1.005
    One(A(100000, 1005, 104)),    \* ... declared too high
    One(A(33335, 3000, 99)),      \* 0.33335 at 3.000, declared within 2 cents
    One(A(15, 999995, 15)),       \* 0.00015 at 999.995
    One(A(200000, 4, 1)),         \* 2 at 0.004, which leaves no price
    [lines |-> <<A(50000, 2500, 125), A(10000, 4000, 40)>>, totalValue |-> 163],
    [lines |-> <<A(50000, 2500, 125), A(10000, 4000, 40)>>, totalValue |-> 162] }

Anyone == Permutations(Processes)
=============================================================================
