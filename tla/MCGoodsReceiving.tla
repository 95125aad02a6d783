-------------------------- MODULE MCGoodsReceiving --------------------------
(***************************************************************************)
(* Small instances of GoodsReceiving: a clerk with access to the stock,    *)
(* two suppliers that both print the code c1, two units, and invoices that *)
(* collide on access key, code, unit or row order.                         *)
(***************************************************************************)
EXTENDS ReceivingInvariant, TLC

CONSTANTS s1, s2, c1, c2, acme, bolt, un, cx, k1, k2, clerk, outsider

I(c, m) == [code |-> c, unit |-> m]

Invoice(key, supplier, items) ==
  [accessKey |-> key, supplier |-> supplier, items |-> items, sound |-> TRUE]

OthersStock  == s1 :> outsider
ClerkGranted == {<<clerk, s1>>}
EachTheirOwn == s1 :> clerk @@ s2 :> outsider

Existing(r, unit, source) ==
  [id |-> r, unit |-> unit, source |-> source, entered |-> NoEntries]

NoProducts == [r \in Rows |-> Absent]

ClerkOnly == {[user |-> clerk, stock |-> s1]}

AnyRequest == [user : Users, stock : Stocks]

\* Same codes in opposite orders; the same code from another supplier; the key
\* of the first invoice again, read with another unit; an unsound reading.
ConflictingDocuments ==
  { Invoice(k1, acme, <<I(c1, un), I(c2, un)>>),
    Invoice(k2, acme, <<I(c2, un), I(c1, un)>>),
    Invoice(k2, bolt, <<I(c1, un)>>),
    Invoice(k1, acme, <<I(c1, cx)>>),
    [Invoice(k1, acme, <<I(c1, un)>>) EXCEPT !.sound = FALSE] }

\* A first invoice, and one whose items may resemble what the first created.
ResemblingDocuments ==
  { Invoice(k1, acme, <<I(c1, un), I(c2, un)>>),
    Invoice(k2, bolt, <<I(c2, cx), I(c2, un)>>) }

LegacyStock == {NoProducts, [NoProducts EXCEPT ![<<s1, c1>>] = Existing(<<s1, c1>>, un, NoSupplier)]}
KnownStock  == {NoProducts, [NoProducts EXCEPT ![<<s1, c1>>] = Existing(<<s1, c1>>, un, acme)]}

=============================================================================
