------------------------- MODULE ReceivingContract --------------------------
(***************************************************************************)
(* What receiving goods promises, without handlers, snapshots, row locks   *)
(* or commits: an access key is taken once, by an invoice that enters or   *)
(* leaves pending each of its lines in the same step, and a pending line   *)
(* enters the stock once, by a decision.                                   *)
(***************************************************************************)
EXTENDS Naturals

CONSTANTS
  AccessKeys,  (* Access keys of invoices.                                 *)
  Uploads,     (* Invoice uploads.                                         *)
  MaxItems,    (* Bound: items of one invoice.                             *)
  Absent       (* No upload.                                               *)

VARIABLES
  receipt,     (* The upload that took each access key, and its items.     *)
  stage        (* Where each invoice line is: "out", "pending" or "in".    *)

contractVars == <<receipt, stage>>

Lines == Uploads \X (1 .. MaxItems)

ContractInit ==
  /\ receipt = [k \in AccessKeys |-> [by |-> Absent, items |-> 0]]
  /\ stage = [l \in Lines |-> "out"]

Receive(k, u) ==
  /\ receipt[k].by = Absent
  /\ \A l \in Lines : l[1] = u => stage[l] = "out"
  /\ \E items \in 1 .. MaxItems, pending \in SUBSET (1 .. MaxItems) :
       /\ receipt' = [receipt EXCEPT ![k] = [by |-> u, items |-> items]]
       /\ stage' = [l \in Lines |->
            IF l[1] # u \/ l[2] > items THEN stage[l]
            ELSE IF l[2] \in pending THEN "pending" ELSE "in"]

Enter(l) ==
  /\ stage[l] = "pending"
  /\ stage' = [stage EXCEPT ![l] = "in"]
  /\ UNCHANGED receipt

ContractNext ==
  \/ \E k \in AccessKeys, u \in Uploads : Receive(k, u)
  \/ \E l \in Lines : Enter(l)

ContractSpec == ContractInit /\ [][ContractNext]_contractVars

=============================================================================
