------------------------------ MODULE MCMoney ------------------------------
(***************************************************************************)
(* Instances for TLC of the modules about money: the prepaid credits of an *)
(* account (CreditLedger) and the month it is billed for (Billing).  They  *)
(* share no state, so a behaviour is about one of them.                    *)
(***************************************************************************)
EXTENDS CreditLedger, Billing, TLC

CONSTANTS r1, w1, w2, s1, s2, \* a request, the workers, the sheets
          a1, a2, common, v1, v2, exact, any

VARIABLE about

DearImages == [enrich_item |-> 1, image_process |-> 2]
Withdrawal == {-1}

MoneyInit == about \in {"credits", "bill"} /\ Init /\ BillingInit

MoneyNext ==
  /\ UNCHANGED about
  /\ \/ about = "credits" /\ Next /\ UNCHANGED billingVars
     \/ about = "bill" /\ BillingNext /\ UNCHANGED vars

Symmetry ==
  Permutations(Workers) \cup Permutations(Sheets) \cup Permutations(Servers)
=============================================================================
