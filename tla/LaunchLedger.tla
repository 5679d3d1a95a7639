---------------------------- MODULE LaunchLedger ----------------------------
(***************************************************************************)
(* What the enrichment queue promises its customers, without its workers,  *)
(* transactions and statuses: launching an item opens at most one charge,  *)
(* a charge is made by using one up, and one that is given up (a cancel, a *)
(* final failure, a process that died) never comes back.                   *)
(***************************************************************************)
EXTENDS Naturals

CONSTANT Items

VARIABLES
  launched,  \* how often each item was launched
  open,      \* charges that may still be made for it
  charged    \* charges made

vars == <<launched, open, charged>>

Init ==
  /\ launched = [i \in Items |-> 0]
  /\ open = [i \in Items |-> 0]
  /\ charged = [i \in Items |-> 0]

\* A creation or a retry: an item still waiting keeps the charge it has open.
Launch(S) ==
  /\ launched' = [i \in Items |-> IF i \in S THEN launched[i] + 1 ELSE launched[i]]
  /\ \A i \in Items : open'[i] \in IF i \in S THEN {open[i], open[i] + 1} ELSE {open[i]}
  /\ UNCHANGED charged

\* The item is delivered: another launch that was waiting behind it goes with it.
Charge(i) ==
  /\ open'[i] < open[i]
  /\ charged' = [charged EXCEPT ![i] = @ + 1]
  /\ \A k \in Items \ {i} : open'[k] = open[k]
  /\ UNCHANGED launched

GiveUp ==
  /\ \A i \in Items : open'[i] <= open[i]
  /\ UNCHANGED <<launched, charged>>

Next ==
  \/ \E S \in SUBSET Items : Launch(S)
  \/ \E i \in Items : Charge(i)
  \/ GiveUp

Spec == Init /\ [][Next]_vars
=============================================================================
