------------------------------- MODULE Ordering -------------------------------
(***************************************************************************)
(* Lists taken out of sets and of other lists by their order, without      *)
(* recursion: what is put in order is told by the number of those before.  *)
(***************************************************************************)
EXTENDS Naturals, FiniteSets, Sequences

\* The elements of A in the order R: each is where the number of those before it says.
InOrder(A, R) ==
  [n \in 1..Cardinality(A) |->
     CHOOSE i \in A : Cardinality({j \in A : <<j, i>> \in R}) = n - 1]

\* The places S, the first ones first.
Upward(S) == InOrder(S, {p \in S \X S : p[1] < p[2]})

\* The places of the lists of ss, list after list.
Places(ss) == UNION {{i} \X DOMAIN ss[i] : i \in DOMAIN ss}
Earlier(p, q) == p[1] < q[1] \/ (p[1] = q[1] /\ p[2] < q[2])
Onward(ss) == InOrder(Places(ss), {p \in Places(ss) \X Places(ss) : Earlier(p[1], p[2])})

\* The lists of ss, one after the other.
Laid(ss) == LET order == Onward(ss) IN [n \in DOMAIN order |-> ss[order[n][1]][order[n][2]]]

\* What the list s has at the places S, in the order of s.
At(s, S) == [n \in 1..Cardinality(S) |-> s[Upward(S)[n]]]

=============================================================================
