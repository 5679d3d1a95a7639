------------------------ MODULE EnrichmentQueueProofs ------------------------
(***************************************************************************)
(* Theorems about EnrichmentQueue, for every number of jobs, items,        *)
(* workers, requests, attempts, launches and crashes.                      *)
(***************************************************************************)
EXTENDS EnrichmentQueue, FiniteSetTheorems, TLAPS

-----------------------------------------------------------------------------
(* Type correctness *)

\* The status a roll-up computes is a job status, or "none" for an early return.
LEMMA VerdictType == \A j : Verdict(j) \in JobStatuses \cup {"none"}
  BY DEF Verdict, JobStatuses

\* The records a worker and a request are left with.
LEMMA RestingTypes ==
  /\ IdleWorker \in WorkerRecord /\ Polling \in WorkerRecord
  /\ \A w : Rest(w) \in WorkerRecord
  /\ IdleSession \in SessionRecord
  BY QueueAssumption
     DEF Rest, Polling, IdleWorker, IdleSession, WorkerRecord, SessionRecord, ItemOps

\* The initial state is well typed.
LEMMA InitType == Init => TypeOK
  BY QueueAssumption, RestingTypes DEF Init, TypeOK

\* Every step of a worker leaves it a well-typed record.
LEMMA WorkerRecords ==
  ASSUME TypeOK, NEW w \in Workers, WorkerStep(w) \/ KillWorker(w)
  PROVE  worker' \in [Workers -> WorkerRecord]
<1>w. worker[w] \in WorkerRecord  BY DEF TypeOK
<1>1. CASE ClaimNextItem(w)
  <2>1. PICK i \in Items :
          worker' = [worker EXCEPT ![w] = [pc |-> "working", item |-> i, seen |-> "none"]]
    BY <1>1 DEF ClaimNextItem, Claimable
  <2>2. [pc |-> "working", item |-> i, seen |-> "none"] \in WorkerRecord
    BY DEF WorkerRecord
  <2>3. QED BY <2>1, <2>2 DEF TypeOK
<1>2. CASE DrainEnds(w)
  BY <1>2, RestingTypes DEF DrainEnds, TypeOK
<1>3. CASE CompleteItem(w) \/ FailItem(w)
  <2>1. worker' = [worker EXCEPT ![w] = [worker[w] EXCEPT !.pc = "rollup"]]
    BY <1>3 DEF CompleteItem, FailItem
  <2>2. [worker[w] EXCEPT !.pc = "rollup"] \in WorkerRecord
    BY <1>w DEF WorkerRecord
  <2>3. QED BY <2>1, <2>2 DEF TypeOK
<1>4. CASE RollupReads(w)
  <2> DEFINE v == Verdict(JobOf[worker[w].item])
  <2>1. [pc |-> "settling", item |-> worker[w].item, seen |-> v] \in WorkerRecord
    BY <1>w, VerdictType DEF WorkerRecord
  <2>2. QED BY <1>4, <2>1, RestingTypes DEF RollupReads, TypeOK
<1>5. CASE RollupWrites(w)
  BY <1>5, RestingTypes DEF RollupWrites, TypeOK
<1>6. CASE KillWorker(w)
  BY <1>6, RestingTypes DEF KillWorker, TypeOK
<1>7. QED BY <1>1, <1>2, <1>3, <1>4, <1>5, <1>6 DEF WorkerStep

\* A worker's step keeps the types of the tables.
LEMMA WorkerTypes ==
  ASSUME TypeOK, NEW w \in Workers, WorkerStep(w) \/ KillWorker(w)
  PROVE  TypeOK'
<1>0. worker' \in [Workers -> WorkerRecord]
  BY WorkerRecords
<1>w. worker[w] \in WorkerRecord  BY DEF TypeOK
<1>1. CASE ClaimNextItem(w)
  <2>1. PICK i \in Items :
          /\ itemStatus' = [itemStatus EXCEPT ![i] = "processing"]
          /\ attempts' = [attempts EXCEPT ![i] = @ + 1]
          /\ jobStatus' = [jobStatus EXCEPT ![JobOf[i]] =
                             IF @ = "pending" THEN "processing" ELSE @]
    BY <1>1 DEF ClaimNextItem, Claimable
  <2>2. jobStatus' \in [Jobs -> JobStatuses \cup {"none"}]
    BY <2>1 DEF TypeOK, JobStatuses
  <2>3. itemStatus' \in [Items -> ItemStatuses \cup {"none"}]
    BY <2>1 DEF TypeOK, ItemStatuses
  <2>4. attempts' \in [Items -> Nat]
    BY <2>1 DEF TypeOK
  <2>5. QED BY <1>0, <1>1, <2>2, <2>3, <2>4 DEF ClaimNextItem, TypeOK
<1>2. CASE DrainEnds(w)
  BY <1>0, <1>2 DEF DrainEnds, TypeOK
<1>3. CASE CompleteItem(w)
  <2>1. itemStatus' \in [Items -> ItemStatuses \cup {"none"}]
    BY <1>3 DEF CompleteItem, TypeOK, ItemStatuses, WorkerTerminal
  <2>2. debits' \in [Items -> Nat]
    <3>1. debits' = [k \in Items |-> IF k = worker[w].item THEN debits[k] + 1 ELSE debits[k]]
      BY <1>3 DEF CompleteItem, TypeOK
    <3>2. QED BY <3>1 DEF TypeOK
  <2>3. QED BY <1>0, <1>3, <2>1, <2>2 DEF CompleteItem, TypeOK
<1>4. CASE FailItem(w)
  <2>1. itemStatus' \in [Items -> ItemStatuses \cup {"none"}]
    BY <1>4 DEF FailItem, TypeOK, ItemStatuses, WorkerTerminal
  <2>2. QED BY <1>0, <1>4, <2>1 DEF FailItem, TypeOK
<1>5. CASE RollupReads(w)
  BY <1>0, <1>5 DEF RollupReads, TypeOK
<1>6. CASE RollupWrites(w)
  <2>1. worker[w].seen \in JobStatuses \cup {"none"}
    BY <1>w DEF WorkerRecord
  <2>2. QED BY <1>0, <1>6, <2>1 DEF RollupWrites, TypeOK
<1>7. CASE KillWorker(w)
  BY <1>0, <1>7 DEF KillWorker, TypeOK
<1>8. QED BY <1>1, <1>2, <1>3, <1>4, <1>5, <1>6, <1>7 DEF WorkerStep

\* Every step of a request leaves it a well-typed record.
LEMMA SessionRecords ==
  ASSUME TypeOK, NEW s \in Sessions, Request(s) \/ Progress(s) \/ KillSession(s)
  PROVE  session' \in [Sessions -> SessionRecord]
<1>s. session[s] \in SessionRecord  BY DEF TypeOK
<1>1. CASE CreateJob(s)
  <2>1. PICK j \in Jobs :
          session' = [session EXCEPT ![s] = [IdleSession EXCEPT !.pc = "launched", !.job = j]]
    BY <1>1 DEF CreateJob
  <2>2. [IdleSession EXCEPT !.pc = "launched", !.job = j] \in SessionRecord
    BY DEF IdleSession, SessionRecord
  <2>3. QED BY <2>1, <2>2 DEF TypeOK
<1>2. ASSUME NEW op \in ItemOps, NEW S \in SUBSET Items, Load(s, op, S)
      PROVE  session' \in [Sessions -> SessionRecord]
  <2>1. PICK j \in Jobs :
          session' = [session EXCEPT ![s] =
            [pc |-> "loaded", op |-> op, items |-> S, fresh |-> {i \in S : attempts[i] = 0},
             job |-> j, seen |-> jobStatus[j]]]
    BY <1>2 DEF Load
  <2>2. [pc |-> "loaded", op |-> op, items |-> S, fresh |-> {i \in S : attempts[i] = 0},
         job |-> j, seen |-> jobStatus[j]] \in SessionRecord
    BY DEF SessionRecord, TypeOK
  <2>3. QED BY <2>1, <2>2 DEF TypeOK
<1>3. CASE LoadRetry(s)
  BY <1>2, <1>3 DEF LoadRetry, ItemOps
<1>4. CASE LoadReview(s) \/ LoadApply(s) \/ LoadEdit(s)
  <2>1. PICK i \in Items, op \in ItemOps : Load(s, op, {i})
    BY <1>4 DEF LoadReview, LoadApply, LoadEdit, ItemOps
  <2>2. QED BY <1>2, <2>1
<1>5. CASE LoadCancel(s)
  <2>1. PICK j \in Jobs :
          session' = [session EXCEPT ![s] =
            [IdleSession EXCEPT !.pc = "loaded", !.op = "cancel", !.job = j]]
    BY <1>5 DEF LoadCancel
  <2>2. [IdleSession EXCEPT !.pc = "loaded", !.op = "cancel", !.job = j] \in SessionRecord
    BY DEF IdleSession, SessionRecord, ItemOps
  <2>3. QED BY <2>1, <2>2 DEF TypeOK
<1>6. CASE CommitRetry(s)
  <2>1. session' = [session EXCEPT ![s] =
                      [IdleSession EXCEPT !.pc = "launched", !.job = session[s].job]]
    BY <1>6 DEF CommitRetry, Requeue
  <2>2. [IdleSession EXCEPT !.pc = "launched", !.job = session[s].job] \in SessionRecord
    BY <1>s DEF IdleSession, SessionRecord
  <2>3. QED BY <2>1, <2>2 DEF TypeOK
<1>7. CASE CommitStatus(s) \/ CommitEdit(s) \/ CancelRollupWrites(s) \/ KillSession(s)
           \/ \E w \in Workers : StartDrain(s, w)
  BY <1>7, RestingTypes
     DEF CommitStatus, CommitEdit, CancelRollupWrites, KillSession, StartDrain, TypeOK
<1>8. CASE FlushEdit(s) \/ CommitCancel(s)
  <2>1. PICK p \in {"flushed", "rollup"} :
          session' = [session EXCEPT ![s] = [session[s] EXCEPT !.pc = p]]
    BY <1>8 DEF FlushEdit, CommitCancel
  <2>2. [session[s] EXCEPT !.pc = p] \in SessionRecord
    BY <1>s DEF SessionRecord
  <2>3. QED BY <2>1, <2>2 DEF TypeOK
<1>9. CASE CancelRollupReads(s)
  <2> DEFINE v == Verdict(session[s].job)
  <2>1. [session[s] EXCEPT !.pc = "settling", !.seen = v] \in SessionRecord
    BY <1>s, VerdictType DEF SessionRecord
  <2>2. session' = [session EXCEPT ![s] =
                      IF v \in {"none", jobStatus[session[s].job]} THEN IdleSession
                      ELSE [session[s] EXCEPT !.pc = "settling", !.seen = v]]
    BY <1>9 DEF CancelRollupReads
  <2>3. QED BY <2>1, <2>2, RestingTypes DEF TypeOK
<1>10. QED
  BY <1>1, <1>3, <1>4, <1>5, <1>6, <1>7, <1>8, <1>9 DEF Request, Progress

\* A request's step keeps the types of the tables.
LEMMA SessionTypes ==
  ASSUME TypeOK, NEW s \in Sessions, Request(s) \/ Progress(s) \/ KillSession(s)
  PROVE  TypeOK'
<1>0. session' \in [Sessions -> SessionRecord]
  BY SessionRecords
<1>s. session[s] \in SessionRecord  BY DEF TypeOK
<1> USE DEF TypeOK
<1>1. CASE CreateJob(s)
  <2>1. PICK j \in Jobs :
          /\ jobStatus' = [jobStatus EXCEPT ![j] = "pending"]
          /\ itemStatus' = [i \in Items |-> IF JobOf[i] = j THEN "pending" ELSE itemStatus[i]]
          /\ launches' = [i \in Items |-> IF JobOf[i] = j THEN launches[i] + 1 ELSE launches[i]]
    BY <1>1 DEF CreateJob
  <2>2. QED BY <1>0, <1>1, <2>1 DEF CreateJob, ItemStatuses, JobStatuses
<1>2. CASE \/ LoadRetry(s) \/ LoadReview(s) \/ LoadApply(s) \/ LoadEdit(s) \/ LoadCancel(s)
  <2>1. UNCHANGED <<jobStatus, itemStatus, attempts, worker, launches, debits, crashes>>
    BY <1>2 DEF LoadRetry, LoadReview, LoadApply, LoadEdit, LoadCancel, Load
  <2>2. QED BY <1>0, <2>1
<1>3. CASE CommitRetry(s)
  <2>1. jobStatus' \in [Jobs -> JobStatuses \cup {"none"}]
    BY <1>3 DEF CommitRetry, Requeue, JobStatuses
  <2>2. itemStatus' \in [Items -> ItemStatuses \cup {"none"}]
    BY <1>3 DEF CommitRetry, Requeue, ItemStatuses
  <2>3. attempts' \in [Items -> Nat] /\ launches' \in [Items -> Nat]
    BY <1>3 DEF CommitRetry, Requeue
  <2>4. QED BY <1>0, <1>3, <2>1, <2>2, <2>3 DEF CommitRetry, Requeue
<1>4. CASE CommitStatus(s)
  BY <1>0, <1>4 DEF CommitStatus, ItemStatuses, WorkerTerminal
<1>5. CASE FlushEdit(s) \/ CommitEdit(s) \/ CancelRollupReads(s)
  BY <1>0, <1>5 DEF FlushEdit, CommitEdit, CancelRollupReads
<1>6. CASE CommitCancel(s)
  BY <1>0, <1>6 DEF CommitCancel, ItemStatuses, WorkerTerminal
<1>7. CASE CancelRollupWrites(s)
  BY <1>0, <1>s, <1>7 DEF CancelRollupWrites, SessionRecord
<1>8. CASE \E w \in Workers : StartDrain(s, w)
  BY <1>0, <1>8, RestingTypes DEF StartDrain
<1>9. CASE KillSession(s)
  BY <1>0, <1>9 DEF KillSession
<1>10. QED
  BY <1>1, <1>2, <1>3, <1>4, <1>5, <1>6, <1>7, <1>8, <1>9 DEF Request, Progress

\* Every step keeps the state well typed.
LEMMA StepType == TypeOK /\ [Next]_vars => TypeOK'
<1> SUFFICES ASSUME TypeOK, [Next]_vars PROVE TypeOK'
  OBVIOUS
<1>1. CASE UNCHANGED vars
  BY <1>1 DEF TypeOK, vars
<1>2. CASE Next
  BY <1>2, WorkerTypes, SessionTypes DEF Next
<1>3. QED BY <1>1, <1>2

\* The tables and the tasks always hold values of their types.
THEOREM TypeInvariant == Spec => []TypeOK
  BY InitType, StepType, PTL DEF Spec

-----------------------------------------------------------------------------
(* A launch is charged at most once *)

\* One waiting launch when the item is pending.
Waiting(i) == IF itemStatus[i] = "pending" THEN 1 ELSE 0

\* The workers holding an item can be counted, before and after a step.
LEMMA HoldersFinite ==
  \A i : /\ IsFiniteSet(Holders(i)) /\ Cardinality(Holders(i)) \in Nat
         /\ IsFiniteSet(Holders(i)') /\ Cardinality(Holders(i)') \in Nat
<1> TAKE i
<1>1. Holders(i) \subseteq Workers /\ Holders(i)' \subseteq Workers
  BY DEF Holders
<1>2. QED BY <1>1, QueueAssumption, FS_Subset, FS_CardinalityType DEF QueueAssumption

\* A step that changes one worker from not working to not working moves no holder.
LEMMA SameHolders ==
  ASSUME TypeOK, NEW w \in Workers, NEW r,
         worker[w].pc # "working", r.pc # "working",
         worker' = [worker EXCEPT ![w] = r]
  PROVE  \A i : Holders(i)' = Holders(i)
  BY DEF Holders, TypeOK

\* A claim adds its worker to the holders of the claimed item.
LEMMA ClaimHolders ==
  ASSUME TypeOK, NEW w \in Workers, NEW k \in Items, worker[w].pc = "polling",
         worker' = [worker EXCEPT ![w] = [pc |-> "working", item |-> k, seen |-> "none"]]
  PROVE  /\ Cardinality(Holders(k)') = Cardinality(Holders(k)) + 1
         /\ \A i : i # k => Holders(i)' = Holders(i)
<1>1. w \notin Holders(k) /\ Holders(k)' = Holders(k) \cup {w}
  BY DEF Holders, TypeOK
<1>2. \A i : i # k => Holders(i)' = Holders(i)
  BY DEF Holders, TypeOK
<1>3. QED BY <1>1, <1>2, HoldersFinite, FS_AddElement

\* A finished attempt removes its worker from the holders of the item.
LEMMA ReleaseHolders ==
  ASSUME TypeOK, NEW w \in Workers, NEW k, worker[w].pc = "working", worker[w].item = k,
         worker' = [worker EXCEPT ![w].pc = "rollup"]
  PROVE  /\ Cardinality(Holders(k)') = Cardinality(Holders(k)) - 1
         /\ \A i : i # k => Holders(i)' = Holders(i)
<1>0. worker' = [worker EXCEPT ![w] = [worker[w] EXCEPT !.pc = "rollup"]]
  OBVIOUS
<1>p. worker'[w].pc = "rollup"
  BY <1>0 DEF TypeOK, WorkerRecord
<1>q. \A v \in Workers : v # w => worker'[v] = worker[v]
  BY <1>0 DEF TypeOK
<1>1. w \in Holders(k) /\ Holders(k)' = Holders(k) \ {w}
  BY <1>p, <1>q DEF Holders
<1>2. \A i : i # k => Holders(i)' = Holders(i)
  BY <1>p, <1>q DEF Holders
<1>3. Cardinality(Holders(k) \ {w}) = Cardinality(Holders(k)) - 1
  BY <1>1, HoldersFinite, FS_RemoveElement
<1>4. QED BY <1>1, <1>2, <1>3

\* Worker steps: a claim turns a waiting launch into a held one, a completion
\* turns a held one into a charged one, a failure makes it wait again or ends it.
LEMMA WorkerCharges ==
  ASSUME TypeOK, ChargeAccount, NEW w \in Workers, WorkerStep(w) \/ KillWorker(w)
  PROVE  ChargeAccount'
<1> SUFFICES ASSUME NEW i \in Items
             PROVE  debits'[i] + Cardinality(Holders(i)') + Waiting(i)' <= launches'[i]
  BY DEF ChargeAccount, Waiting
<1>a. debits[i] + Cardinality(Holders(i)) + Waiting(i) <= launches[i]
  BY DEF ChargeAccount, Waiting
<1>n. /\ debits[i] \in Nat /\ launches[i] \in Nat
      /\ Cardinality(Holders(i)) \in Nat /\ Cardinality(Holders(i)') \in Nat
  BY HoldersFinite DEF TypeOK
<1>1. CASE ClaimNextItem(w)
  <2>1. PICK k \in Items :
          /\ itemStatus[k] = "pending"
          /\ itemStatus' = [itemStatus EXCEPT ![k] = "processing"]
          /\ worker' = [worker EXCEPT ![w] = [pc |-> "working", item |-> k, seen |-> "none"]]
    BY <1>1 DEF ClaimNextItem, Claimable
  <2>2. UNCHANGED <<debits, launches>> /\ worker[w].pc = "polling"
    BY <1>1 DEF ClaimNextItem
  <2>3. CASE i = k
    <3>1. Waiting(i) = 1 /\ Waiting(i)' = 0
      BY <2>1, <2>3 DEF Waiting, TypeOK
    <3>2. Cardinality(Holders(i)') = Cardinality(Holders(i)) + 1
      BY <2>1, <2>2, <2>3, ClaimHolders
    <3>3. QED BY <1>a, <1>n, <2>2, <3>1, <3>2
  <2>4. CASE i # k
    <3>1. Waiting(i)' = Waiting(i)
      BY <2>1, <2>4 DEF Waiting, TypeOK
    <3>2. Holders(i)' = Holders(i)
      BY <2>1, <2>2, <2>4, ClaimHolders
    <3>3. QED BY <1>a, <2>2, <3>1, <3>2
  <2>5. QED BY <2>3, <2>4
<1>2. CASE CompleteItem(w) \/ FailItem(w)
  <2> DEFINE k == worker[w].item
  <2>1. /\ worker[w].pc = "working" /\ worker' = [worker EXCEPT ![w].pc = "rollup"]
        /\ launches' = launches
    BY <1>2 DEF CompleteItem, FailItem
  <2>2. CASE i = k
    <3>1. Cardinality(Holders(i)') = Cardinality(Holders(i)) - 1
      BY <2>1, <2>2, ReleaseHolders
    <3>2. Waiting(i) \in {0, 1}
      BY DEF Waiting
    <3>3. CASE CompleteItem(w)
      <4>1. debits'[i] = debits[i] + 1 /\ Waiting(i)' = 0
        BY <2>2, <3>3 DEF CompleteItem, Waiting, TypeOK
      <4>2. QED BY <1>a, <1>n, <2>1, <3>1, <3>2, <4>1
    <3>4. CASE FailItem(w)
      <4>1. debits' = debits /\ Waiting(i)' \in {0, 1}
        BY <3>4 DEF FailItem, Waiting
      <4>2. QED BY <1>a, <1>n, <2>1, <3>1, <3>2, <4>1
    <3>5. QED BY <1>2, <3>3, <3>4
  <2>3. CASE i # k
    <3>1. Holders(i)' = Holders(i)
      BY <2>1, <2>3, ReleaseHolders
    <3>2. debits'[i] = debits[i] /\ Waiting(i)' = Waiting(i)
      BY <1>2, <2>3 DEF CompleteItem, FailItem, Waiting, TypeOK
    <3>3. QED BY <1>a, <2>1, <3>1, <3>2
  <2>4. QED BY <2>2, <2>3
<1>3. CASE DrainEnds(w) \/ RollupReads(w) \/ RollupWrites(w)
  <2>1. UNCHANGED <<itemStatus, debits, launches>>
    BY <1>3 DEF DrainEnds, RollupReads, RollupWrites
  <2>2. PICK r : /\ worker[w].pc # "working" /\ r.pc # "working"
                 /\ worker' = [worker EXCEPT ![w] = r]
    BY <1>3 DEF DrainEnds, RollupReads, RollupWrites, Polling, IdleWorker
  <2>3. Holders(i)' = Holders(i)
    BY <2>2, SameHolders
  <2>4. QED BY <1>a, <2>1, <2>3 DEF Waiting
<1>4. CASE KillWorker(w)
  <2>1. UNCHANGED <<itemStatus, debits, launches>>
    BY <1>4 DEF KillWorker
  <2>2. worker'[w].pc # "working"
    BY <1>4 DEF KillWorker, Rest, Polling, IdleWorker, TypeOK
  <2>3. \A v \in Workers : v # w => worker'[v] = worker[v]
    BY <1>4 DEF KillWorker, TypeOK
  <2>4. Holders(i)' \subseteq Holders(i)
    BY <2>2, <2>3 DEF Holders
  <2>5. Cardinality(Holders(i)') <= Cardinality(Holders(i))
    BY <2>4, HoldersFinite, FS_Subset
  <2>6. QED BY <1>a, <1>n, <2>1, <2>5 DEF Waiting
<1>5. QED BY <1>1, <1>2, <1>3, <1>4 DEF WorkerStep

\* Request steps: an item starts waiting only together with a new launch.
LEMMA SessionCharges ==
  ASSUME TypeOK, ChargeAccount, NEW s \in Sessions,
         Request(s) \/ Progress(s) \/ KillSession(s)
  PROVE  ChargeAccount'
<1> SUFFICES ASSUME NEW i \in Items
             PROVE  debits'[i] + Cardinality(Holders(i)') + Waiting(i)' <= launches'[i]
  BY DEF ChargeAccount, Waiting
<1>a. debits[i] + Cardinality(Holders(i)) + Waiting(i) <= launches[i]
  BY DEF ChargeAccount, Waiting
<1>n. debits[i] \in Nat /\ launches[i] \in Nat /\ Cardinality(Holders(i)) \in Nat
  BY HoldersFinite DEF TypeOK
<1>w. Waiting(i) \in {0, 1} /\ Waiting(i)' \in {0, 1}
  BY DEF Waiting
<1>1. CASE CreateJob(s) \/ CommitRetry(s)
  <2>1. /\ UNCHANGED <<worker, debits>>
        /\ \/ launches'[i] = launches[i] + 1
           \/ launches'[i] = launches[i] /\ itemStatus'[i] = itemStatus[i]
    <3>1. CASE CreateJob(s)
      BY <3>1 DEF CreateJob
    <3>2. CASE CommitRetry(s)
      BY <3>2 DEF CommitRetry, Requeue
    <3>3. QED BY <1>1, <3>1, <3>2
  <2>2. Holders(i)' = Holders(i)
    BY <2>1 DEF Holders
  <2>3. CASE launches'[i] = launches[i] + 1
    BY <1>a, <1>n, <1>w, <2>1, <2>2, <2>3
  <2>4. CASE launches'[i] = launches[i] /\ itemStatus'[i] = itemStatus[i]
    BY <1>a, <2>1, <2>2, <2>4 DEF Waiting
  <2>5. QED BY <2>1, <2>3, <2>4
<1>2. CASE CommitStatus(s) \/ CommitCancel(s)
  <2>1. /\ UNCHANGED <<worker, debits, launches>>
        /\ itemStatus'[i] # "pending" \/ itemStatus'[i] = itemStatus[i]
    BY <1>2 DEF CommitStatus, CommitCancel
  <2>2. Holders(i)' = Holders(i)
    BY <2>1 DEF Holders
  <2>3. Waiting(i)' <= Waiting(i)
    BY <2>1, <1>w DEF Waiting
  <2>4. QED BY <1>a, <1>n, <1>w, <2>1, <2>2, <2>3
<1>3. CASE \E w \in Workers : StartDrain(s, w)
  <2>1. PICK w \in Workers : worker[w].pc = "off" /\ worker' = [worker EXCEPT ![w] = Polling]
    BY <1>3 DEF StartDrain
  <2>2. Holders(i)' = Holders(i)
    BY <2>1, SameHolders DEF Polling, IdleWorker
  <2>3. UNCHANGED <<itemStatus, debits, launches>>
    BY <1>3 DEF StartDrain
  <2>4. QED BY <1>a, <2>2, <2>3 DEF Waiting
<1>4. CASE \/ LoadRetry(s) \/ LoadReview(s) \/ LoadApply(s) \/ LoadEdit(s) \/ LoadCancel(s)
           \/ FlushEdit(s) \/ CommitEdit(s) \/ CancelRollupReads(s) \/ CancelRollupWrites(s)
           \/ KillSession(s)
  <2>1. UNCHANGED <<itemStatus, worker, debits, launches>>
    BY <1>4 DEF LoadRetry, LoadReview, LoadApply, LoadEdit, LoadCancel, Load, FlushEdit,
                CommitEdit, CancelRollupReads, CancelRollupWrites, KillSession
  <2>2. QED BY <1>a, <2>1 DEF Holders, Waiting
<1>5. QED BY <1>1, <1>2, <1>3, <1>4 DEF Request, Progress

\* Every launch is waiting, held or charged, and never two of them.
THEOREM ChargeInvariant == Spec => []ChargeAccount
<1>1. Init => ChargeAccount
  <2> SUFFICES ASSUME Init, NEW i \in Items
               PROVE  debits[i] + Cardinality(Holders(i)) + Waiting(i) <= launches[i]
    BY DEF ChargeAccount, Waiting
  <2>1. debits[i] = 0 /\ launches[i] = 0 /\ Waiting(i) = 0
    BY DEF Init, Waiting
  <2>2. Holders(i) = {}
    BY DEF Init, Holders, Rest, Polling, IdleWorker
  <2>3. QED BY <2>1, <2>2, FS_EmptySet
<1>2. TypeOK /\ ChargeAccount /\ [Next]_vars => ChargeAccount'
  <2> SUFFICES ASSUME TypeOK, ChargeAccount, [Next]_vars PROVE ChargeAccount'
    OBVIOUS
  <2>1. CASE UNCHANGED vars
    BY <2>1 DEF ChargeAccount, Holders, vars
  <2>2. CASE Next
    BY <2>2, WorkerCharges, SessionCharges DEF Next
  <2>3. QED BY <2>1, <2>2
<1>3. QED BY <1>1, <1>2, TypeInvariant, PTL DEF Spec

\* A launch of an item is charged at most once, whatever its attempts, the
\* retries, cancels and crashes around it.
THEOREM LaunchChargedOnce == Spec => []NoDoubleCharge
<1>1. TypeOK /\ ChargeAccount => NoDoubleCharge
  <2> SUFFICES ASSUME TypeOK, ChargeAccount, NEW i \in Items PROVE debits[i] <= launches[i]
    BY DEF NoDoubleCharge
  <2>1. debits[i] + Cardinality(Holders(i)) + Waiting(i) <= launches[i]
    BY DEF ChargeAccount, Waiting
  <2>2. Waiting(i) \in {0, 1}
    BY DEF Waiting
  <2>3. QED BY <2>1, <2>2, HoldersFinite DEF TypeOK
<1>2. QED BY <1>1, TypeInvariant, ChargeInvariant, PTL

-----------------------------------------------------------------------------
(* The queue implements the launch ledger *)

\* The charges open for an item, as the refinement mapping counts them.
Open(i) == Cardinality(Holders(i)) + Waiting(i)

\* The charges open for an item are a number, since only finitely many sessions hold one.
LEMMA OpenType == \A i : Open(i) \in Nat /\ Open(i)' \in Nat
  BY HoldersFinite DEF Open, Waiting

\* The ledger's steps, in the queue's terms.
LEMMA LedgerLaunch ==
  ASSUME NEW S \in SUBSET Items, debits' = debits,
         launches' = [i \in Items |-> IF i \in S THEN launches[i] + 1 ELSE launches[i]],
         \A i \in S : Open(i)' \in {Open(i), Open(i) + 1},
         \A i \in Items \ S : Open(i)' = Open(i)
  PROVE  Ledger!Next
<1>1. Ledger!Launch(S)
  BY DEF Ledger!Launch, Open, Waiting
<1>2. QED BY <1>1 DEF Ledger!Next

\* A debit that closes a charge of its item is the ledger's Charge.
LEMMA LedgerCharge ==
  ASSUME NEW k \in Items, launches' = launches, debits' = [debits EXCEPT ![k] = @ + 1],
         Open(k)' < Open(k), \A i \in Items \ {k} : Open(i)' = Open(i)
  PROVE  Ledger!Next
<1>1. Ledger!Charge(k)
  BY DEF Ledger!Charge, Open, Waiting
<1>2. QED BY <1>1 DEF Ledger!Next

\* A step that only drops open charges is the ledger's GiveUp.
LEMMA LedgerGiveUp ==
  ASSUME launches' = launches, debits' = debits, \A i \in Items : Open(i)' <= Open(i)
  PROVE  Ledger!Next
<1>1. Ledger!GiveUp
  BY DEF Ledger!GiveUp, Open, Waiting
<1>2. QED BY <1>1 DEF Ledger!Next

\* A worker at work, and one that rolls up, has taken an item.
HeldItem ==
  \A w \in Workers : worker[w].pc \in {"working", "rollup", "settling"} => worker[w].item \in Items

\* In every reachable state a worker at work has taken an item.
LEMMA HeldItemInvariant == Spec => []HeldItem
<1>1. Init => HeldItem
  BY DEF Init, HeldItem, Rest, Polling, IdleWorker
<1>2. TypeOK /\ HeldItem /\ [Next]_vars => HeldItem'
  <2> SUFFICES ASSUME TypeOK, HeldItem, [Next]_vars PROVE HeldItem'
    OBVIOUS
  <2>r. \A v : Polling.pc = "polling" /\ Rest(v).pc \in {"polling", "off"} /\ IdleWorker.pc = "off"
    BY DEF Rest, Polling, IdleWorker
  <2>1. CASE worker' = worker
    BY <2>1 DEF HeldItem
  <2>2. ASSUME NEW w \in Workers, WorkerStep(w) \/ KillWorker(w) PROVE HeldItem'
    <3>1. \A v \in Workers \ {w} : worker'[v] = worker[v]
      BY <2>2 DEF WorkerStep, ClaimNextItem, DrainEnds, CompleteItem, FailItem, RollupReads,
                  RollupWrites, KillWorker, TypeOK
    <3>2. CASE ClaimNextItem(w)
      <4>1. worker'[w].item \in Items
        BY <3>2 DEF ClaimNextItem, Claimable, TypeOK
      <4>2. QED BY <3>1, <4>1 DEF HeldItem
    <3>3. CASE CompleteItem(w) \/ FailItem(w) \/ RollupReads(w)
      <4>1. worker'[w].item = worker[w].item \/ worker'[w] = Polling
        BY <3>3 DEF CompleteItem, FailItem, RollupReads, TypeOK, WorkerRecord
      <4>2. worker[w].pc \in {"working", "rollup"}
        BY <3>3 DEF CompleteItem, FailItem, RollupReads
      <4>3. QED BY <2>r, <3>1, <4>1, <4>2 DEF HeldItem
    <3>4. CASE DrainEnds(w) \/ RollupWrites(w) \/ KillWorker(w)
      <4>1. worker'[w].pc \in {"polling", "off"}
        BY <2>r, <3>4 DEF DrainEnds, RollupWrites, KillWorker, TypeOK
      <4>2. QED BY <3>1, <4>1 DEF HeldItem
    <3>5. QED BY <2>2, <3>2, <3>3, <3>4 DEF WorkerStep
  <2>3. ASSUME NEW s \in Sessions, NEW w \in Workers, StartDrain(s, w) PROVE HeldItem'
    BY <2>r, <2>3 DEF StartDrain, HeldItem, TypeOK
  <2>4. ASSUME NEW s \in Sessions, Request(s) \/ Progress(s) \/ KillSession(s) PROVE HeldItem'
    BY <2>1, <2>3, <2>4
       DEF Request, Progress, CreateJob, LoadRetry, LoadReview, LoadApply, LoadEdit, Load,
           LoadCancel, CommitRetry, Requeue, CommitStatus, FlushEdit, CommitEdit, CommitCancel,
           CancelRollupReads, CancelRollupWrites, KillSession
  <2>5. QED BY <2>1, <2>2, <2>4 DEF Next, vars
<1>3. QED BY <1>1, <1>2, TypeInvariant, PTL DEF Spec

\* A worker's step gives up a charge, makes one, or moves none: a claim turns the
\* waiting charge into a held one, a completion may also absorb one that waits.
LEMMA WorkerLedger ==
  ASSUME TypeOK, HeldItem, NEW w \in Workers, WorkerStep(w) \/ KillWorker(w)
  PROVE  Ledger!Next
<1>n. \A i : /\ Cardinality(Holders(i)) \in Nat /\ Cardinality(Holders(i)') \in Nat
             /\ Waiting(i) \in {0, 1} /\ Waiting(i)' \in {0, 1}
  BY HoldersFinite DEF Waiting
<1>1. CASE ClaimNextItem(w)
  <2>1. PICK k \in Items :
          /\ itemStatus[k] = "pending"
          /\ itemStatus' = [itemStatus EXCEPT ![k] = "processing"]
          /\ worker' = [worker EXCEPT ![w] = [pc |-> "working", item |-> k, seen |-> "none"]]
    BY <1>1 DEF ClaimNextItem, Claimable
  <2>2. UNCHANGED <<debits, launches>> /\ worker[w].pc = "polling"
    BY <1>1 DEF ClaimNextItem
  <2>3. Cardinality(Holders(k)') = Cardinality(Holders(k)) + 1
    BY <2>1, <2>2, ClaimHolders
  <2>4. Waiting(k) = 1 /\ Waiting(k)' = 0
    BY <2>1 DEF Waiting, TypeOK
  <2>5. \A i \in Items \ {k} : Holders(i)' = Holders(i) /\ Waiting(i)' = Waiting(i)
    BY <2>1, <2>2, ClaimHolders DEF Waiting, TypeOK
  <2>6. \A i \in Items : Open(i)' <= Open(i)
    <3> SUFFICES ASSUME NEW i \in Items PROVE Open(i)' <= Open(i)
      OBVIOUS
    <3>1. CASE i = k   BY <1>n, <2>3, <2>4, <3>1 DEF Open
    <3>2. CASE i # k   BY <1>n, <2>5, <3>2 DEF Open
    <3>3. QED BY <3>1, <3>2
  <2>7. QED BY <2>2, <2>6, LedgerGiveUp
<1>2. CASE CompleteItem(w) \/ FailItem(w)
  <2>1. PICK k \in Items :
          /\ worker[w].pc = "working" /\ worker[w].item = k
          /\ worker' = [worker EXCEPT ![w].pc = "rollup"] /\ launches' = launches
    BY <1>2 DEF CompleteItem, FailItem, HeldItem
  <2>2. Cardinality(Holders(k)') = Cardinality(Holders(k)) - 1
    BY <2>1, ReleaseHolders
  <2>3. \A i \in Items \ {k} : Open(i)' = Open(i)
    <3>1. \A i \in Items \ {k} : Holders(i)' = Holders(i)
      BY <2>1, ReleaseHolders
    <3>2. \A i \in Items \ {k} : Waiting(i)' = Waiting(i)
      BY <1>2, <2>1 DEF CompleteItem, FailItem, Waiting, TypeOK
    <3>3. QED BY <3>1, <3>2 DEF Open
  <2>4. CASE CompleteItem(w)
    <3>1. debits' = [debits EXCEPT ![k] = @ + 1] /\ Waiting(k)' = 0
      BY <2>1, <2>4 DEF CompleteItem, Waiting, TypeOK
    <3>2. Open(k)' < Open(k)
      BY <1>n, <2>2, <3>1 DEF Open
    <3>3. QED BY <2>1, <2>3, <3>1, <3>2, LedgerCharge
  <2>5. CASE FailItem(w)
    <3>1. debits' = debits
      BY <2>5 DEF FailItem
    <3>2. Open(k)' <= Open(k)
      BY <1>n, <2>2 DEF Open
    <3>3. \A i \in Items : Open(i)' <= Open(i)
      BY <2>3, <3>2, OpenType
    <3>4. QED BY <2>1, <3>1, <3>3, LedgerGiveUp
  <2>6. QED BY <1>2, <2>4, <2>5
<1>3. CASE DrainEnds(w) \/ RollupReads(w) \/ RollupWrites(w)
  <2>1. UNCHANGED <<itemStatus, debits, launches>>
    BY <1>3 DEF DrainEnds, RollupReads, RollupWrites
  <2>2. PICK r : /\ worker[w].pc # "working" /\ r.pc # "working"
                 /\ worker' = [worker EXCEPT ![w] = r]
    BY <1>3 DEF DrainEnds, RollupReads, RollupWrites, Polling, IdleWorker
  <2>3. \A i \in Items : Open(i)' = Open(i)
    BY <2>1, <2>2, SameHolders DEF Open, Waiting
  <2>4. QED BY <2>1, <2>3, OpenType, LedgerGiveUp
<1>4. CASE KillWorker(w)
  <2>1. UNCHANGED <<itemStatus, debits, launches>>
    BY <1>4 DEF KillWorker
  <2>2. worker'[w].pc # "working" /\ \A v \in Workers : v # w => worker'[v] = worker[v]
    BY <1>4 DEF KillWorker, Rest, Polling, IdleWorker, TypeOK
  <2>3. \A i \in Items : Cardinality(Holders(i)') <= Cardinality(Holders(i))
    BY <2>2, HoldersFinite, FS_Subset DEF Holders
  <2>4. \A i \in Items : Open(i)' <= Open(i)
    BY <1>n, <2>1, <2>3 DEF Open, Waiting
  <2>5. QED BY <2>1, <2>4, LedgerGiveUp
<1>5. QED BY <1>1, <1>2, <1>3, <1>4 DEF WorkerStep

\* A request's step launches the items it makes pending, or moves no charge but
\* those a cancel gives up.
LEMMA SessionLedger ==
  ASSUME TypeOK, NEW s \in Sessions, Request(s) \/ Progress(s) \/ KillSession(s)
  PROVE  Ledger!Next
<1>w. \A i : Waiting(i) \in {0, 1} /\ Waiting(i)' \in {0, 1}
  BY DEF Waiting
<1>1. CASE CreateJob(s) \/ CommitRetry(s)
  <2>1. UNCHANGED <<worker, debits>>
    BY <1>1 DEF CreateJob, CommitRetry, Requeue
  <2>2. PICK S \in SUBSET Items :
          /\ itemStatus' = [i \in Items |-> IF i \in S THEN "pending" ELSE itemStatus[i]]
          /\ launches' = [i \in Items |-> IF i \in S THEN launches[i] + 1 ELSE launches[i]]
    <3>1. CASE CreateJob(s)
      <4>1. PICK j \in Jobs :
          /\ itemStatus' = [i \in Items |-> IF JobOf[i] = j THEN "pending" ELSE itemStatus[i]]
          /\ launches' = [i \in Items |-> IF JobOf[i] = j THEN launches[i] + 1 ELSE launches[i]]
        BY <3>1 DEF CreateJob
      <4>2. ItemsOf(j) \in SUBSET Items /\ \A i \in Items : i \in ItemsOf(j) <=> JobOf[i] = j
        BY DEF ItemsOf
      <4>3. QED BY <4>1, <4>2
    <3>2. CASE CommitRetry(s)
      <4>1. session[s].items \in SUBSET Items
        BY DEF TypeOK, SessionRecord
      <4>2. QED BY <3>2, <4>1 DEF CommitRetry, Requeue
    <3>3. QED BY <1>1, <3>1, <3>2
  <2>3. \A i \in Items : Holders(i)' = Holders(i)
    BY <2>1 DEF Holders
  <2>4. \A i \in S : Open(i)' \in {Open(i), Open(i) + 1}
    <3> SUFFICES ASSUME NEW i \in S PROVE Open(i)' \in {Open(i), Open(i) + 1}
      OBVIOUS
    <3>1. Waiting(i)' = 1
      BY <2>2 DEF Waiting
    <3>2. QED BY <1>w, <2>3, <3>1, HoldersFinite DEF Open
  <2>5. \A i \in Items \ S : Open(i)' = Open(i)
    BY <2>2, <2>3 DEF Open, Waiting
  <2>6. QED BY <2>1, <2>2, <2>4, <2>5, LedgerLaunch
<1>2. CASE CommitStatus(s) \/ CommitCancel(s)
  <2>1. /\ UNCHANGED <<worker, debits, launches>>
        /\ \A i \in Items : itemStatus'[i] # "pending" \/ itemStatus'[i] = itemStatus[i]
    BY <1>2 DEF CommitStatus, CommitCancel
  <2>2. \A i \in Items : Waiting(i)' <= Waiting(i)
    BY <2>1, <1>w DEF Waiting
  <2>3. \A i \in Items : Holders(i)' = Holders(i)
    BY <2>1 DEF Holders
  <2>4. \A i \in Items : Open(i)' <= Open(i)
    BY <1>w, <2>2, <2>3, HoldersFinite DEF Open
  <2>5. QED BY <2>1, <2>4, LedgerGiveUp
<1>3. CASE \E w \in Workers : StartDrain(s, w)
  <2>1. PICK w \in Workers : worker[w].pc = "off" /\ worker' = [worker EXCEPT ![w] = Polling]
    BY <1>3 DEF StartDrain
  <2>2. UNCHANGED <<itemStatus, debits, launches>>
    BY <1>3 DEF StartDrain
  <2>3. \A i \in Items : Holders(i)' = Holders(i)
    BY <2>1, SameHolders DEF Polling, IdleWorker
  <2>4. QED BY <2>2, <2>3, OpenType, LedgerGiveUp DEF Open, Waiting
<1>4. CASE \/ LoadRetry(s) \/ LoadReview(s) \/ LoadApply(s) \/ LoadEdit(s) \/ LoadCancel(s)
           \/ FlushEdit(s) \/ CommitEdit(s) \/ CancelRollupReads(s) \/ CancelRollupWrites(s)
           \/ KillSession(s)
  <2>1. UNCHANGED <<itemStatus, worker, debits, launches>>
    BY <1>4 DEF LoadRetry, LoadReview, LoadApply, LoadEdit, LoadCancel, Load, FlushEdit,
                CommitEdit, CancelRollupReads, CancelRollupWrites, KillSession
  <2>2. \A i \in Items : Open(i)' = Open(i)
    BY <2>1 DEF Open, Waiting, Holders
  <2>3. QED BY <2>1, <2>2, OpenType, LedgerGiveUp
<1>5. QED BY <1>1, <1>2, <1>3, <1>4 DEF Request, Progress

\* The queue refines the launch ledger: only a launch opens a charge, and each
\* charge of the ledger uses one up.
THEOREM QueueImplementsLedger == Spec => ImplementsLedger
<1>1. Init => Ledger!Init
  <2> SUFFICES ASSUME Init PROVE Ledger!Init
    OBVIOUS
  <2>1. \A i \in Items : Open(i) = 0
    BY FS_EmptySet DEF Init, Open, Waiting, Holders, Rest, Polling, IdleWorker
  <2>2. QED BY <2>1 DEF Init, Ledger!Init, Open, Waiting
<1>2. TypeOK /\ HeldItem /\ [Next]_vars => [Ledger!Next]_(Ledger!vars)
  <2> SUFFICES ASSUME TypeOK, HeldItem, [Next]_vars PROVE [Ledger!Next]_(Ledger!vars)
    OBVIOUS
  <2>1. CASE UNCHANGED vars
    BY <2>1 DEF vars, Ledger!vars, Holders
  <2>2. CASE Next
    BY <2>2, WorkerLedger, SessionLedger DEF Next
  <2>3. QED BY <2>1, <2>2
<1>3. QED BY <1>1, <1>2, TypeInvariant, HeldItemInvariant, PTL DEF Spec, ImplementsLedger, Ledger!Spec

-----------------------------------------------------------------------------
(* Requests one at a time *)

\* The handlers hold no lock between reading a row and committing, so what follows is
\* true only of requests that do not overlap; workers and crashes interleave freely.
OneRequest == \A s, t \in Sessions : s = t

\* An item exists only together with its job.
ItemsOfNoJob == \A i \in Items : jobStatus[JobOf[i]] = "none" => itemStatus[i] = "none"

\* A roll-up writes a final status, never "none" and never a running one.
SettlesFinally ==
  /\ \A w \in Workers : worker[w].pc = "settling" => worker[w].seen \in JobStatuses \ Running
  /\ \A s \in Sessions : session[s].pc = "settling" => session[s].seen \in JobStatuses \ Running

\* What a request has read and checked still holds when it commits.
LoadStands ==
  \A s \in Sessions :
    session[s].pc \in {"loaded", "flushed"} /\ session[s].op \in ItemOps =>
      /\ session[s].items # {} /\ session[s].items \subseteq ItemsOf(session[s].job)
      /\ \A i \in session[s].items : itemStatus[i] \in AllowedFrom[session[s].op]

\* Only edits are flushed before they commit.
FlushedEdits == \A s \in Sessions : session[s].pc = "flushed" => session[s].op = "edit"

\* The item a worker is at is marked as being processed.
HeldIsProcessing ==
  \A w \in Workers : worker[w].pc = "working" => itemStatus[worker[w].item] = "processing"

Serial ==
  /\ ItemsOfNoJob /\ SettlesFinally /\ LoadStands /\ FlushedEdits
  /\ HeldIsProcessing /\ ExclusiveClaim

\* A verdict is a final status of a job or "none".
LEMMA VerdictFinal == \A j : Verdict(j) = "none" \/ Verdict(j) \in JobStatuses \ Running
  BY DEF Verdict, JobStatuses, Running

\* No request accepts an item that waits, is processed or does not exist.
LEMMA AllowedSettled ==
  \A op \in ItemOps : AllowedFrom[op] \subseteq WorkerTerminal
  BY DEF ItemOps, AllowedFrom, Retryable, WorkerTerminal

\* Where a worker and a request rest.
LEMMA RestingPcs ==
  /\ Polling.pc = "polling" /\ IdleWorker.pc = "off" /\ IdleSession.pc = "idle"
  /\ \A v : Rest(v).pc \in {"polling", "off"}
  BY DEF Rest, Polling, IdleWorker, IdleSession

\* A worker moves an item only by claiming it when it waits, or by ending its own
\* work on it; it writes the status of an existing job only.
LEMMA WorkerMoves ==
  ASSUME TypeOK, HeldItem, Serial, NEW w \in Workers, WorkerStep(w) \/ KillWorker(w)
  PROVE  /\ \A v \in Workers \ {w} : worker'[v] = worker[v]
         /\ session' = session
         /\ \A i \in Items : itemStatus'[i] = itemStatus[i] \/ itemStatus[i] \in Running
         /\ \A i \in Items : itemStatus[i] # "none" => itemStatus'[i] # "none"
         /\ \A i \in Items : itemStatus[i] = "none" => itemStatus'[i] = "none"
         /\ \A j \in Jobs : jobStatus'[j] = "none" => jobStatus[j] = "none"
<1>w. worker[w].pc \in {"working", "rollup", "settling"} => worker[w].item \in Items
  BY DEF HeldItem
<1> USE DEF Running, WorkerTerminal
<1>1. CASE ClaimNextItem(w)
  <2>1. PICK k \in Items :
          /\ itemStatus[k] = "pending"
          /\ itemStatus' = [itemStatus EXCEPT ![k] = "processing"]
          /\ jobStatus' = [jobStatus EXCEPT ![JobOf[k]] = IF @ = "pending" THEN "processing" ELSE @]
          /\ worker' = [worker EXCEPT ![w] = [pc |-> "working", item |-> k, seen |-> "none"]]
          /\ session' = session
    BY <1>1 DEF ClaimNextItem, Claimable
  <2>2. QED BY <2>1 DEF TypeOK
<1>2. CASE CompleteItem(w) \/ FailItem(w)
  <2>1. PICK k \in Items, x \in {"ready_for_review", "failed", "pending"} :
          /\ itemStatus[k] = "processing"
          /\ itemStatus' = [itemStatus EXCEPT ![k] = x]
          /\ UNCHANGED <<jobStatus, session>>
    BY <1>w, <1>2 DEF CompleteItem, FailItem, Serial, HeldIsProcessing
  <2>2. \A v \in Workers \ {w} : worker'[v] = worker[v]
    BY <1>2 DEF CompleteItem, FailItem, TypeOK
  <2>3. QED BY <2>1, <2>2 DEF TypeOK
<1>3. CASE RollupWrites(w)
  <2>1. worker[w].seen # "none"
    BY <1>3 DEF RollupWrites, Serial, SettlesFinally, JobStatuses
  <2>2. QED BY <1>3, <2>1 DEF RollupWrites, TypeOK
<1>4. CASE DrainEnds(w) \/ RollupReads(w) \/ KillWorker(w)
  BY <1>4 DEF DrainEnds, RollupReads, KillWorker, TypeOK
<1>5. QED BY <1>1, <1>2, <1>3, <1>4 DEF WorkerStep

\* Serial is kept by the workers and their crashes.
LEMMA WorkerSerial ==
  ASSUME TypeOK, HeldItem, Serial, NEW w \in Workers, WorkerStep(w) \/ KillWorker(w)
  PROVE  Serial'
<1>m. /\ \A v \in Workers \ {w} : worker'[v] = worker[v]
      /\ session' = session
      /\ \A i \in Items : itemStatus'[i] = itemStatus[i] \/ itemStatus[i] \in Running
      /\ \A i \in Items : itemStatus[i] = "none" => itemStatus'[i] = "none"
      /\ \A j \in Jobs : jobStatus'[j] = "none" => jobStatus[j] = "none"
  BY WorkerMoves
<1>1. ItemsOfNoJob'
  BY <1>m, QueueAssumption DEF ItemsOfNoJob, Serial, QueueAssumption
<1>2. SettlesFinally'
  <2>1. worker'[w].pc = "settling" => worker'[w].seen \in JobStatuses \ Running
    <3>1. CASE RollupReads(w)
      BY <3>1, VerdictFinal, RestingPcs DEF RollupReads, TypeOK
    <3>2. CASE ~RollupReads(w)
      BY <3>2, RestingPcs
         DEF WorkerStep, ClaimNextItem, DrainEnds, CompleteItem, FailItem, RollupWrites,
             KillWorker, TypeOK, WorkerRecord
    <3>3. QED BY <3>1, <3>2
  <2>2. QED BY <1>m, <2>1 DEF SettlesFinally, Serial
<1>3. LoadStands' /\ FlushedEdits'
  <2>1. ASSUME NEW s \in Sessions, session[s].pc \in {"loaded", "flushed"},
               session[s].op \in ItemOps, NEW i \in session[s].items
        PROVE  itemStatus'[i] = itemStatus[i]
    <3>1. i \in Items /\ itemStatus[i] \in WorkerTerminal
      BY <2>1, AllowedSettled DEF LoadStands, Serial, ItemsOf
    <3>2. QED BY <1>m, <3>1 DEF Running, WorkerTerminal
  <2>2. QED BY <1>m, <2>1 DEF LoadStands, FlushedEdits, Serial
<1>4. HeldIsProcessing' /\ ExclusiveClaim'
  <2> USE DEF Serial, HeldIsProcessing, ExclusiveClaim
  <2>1. CASE ClaimNextItem(w)
    <3>1. PICK k \in Items :
            /\ itemStatus[k] = "pending"
            /\ itemStatus' = [itemStatus EXCEPT ![k] = "processing"]
            /\ worker' = [worker EXCEPT ![w] = [pc |-> "working", item |-> k, seen |-> "none"]]
      BY <2>1 DEF ClaimNextItem, Claimable
    <3>2. \A v \in Workers : worker[v].pc = "working" => worker[v].item \in Items \ {k}
      BY <3>1 DEF HeldItem
    <3>3. worker'[w].pc = "working" /\ worker'[w].item = k
      BY <3>1 DEF TypeOK
    <3>4. HeldIsProcessing'
      BY <1>m, <3>1, <3>2, <3>3 DEF TypeOK
    <3>5. ExclusiveClaim'
      BY <1>m, <3>2, <3>3
    <3>6. QED BY <3>4, <3>5
  <2>2. CASE ~ClaimNextItem(w)
    <3>1. worker'[w].pc # "working"
      BY <2>2, RestingPcs
         DEF WorkerStep, DrainEnds, CompleteItem, FailItem, RollupReads, RollupWrites,
             KillWorker, TypeOK, WorkerRecord
    <3>2. ExclusiveClaim'
      BY <1>m, <3>1
    <3>3. ASSUME NEW v \in Workers \ {w}, worker[v].pc = "working"
          PROVE  itemStatus'[worker[v].item] = itemStatus[worker[v].item]
      <4>1. worker[w].pc = "working" => worker[v].item # worker[w].item
        BY <3>3
      <4>2. QED
        BY <2>2, <3>3, <4>1
           DEF WorkerStep, DrainEnds, CompleteItem, FailItem, RollupReads, RollupWrites,
               KillWorker, TypeOK, HeldItem
    <3>4. HeldIsProcessing'
      BY <1>m, <3>1, <3>3
    <3>5. QED BY <3>2, <3>4
  <2>3. QED BY <2>1, <2>2
<1>5. QED BY <1>1, <1>2, <1>3, <1>4 DEF Serial

\* A request moves no item that is being processed or applied, creates items only with
\* their job, and touches of the workers only one that was off.
LEMMA SessionMoves ==
  ASSUME OneRequest, TypeOK, Serial, NEW s \in Sessions,
         Request(s) \/ Progress(s) \/ KillSession(s)
  PROVE  /\ \A i \in Items : itemStatus'[i] # itemStatus[i] =>
                               itemStatus[i] \notin {"processing", "applied"}
         /\ \A i \in Items : jobStatus'[JobOf[i]] = "none" /\ itemStatus[i] = "none"
                               => itemStatus'[i] = "none"
         /\ \A j \in Jobs : jobStatus'[j] = "none" => jobStatus[j] = "none"
         /\ \A w \in Workers : \/ worker'[w] = worker[w]
                               \/ worker[w].pc = "off" /\ worker'[w] = Polling
<1>j. \A i \in Items : JobOf[i] \in Jobs
  BY QueueAssumption DEF QueueAssumption
<1>l. ASSUME session[s].pc \in {"loaded", "flushed"}, session[s].op \in ItemOps
      PROVE  /\ session[s].items \subseteq Items /\ session[s].items \subseteq ItemsOf(session[s].job)
             /\ \A i \in session[s].items :
                  itemStatus[i] \in AllowedFrom[session[s].op]
  BY <1>l DEF Serial, LoadStands, ItemsOf
<1>1. CASE CreateJob(s)
  <2>1. PICK j \in Jobs :
          /\ jobStatus[j] = "none" /\ jobStatus' = [jobStatus EXCEPT ![j] = "pending"]
          /\ itemStatus' = [i \in Items |-> IF JobOf[i] = j THEN "pending" ELSE itemStatus[i]]
          /\ worker' = worker
    BY <1>1 DEF CreateJob
  <2>2. \A i \in Items : JobOf[i] = j => itemStatus[i] = "none"
    BY <2>1 DEF Serial, ItemsOfNoJob
  <2>3. QED BY <1>j, <2>1, <2>2 DEF TypeOK
<1>2. CASE CommitRetry(s)
  <2>1. \A i \in session[s].items : itemStatus[i] \in {"ready_for_review", "rejected", "failed"}
    BY <1>l, <1>2 DEF CommitRetry, Requeue, AllowedFrom, Retryable, ItemOps
  <2>2. QED BY <1>j, <1>2, <2>1 DEF CommitRetry, Requeue, TypeOK
<1>3. CASE CommitStatus(s)
  <2>1. \A i \in session[s].items :
          itemStatus[i] \in {"ready_for_review", "approved", "failed"}
    BY <1>l, <1>3 DEF CommitStatus, AllowedFrom, ItemOps
  <2>2. QED BY <1>3, <2>1 DEF CommitStatus, TypeOK
<1>4. CASE CommitCancel(s)
  BY <1>4 DEF CommitCancel, TypeOK
<1>5. CASE CancelRollupWrites(s)
  <2>1. session[s].seen # "none"
    BY <1>5 DEF CancelRollupWrites, Serial, SettlesFinally, JobStatuses
  <2>2. QED BY <1>5, <2>1 DEF CancelRollupWrites, TypeOK
<1>6. CASE \E w \in Workers : StartDrain(s, w)
  BY <1>6 DEF StartDrain, TypeOK
<1>7. CASE \/ LoadRetry(s) \/ LoadReview(s) \/ LoadApply(s) \/ LoadEdit(s) \/ LoadCancel(s)
           \/ FlushEdit(s) \/ CommitEdit(s) \/ CancelRollupReads(s) \/ KillSession(s)
  <2>1. UNCHANGED <<jobStatus, itemStatus, worker>>
    BY <1>7 DEF LoadRetry, LoadReview, LoadApply, LoadEdit, LoadCancel, Load, FlushEdit,
                CommitEdit, CancelRollupReads, KillSession
  <2>2. QED BY <2>1
<1>8. QED BY <1>1, <1>2, <1>3, <1>4, <1>5, <1>6, <1>7 DEF Request, Progress

\* What a request leaves in its own record: checks that stand, or nothing.
LEMMA SessionRecordStands ==
  ASSUME OneRequest, TypeOK, Serial, NEW s \in Sessions,
         Request(s) \/ Progress(s) \/ KillSession(s)
  PROVE  LoadStands' /\ FlushedEdits' /\ \A t \in Sessions :
           session'[t].pc = "settling" => session'[t].seen \in JobStatuses \ Running
<1>o. \A t \in Sessions : t = s
  BY DEF OneRequest
<1>1. ASSUME NEW op \in ItemOps, NEW S \in SUBSET Items, Load(s, op, S)
      PROVE  /\ session'[s].pc = "loaded" /\ session'[s].op = op /\ session'[s].items = S
             /\ S # {} /\ S \subseteq ItemsOf(session'[s].job)
             /\ \A i \in S : itemStatus'[i] \in AllowedFrom[op]
  BY <1>1 DEF Load, TypeOK
<1>2. CASE LoadRetry(s) \/ LoadReview(s) \/ LoadApply(s) \/ LoadEdit(s)
  <2>1. PICK op \in ItemOps, S \in SUBSET Items : Load(s, op, S)
    BY <1>2 DEF LoadRetry, LoadReview, LoadApply, LoadEdit, ItemOps
  <2>2. QED BY <1>1, <1>o, <2>1 DEF LoadStands, FlushedEdits
<1>3. CASE FlushEdit(s)
  <2>1. /\ session'[s].pc = "flushed" /\ session'[s].op = "edit" /\ session[s].op = "edit"
        /\ session'[s].items = session[s].items /\ session'[s].job = session[s].job
        /\ itemStatus' = itemStatus /\ session[s].pc = "loaded"
    BY <1>3 DEF FlushEdit, TypeOK, SessionRecord
  <2>2. QED BY <1>o, <2>1 DEF LoadStands, FlushedEdits, Serial
<1>4. CASE CancelRollupReads(s)
  <2>1. \/ session'[s].pc = "settling" /\ session'[s].seen \in JobStatuses \ Running
        \/ session'[s].pc = "idle"
    BY <1>4, VerdictFinal, RestingPcs DEF CancelRollupReads, TypeOK, SessionRecord
  <2>2. QED BY <1>o, <2>1 DEF LoadStands, FlushedEdits
<1>5. CASE LoadCancel(s)
  <2>1. session'[s].pc = "loaded" /\ session'[s].op = "cancel"
    BY <1>5 DEF LoadCancel, TypeOK, IdleSession
  <2>2. QED BY <1>o, <2>1 DEF LoadStands, FlushedEdits, ItemOps
<1>6. CASE \/ CreateJob(s) \/ CommitRetry(s) \/ CommitStatus(s) \/ CommitEdit(s)
           \/ CommitCancel(s) \/ CancelRollupWrites(s) \/ (\E w \in Workers : StartDrain(s, w))
           \/ KillSession(s)
  <2>1. session'[s].pc \in {"launched", "idle", "rollup"}
    BY <1>6, RestingPcs
       DEF CreateJob, CommitRetry, CommitStatus, CommitEdit, CommitCancel, CancelRollupWrites,
           StartDrain, KillSession, TypeOK, SessionRecord, IdleSession
  <2>2. QED BY <1>o, <2>1 DEF LoadStands, FlushedEdits
<1>7. QED BY <1>2, <1>3, <1>4, <1>5, <1>6 DEF Request, Progress

\* Serial is kept by requests that come one at a time.
LEMMA SessionSerial ==
  ASSUME OneRequest, TypeOK, HeldItem, Serial, NEW s \in Sessions,
         Request(s) \/ Progress(s) \/ KillSession(s)
  PROVE  Serial'
<1>1. ItemsOfNoJob'
  BY SessionMoves, QueueAssumption DEF ItemsOfNoJob, Serial, QueueAssumption
<1>w. \A w \in Workers : worker'[w].pc \in {"working", "settling"} => worker'[w] = worker[w]
  BY SessionMoves, RestingPcs
<1>2. SettlesFinally' /\ LoadStands' /\ FlushedEdits'
  BY <1>w, SessionRecordStands DEF SettlesFinally, Serial
<1>3. HeldIsProcessing' /\ ExclusiveClaim'
  BY <1>w, SessionMoves DEF HeldIsProcessing, ExclusiveClaim, Serial, HeldItem
<1>4. QED BY <1>1, <1>2, <1>3 DEF Serial

\* With one request at a time the invariant of the claims holds of every reachable state.
LEMMA SerialInvariant == ASSUME OneRequest PROVE Spec => []Serial
<1>1. Init => Serial
  BY QueueAssumption, RestingPcs
     DEF Init, Serial, ItemsOfNoJob, SettlesFinally, LoadStands, FlushedEdits,
         HeldIsProcessing, ExclusiveClaim
<1>2. TypeOK /\ HeldItem /\ Serial /\ [Next]_vars => Serial'
  <2> SUFFICES ASSUME TypeOK, HeldItem, Serial, [Next]_vars PROVE Serial'
    OBVIOUS
  <2>1. CASE UNCHANGED vars
    BY <2>1 DEF vars, Serial, ItemsOfNoJob, SettlesFinally, LoadStands, FlushedEdits,
                HeldIsProcessing, ExclusiveClaim
  <2>2. CASE Next
    BY <2>2, WorkerSerial, SessionSerial DEF Next
  <2>3. QED BY <2>1, <2>2
<1>3. QED BY <1>1, <1>2, TypeInvariant, HeldItemInvariant, PTL DEF Spec

\* Two workers never process one item: what SKIP LOCKED promises for a claim holds for
\* the whole attempt, the claims of other workers, retries, cancels and crashes included.
THEOREM OneWorkerPerItem == ASSUME OneRequest PROVE Spec => []ExclusiveClaim
<1>1. Serial => ExclusiveClaim
  BY DEF Serial
<1>2. QED BY <1>1, SerialInvariant, PTL

\* An applied item never changes again: no worker holds it and no request accepts it.
THEOREM AppliedStays == ASSUME OneRequest PROVE Spec => AppliedIsFinal
<1>1. TypeOK /\ HeldItem /\ Serial /\ [Next]_vars =>
        [\A i \in Items : itemStatus[i] = "applied" => itemStatus'[i] = "applied"]_vars
  <2> SUFFICES ASSUME TypeOK, HeldItem, Serial, Next, NEW i \in Items, itemStatus[i] = "applied"
               PROVE  itemStatus'[i] = "applied"
    OBVIOUS
  <2>1. ASSUME NEW w \in Workers, WorkerStep(w) \/ KillWorker(w) PROVE itemStatus'[i] = "applied"
    BY <2>1, WorkerMoves DEF Running
  <2>2. ASSUME NEW s \in Sessions, Request(s) \/ Progress(s) \/ KillSession(s)
        PROVE  itemStatus'[i] = "applied"
    BY <2>2, SessionMoves
  <2>3. QED BY <2>1, <2>2 DEF Next
<1>2. QED BY <1>1, SerialInvariant, TypeInvariant, HeldItemInvariant, PTL DEF Spec, AppliedIsFinal

-----------------------------------------------------------------------------
(* No work is forgotten while no process dies *)

NoCrash == MaxCrashes = 0

\* A flushed request keeps the workers from no item that waits.
LEMMA PendingIsClaimable ==
  ASSUME Serial PROVE Claimable = {i \in Items : itemStatus[i] = "pending"}
<1>1. ASSUME NEW i \in Items, itemStatus[i] = "pending" PROVE ~RowLocked(i)
  <2>1. ASSUME NEW s \in Sessions, session[s].pc = "flushed", i \in session[s].items
        PROVE  FALSE
    <3>1. session[s].op \in ItemOps
      BY <2>1 DEF Serial, FlushedEdits, ItemOps
    <3>2. itemStatus[i] \in WorkerTerminal
      BY <2>1, <3>1, AllowedSettled DEF Serial, LoadStands
    <3>3. QED BY <1>1, <3>2 DEF WorkerTerminal
  <2>2. QED BY <2>1 DEF RowLocked
<1>2. QED BY <1>1 DEF Claimable

\* Where no process dies, no step kills one.
LEMMA NothingDies ==
  ASSUME NoCrash, TypeOK
  PROVE  /\ \A w \in Workers : ~KillWorker(w)
         /\ \A s \in Sessions : ~KillSession(s)
  BY DEF NoCrash, TypeOK, KillWorker, KillSession

\* No lost wake-up: an item that waits has a drain running, or one that its launch has
\* still to start; a drain that ends has seen that nothing waits.
THEOREM PendingIsDrained == ASSUME OneRequest, NoCrash PROVE Spec => []NoOrphanPending
<1>1. Init => NoOrphanPending
  BY DEF Init, NoOrphanPending
<1>2. TypeOK /\ Serial /\ NoOrphanPending /\ [Next]_vars => NoOrphanPending'
  <2> SUFFICES ASSUME TypeOK, Serial, NoOrphanPending, [Next]_vars,
                      NEW i \in Items, itemStatus'[i] = "pending"
               PROVE  \/ \E w \in Workers : worker'[w].pc # "off"
                      \/ \E s \in Sessions : session'[s].pc = "launched"
    BY DEF NoOrphanPending
  <2>1. CASE UNCHANGED vars
    BY <2>1 DEF vars, NoOrphanPending
  <2>2. ASSUME NEW w \in Workers, WorkerStep(w)
        PROVE  \E v \in Workers : worker'[v].pc # "off"
    <3>1. CASE DrainEnds(w)
      <4>1. itemStatus[i] # "pending"
        BY <3>1, PendingIsClaimable DEF DrainEnds, QueueEmpty
      <4>2. QED BY <3>1, <4>1 DEF DrainEnds
    <3>2. CASE ~DrainEnds(w)
      <4>1. worker'[w].pc # "off"
        BY <2>2, <3>2, RestingPcs
           DEF WorkerStep, ClaimNextItem, CompleteItem, FailItem, RollupReads, RollupWrites,
               TypeOK, WorkerRecord
      <4>2. QED BY <4>1
    <3>3. QED BY <3>1, <3>2
  <2>3. ASSUME NEW s \in Sessions, Request(s) \/ Progress(s)
        PROVE  \/ \E w \in Workers : worker'[w].pc # "off"
               \/ \E t \in Sessions : session'[t].pc = "launched"
    <3>1. CASE CreateJob(s) \/ CommitRetry(s)
      BY <3>1 DEF CreateJob, CommitRetry, TypeOK, IdleSession
    <3>2. CASE \E w \in Workers : StartDrain(s, w)
      BY <3>2, RestingPcs DEF StartDrain, TypeOK
    <3>3. CASE ~(CreateJob(s) \/ CommitRetry(s) \/ \E w \in Workers : StartDrain(s, w))
      <4>1. worker' = worker /\ session[s].pc # "launched"
        BY <2>3, <3>3
           DEF Request, Progress, LoadRetry, LoadReview, LoadApply, LoadEdit, Load, LoadCancel,
               CommitStatus, FlushEdit, CommitEdit, CommitCancel, CancelRollupReads,
               CancelRollupWrites
      <4>2. itemStatus[i] = "pending"
        BY <2>3, <3>3
           DEF Request, Progress, LoadRetry, LoadReview, LoadApply, LoadEdit, Load, LoadCancel,
               CommitStatus, FlushEdit, CommitEdit, CommitCancel, CancelRollupReads,
               CancelRollupWrites
      <4>3. \A t \in Sessions : session[t].pc # "launched"
        BY <4>1 DEF OneRequest
      <4>4. QED BY <4>1, <4>2, <4>3 DEF NoOrphanPending
    <3>4. QED BY <3>1, <3>2, <3>3
  <2>4. QED BY <2>1, <2>2, <2>3, NothingDies DEF Next
<1>3. QED BY <1>1, <1>2, TypeInvariant, SerialInvariant, PTL DEF Spec

\* Who owes the job its roll-up.
WorkerOwes(w, j) == worker[w].pc \in {"rollup", "settling"} /\ JobOf[worker[w].item] = j
SessionOwes(s, j) == session[s].pc \in {"rollup", "settling"} /\ session[s].job = j

\* A finished job has a verdict, which is a final status.
LEMMA FinishedVerdict ==
  ASSUME NEW j, Finished(j) PROVE Verdict(j) \in JobStatuses \ Running
  BY DEF Finished, Unfinished, Verdict, JobStatuses, Running

\* A worker that leaves a job's roll-up leaves it settled or unfinished, and one that
\* finishes the last item of a job owes it one.
LEMMA WorkerRollup ==
  ASSUME TypeOK, HeldItem, Serial, RollupOwed, NEW w \in Workers, WorkerStep(w),
         NEW j \in Jobs, jobStatus'[j] \in Running, Finished(j)'
  PROVE  \/ \E v \in Workers : WorkerOwes(v, j)'
         \/ \E s \in Sessions : SessionOwes(s, j)'
<1>w. worker[w].pc \in {"working", "rollup", "settling"} => worker[w].item \in Items
  BY DEF HeldItem
<1>m. (\A v \in Workers \ {w} : worker'[v] = worker[v]) /\ session' = session
  BY WorkerMoves
<1>1. CASE ClaimNextItem(w)
  <2>1. PICK k \in Items :
          /\ itemStatus[k] = "pending"
          /\ itemStatus' = [itemStatus EXCEPT ![k] = "processing"]
          /\ jobStatus' = [jobStatus EXCEPT ![JobOf[k]] = IF @ = "pending" THEN "processing" ELSE @]
    BY <1>1 DEF ClaimNextItem, Claimable
  <2>2. JobOf[k] # j
    BY <2>1 DEF Finished, ItemsOf, TypeOK, WorkerTerminal
  <2>3. jobStatus[j] \in Running /\ Finished(j)
    BY <2>1, <2>2 DEF Finished, ItemsOf, TypeOK
  <2>4. worker[w].pc = "polling"
    BY <1>1 DEF ClaimNextItem
  <2>5. QED BY <1>m, <2>3, <2>4 DEF RollupOwed, Finished, WorkerOwes, SessionOwes
<1>2. CASE CompleteItem(w) \/ FailItem(w)
  <2>1. PICK k \in Items : worker[w].item = k /\ worker[w].pc = "working"
    BY <1>w, <1>2 DEF CompleteItem, FailItem
  <2>2. worker'[w].pc = "rollup" /\ worker'[w].item = k
    BY <1>2, <2>1 DEF CompleteItem, FailItem, TypeOK, WorkerRecord
  <2>3. CASE JobOf[k] = j
    BY <2>2, <2>3 DEF WorkerOwes
  <2>4. CASE JobOf[k] # j
    <3>1. jobStatus[j] \in Running /\ Finished(j)
      BY <1>2, <2>1, <2>4 DEF CompleteItem, FailItem, Finished, ItemsOf, TypeOK
    <3>2. QED BY <1>m, <2>1, <3>1 DEF RollupOwed, Finished, WorkerOwes, SessionOwes
  <2>5. QED BY <2>3, <2>4
<1>3. CASE RollupReads(w)
  <2>1. jobStatus[j] \in Running /\ Finished(j)
    BY <1>3 DEF RollupReads, Finished
  <2>2. CASE JobOf[worker[w].item] = j
    <3>1. Verdict(j) \in JobStatuses \ Running
      BY <2>1, FinishedVerdict
    <3>2. Verdict(j) \notin {"none", jobStatus[j]}
      BY <2>1, <3>1 DEF JobStatuses
    <3>3. worker'[w].pc = "settling" /\ worker'[w].item = worker[w].item
      BY <1>3, <2>2, <3>2 DEF RollupReads, TypeOK
    <3>4. QED BY <2>2, <3>3 DEF WorkerOwes
  <2>3. CASE JobOf[worker[w].item] # j
    BY <1>m, <2>1, <2>3 DEF RollupOwed, Finished, WorkerOwes, SessionOwes
  <2>4. QED BY <2>2, <2>3
<1>4. CASE RollupWrites(w)
  <2>1. worker[w].seen \notin Running
    BY <1>4 DEF RollupWrites, Serial, SettlesFinally
  <2>2. JobOf[worker[w].item] # j /\ jobStatus[j] \in Running /\ Finished(j)
    BY <1>4, <2>1 DEF RollupWrites, Finished, TypeOK
  <2>3. QED BY <1>m, <2>2 DEF RollupOwed, Finished, WorkerOwes, SessionOwes
<1>5. CASE DrainEnds(w)
  <2>1. jobStatus[j] \in Running /\ Finished(j) /\ worker[w].pc = "polling"
    BY <1>5 DEF DrainEnds, Finished
  <2>2. QED BY <1>m, <2>1 DEF RollupOwed, Finished, WorkerOwes, SessionOwes
<1>6. QED BY <1>1, <1>2, <1>3, <1>4, <1>5 DEF WorkerStep

\* A request that ends the last waiting items of a job owes it a roll-up; one that
\* moves ended items leaves the job as finished or unfinished as it was.
LEMMA SessionRollup ==
  ASSUME OneRequest, TypeOK, HeldItem, Serial, RollupOwed, NEW s \in Sessions,
         Request(s) \/ Progress(s),
         NEW j \in Jobs, jobStatus'[j] \in Running, Finished(j)'
  PROVE  \/ \E v \in Workers : WorkerOwes(v, j)'
         \/ \E t \in Sessions : SessionOwes(t, j)'
<1>o. \A t \in Sessions : t = s
  BY DEF OneRequest
<1>a. ASSUME jobStatus[j] \in Running, Finished(j), ~SessionOwes(s, j),
             \A w \in Workers : worker'[w] = worker[w] \/ worker[w].pc = "off"
      PROVE  \E v \in Workers : WorkerOwes(v, j)'
  BY <1>o, <1>a DEF RollupOwed, Finished, WorkerOwes, SessionOwes
<1>1. CASE CreateJob(s)
  <2>1. PICK k \in Jobs :
          /\ jobStatus' = [jobStatus EXCEPT ![k] = "pending"]
          /\ itemStatus' = [i \in Items |-> IF JobOf[i] = k THEN "pending" ELSE itemStatus[i]]
          /\ worker' = worker /\ session[s].pc = "idle"
    BY <1>1 DEF CreateJob
  <2>2. k # j
    BY <2>1 DEF Finished, ItemsOf, WorkerTerminal
  <2>3. jobStatus[j] \in Running /\ Finished(j)
    BY <2>1, <2>2 DEF Finished, ItemsOf, TypeOK
  <2>4. QED BY <1>a, <2>1, <2>3 DEF SessionOwes
<1>2. CASE CommitRetry(s)
  <2> DEFINE r == session[s]
  <2>1. /\ r.pc = "loaded" /\ r.items # {} /\ r.items \subseteq ItemsOf(r.job)
    BY <1>2 DEF CommitRetry, Requeue, Serial, LoadStands, ItemOps
  <2>2. r.job # j
    BY <1>2, <2>1 DEF CommitRetry, Requeue, Finished, ItemsOf, WorkerTerminal
  <2>3. jobStatus[j] \in Running /\ Finished(j)
    BY <1>2, <2>1, <2>2 DEF CommitRetry, Requeue, Finished, ItemsOf, TypeOK
  <2>4. worker' = worker
    BY <1>2 DEF CommitRetry, Requeue
  <2>5. QED BY <1>a, <2>1, <2>3, <2>4 DEF SessionOwes
<1>3. CASE CommitStatus(s)
  <2>1. \A i \in session[s].items : itemStatus[i] \in WorkerTerminal
    BY <1>3, AllowedSettled DEF CommitStatus, Serial, LoadStands, ItemOps
  <2>2. Finished(j) /\ jobStatus[j] \in Running
    BY <1>3, <2>1 DEF CommitStatus, Finished, ItemsOf
  <2>3. QED BY <1>3, <1>a, <2>2 DEF CommitStatus, SessionOwes
<1>4. CASE CommitCancel(s)
  <2>1. session'[s].pc = "rollup" /\ session'[s].job = session[s].job
    BY <1>4 DEF CommitCancel, TypeOK, SessionRecord
  <2>2. CASE session[s].job = j
    BY <2>1, <2>2 DEF SessionOwes
  <2>3. CASE session[s].job # j
    <3>1. Finished(j) /\ jobStatus[j] \in Running
      BY <1>4, <2>3 DEF CommitCancel, Finished, ItemsOf
    <3>2. QED BY <1>4, <1>a, <3>1 DEF CommitCancel, SessionOwes
  <2>4. QED BY <2>2, <2>3
<1>5. CASE CancelRollupReads(s)
  <2>1. jobStatus[j] \in Running /\ Finished(j) /\ worker' = worker
    BY <1>5 DEF CancelRollupReads, Finished
  <2>2. CASE session[s].job = j
    <3>1. Verdict(j) \in JobStatuses \ Running
      BY <2>1, FinishedVerdict
    <3>2. Verdict(j) \notin {"none", jobStatus[j]}
      BY <2>1, <3>1 DEF JobStatuses
    <3>3. session'[s].pc = "settling" /\ session'[s].job = j
      BY <1>5, <2>2, <3>2 DEF CancelRollupReads, TypeOK, SessionRecord
    <3>4. QED BY <3>3 DEF SessionOwes
  <2>3. CASE session[s].job # j
    BY <1>a, <2>1, <2>3 DEF SessionOwes
  <2>4. QED BY <2>2, <2>3
<1>6. CASE CancelRollupWrites(s)
  <2>1. session[s].seen \notin Running
    BY <1>6 DEF CancelRollupWrites, Serial, SettlesFinally
  <2>2. session[s].job # j /\ jobStatus[j] \in Running /\ Finished(j) /\ worker' = worker
    BY <1>6, <2>1 DEF CancelRollupWrites, Finished, TypeOK
  <2>3. QED BY <1>a, <2>2 DEF SessionOwes
<1>7. CASE \/ LoadRetry(s) \/ LoadReview(s) \/ LoadApply(s) \/ LoadEdit(s) \/ LoadCancel(s)
           \/ FlushEdit(s) \/ CommitEdit(s) \/ \E w \in Workers : StartDrain(s, w)
  <2>1. /\ jobStatus[j] \in Running /\ Finished(j)
        /\ session[s].pc \in {"idle", "loaded", "flushed", "launched"}
    BY <1>7 DEF LoadRetry, LoadReview, LoadApply, LoadEdit, LoadCancel, Load, FlushEdit,
                CommitEdit, StartDrain, Finished
  <2>2. \A w \in Workers : worker'[w] = worker[w] \/ worker[w].pc = "off"
    BY SessionMoves
  <2>3. QED BY <1>a, <2>1, <2>2 DEF SessionOwes
<1>8. QED BY <1>1, <1>2, <1>3, <1>4, <1>5, <1>6, <1>7 DEF Request, Progress

\* A finished job is settled, or somebody is about to settle it: whichever of a worker
\* and a cancel ends the last item of a job has its roll-up still to do.
THEOREM FinishedIsRolledUp == ASSUME OneRequest, NoCrash PROVE Spec => []RollupOwed
<1>1. Init => RollupOwed
  BY DEF Init, RollupOwed, Running
<1>2. TypeOK /\ HeldItem /\ Serial /\ RollupOwed /\ [Next]_vars => RollupOwed'
  <2> SUFFICES ASSUME TypeOK, HeldItem, Serial, RollupOwed, [Next]_vars PROVE RollupOwed'
    OBVIOUS
  <2>1. CASE UNCHANGED vars
    BY <2>1 DEF vars, RollupOwed, Finished, ItemsOf
  <2>2. CASE Next
    <3>1. ASSUME NEW j \in Jobs, jobStatus'[j] \in Running, Finished(j)'
          PROVE  \/ \E v \in Workers : WorkerOwes(v, j)'
                 \/ \E t \in Sessions : SessionOwes(t, j)'
      BY <2>2, <3>1, NothingDies, WorkerRollup, SessionRollup DEF Next
    <3>2. QED BY <3>1 DEF RollupOwed, Finished, WorkerOwes, SessionOwes, ItemsOf
  <2>3. QED BY <2>1, <2>2
<1>3. QED BY <1>1, <1>2, TypeInvariant, HeldItemInvariant, SerialInvariant, PTL DEF Spec

=============================================================================
