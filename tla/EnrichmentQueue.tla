--------------------------- MODULE EnrichmentQueue ---------------------------
(***************************************************************************)
(* The enrichment work queue: the jobs and items tables, the workers that  *)
(* drain them and the API requests that launch, retry, cancel, review and  *)
(* apply items while the workers run.                                      *)
(*                                                                         *)
(* The grain is the database transaction.  claim, complete and fail each   *)
(* commit once and are one step.  A request reads its rows, checks them    *)
(* and commits later, with no row lock between the two, so it is a load    *)
(* step and a commit step; SQLAlchemy writes only the columns it changed.  *)
(* The job roll-up is a transaction of its own: it reads every item status *)
(* and then writes the job.                                                *)
(***************************************************************************)
EXTENDS Naturals, FiniteSets

CONSTANTS
  Jobs,          \* rows of enrichment_job
  Items,         \* rows of enrichment_item, numbered in id order
  JobOf,         \* the job of each item
  Workers,       \* background tasks that may drain the queue at one time
  Standalone,    \* the workers that poll for ever (jobs/worker.py, not deployed in production)
  Sessions,      \* API requests that may run at one time
  MaxAttempts,   \* MAX_ATTEMPTS of models/enrichment.py
  MaxLaunches,   \* bound: launches (creation and retries) of one item
  MaxCrashes,    \* bound: processes killed
  NoItem, NoJob

ASSUME QueueAssumption ==
  /\ Items \subseteq Nat /\ IsFiniteSet(Items)
  /\ JobOf \in [Items -> Jobs]
  /\ IsFiniteSet(Workers) /\ Standalone \subseteq Workers
  /\ MaxAttempts \in Nat \ {0}
  /\ MaxLaunches \in Nat /\ MaxCrashes \in Nat
  /\ NoItem \notin Items /\ NoJob \notin Jobs

VARIABLES
  jobStatus,    \* enrichment_job.status, "none" before the row exists
  itemStatus,   \* enrichment_item.status, "none" before the row exists
  attempts,     \* enrichment_item.attempt_count
  worker,       \* what each drain task is doing
  session,      \* what each API request is doing
  launches,     \* history: how often the item was launched
  debits,       \* enrich_item rows of the credit ledger, per item
  crashes       \* bounded counter of killed processes

vars == <<jobStatus, itemStatus, attempts, worker, session, launches, debits, crashes>>

-----------------------------------------------------------------------------
JobStatuses  == {"pending", "processing", "completed", "partial", "failed"}
WorkerTerminal == {"ready_for_review", "approved", "applied", "rejected", "failed"}
ItemStatuses == {"pending", "processing"} \cup WorkerTerminal
Running == {"pending", "processing"}

ItemsOf(j) == {i \in Items : JobOf[i] = j}

\* Fault: a retry that also accepts applied items.
BadRetryable == {"ready_for_review", "rejected", "failed", "applied"}

\* Statuses from which each kind of request accepts an item.
Retryable == {"ready_for_review", "rejected", "failed"}
AllowedFrom ==
  [retry    |-> Retryable,
   approved |-> {"ready_for_review"},
   rejected |-> {"ready_for_review", "approved", "failed"},
   applied  |-> {"approved"},
   edit     |-> {"ready_for_review", "approved"}]
ItemOps == {"retry", "approved", "rejected", "applied", "edit"}

\* `seen' is the job status a transaction has read or computed and not yet used.
IdleWorker == [pc |-> "off", item |-> NoItem, seen |-> "none"]
Polling    == [IdleWorker EXCEPT !.pc = "polling"]
Rest(w)    == IF w \in Standalone THEN Polling ELSE IdleWorker
IdleSession ==
  [pc |-> "idle", op |-> "none", items |-> {}, fresh |-> {}, job |-> NoJob, seen |-> "none"]

\* Rows a request has flushed (UPDATEd) and not yet committed.
RowLocked(i) == \E s \in Sessions : session[s].pc = "flushed" /\ i \in session[s].items

\* Fault: a claim that also takes rows being processed.
ClaimsProcessing == {i \in Items : itemStatus[i] \in Running /\ ~RowLocked(i)}

\* Rows FOR UPDATE SKIP LOCKED can return.
Claimable == {i \in Items : itemStatus[i] = "pending" /\ ~RowLocked(i)}

\* Fault: a drain that stops as soon as only requeued rows are left.
QueueEmptyOfNew == \A i \in Claimable : attempts[i] > 0

\* claim_next_item returns None.
QueueEmpty == Claimable = {}

\* fail_item gives up.
Exhausted(i) == attempts[i] >= MaxAttempts

\* Fault: `rejected' missing from _WORKER_TERMINAL.
RejectedUnfinished(j) ==
  {i \in ItemsOf(j) : itemStatus[i] \notin WorkerTerminal \ {"rejected"}}

\* Items that keep a job from being rolled up.
Unfinished(j) == {i \in ItemsOf(j) : itemStatus[i] \notin WorkerTerminal}

\* The status _rollup_job computes, "none" when it returns early: on a job with
\* some item still running, and on one without any item.
Verdict(j) ==
  LET failed == {i \in ItemsOf(j) : itemStatus[i] = "failed"}
  IN  IF ItemsOf(j) = {} \/ Unfinished(j) # {} THEN "none"
      ELSE IF failed = ItemsOf(j) THEN "failed"
      ELSE IF failed # {} THEN "partial" ELSE "completed"

-----------------------------------------------------------------------------
Init ==
  /\ jobStatus = [j \in Jobs |-> "none"]
  /\ itemStatus = [i \in Items |-> "none"]
  /\ attempts = [i \in Items |-> 0]
  /\ worker = [w \in Workers |-> Rest(w)]
  /\ session = [s \in Sessions |-> IdleSession]
  /\ launches = [i \in Items |-> 0]
  /\ debits = [i \in Items |-> 0]
  /\ crashes = 0

----------------------------- (* the workers *) -----------------------------
\* SELECT the oldest pending row FOR UPDATE SKIP LOCKED, take it, commit.
ClaimNextItem(w) ==
  /\ worker[w].pc = "polling"
  /\ \E i \in Claimable :
       /\ \A k \in Claimable : i <= k
       /\ itemStatus' = [itemStatus EXCEPT ![i] = "processing"]
       /\ attempts' = [attempts EXCEPT ![i] = @ + 1]
       /\ jobStatus' = [jobStatus EXCEPT ![JobOf[i]] =
                          IF @ = "pending" THEN "processing" ELSE @]
       /\ worker' = [worker EXCEPT ![w] = [pc |-> "working", item |-> i, seen |-> "none"]]
  /\ UNCHANGED <<session, launches, debits, crashes>>

\* process_one found nothing to claim: the background task ends.
DrainEnds(w) ==
  /\ worker[w].pc = "polling" /\ w \notin Standalone
  /\ QueueEmpty
  /\ worker' = [worker EXCEPT ![w] = IdleWorker]
  /\ UNCHANGED <<jobStatus, itemStatus, attempts, session, launches, debits, crashes>>

\* The pipeline returned: stage, debit and commit together.
CompleteItem(w) ==
  LET i == worker[w].item IN
  /\ worker[w].pc = "working" /\ ~RowLocked(i)
  /\ itemStatus' = [itemStatus EXCEPT ![i] = "ready_for_review"]
  /\ debits' = [debits EXCEPT ![i] = @ + 1]
  /\ worker' = [worker EXCEPT ![w].pc = "rollup"]
  /\ UNCHANGED <<jobStatus, attempts, session, launches, crashes>>

\* The pipeline raised: requeue, or give up after MAX_ATTEMPTS.
FailItem(w) ==
  LET i == worker[w].item IN
  /\ worker[w].pc = "working" /\ ~RowLocked(i)
  /\ itemStatus' = [itemStatus EXCEPT ![i] =
                      IF Exhausted(i) THEN "failed" ELSE "pending"]
  /\ worker' = [worker EXCEPT ![w].pc = "rollup"]
  /\ UNCHANGED <<jobStatus, attempts, session, launches, debits, crashes>>

\* _rollup_job, first half: read every status; return when some item is running,
\* write nothing when the job already has that status.
RollupReads(w) ==
  LET v == Verdict(JobOf[worker[w].item]) IN
  /\ worker[w].pc = "rollup"
  /\ worker' = [worker EXCEPT ![w] =
                  IF v \in {"none", jobStatus[JobOf[worker[w].item]]} THEN Polling
                  ELSE [pc |-> "settling", item |-> worker[w].item, seen |-> v]]
  /\ UNCHANGED <<jobStatus, itemStatus, attempts, session, launches, debits, crashes>>

\* _rollup_job, second half: write the job and commit; the drain loops.
RollupWrites(w) ==
  /\ worker[w].pc = "settling"
  /\ jobStatus' = [jobStatus EXCEPT ![JobOf[worker[w].item]] = worker[w].seen]
  /\ worker' = [worker EXCEPT ![w] = Polling]
  /\ UNCHANGED <<itemStatus, attempts, session, launches, debits, crashes>>

WorkerStep(w) ==
  \/ ClaimNextItem(w) \/ DrainEnds(w)
  \/ CompleteItem(w) \/ FailItem(w)
  \/ RollupReads(w) \/ RollupWrites(w)

-------------------------- (* the API requests *) ---------------------------
\* POST /jobs: job and items are inserted in one commit; the drain comes after.
\* A selection by tags names no products: it makes a job without items.
CreateJob(s) ==
  /\ session[s].pc = "idle"
  /\ \E j \in Jobs :
       /\ jobStatus[j] = "none"
       /\ jobStatus' = [jobStatus EXCEPT ![j] = "pending"]
       /\ itemStatus' = [i \in Items |-> IF JobOf[i] = j THEN "pending" ELSE itemStatus[i]]
       /\ launches' = [i \in Items |-> IF JobOf[i] = j THEN launches[i] + 1 ELSE launches[i]]
       /\ session' = [session EXCEPT ![s] = [IdleSession EXCEPT !.pc = "launched", !.job = j]]
  /\ UNCHANGED <<attempts, worker, debits, crashes>>

\* An item request has loaded its rows and passed its status guard.
Load(s, op, S) ==
  /\ session[s].pc = "idle"
  /\ \A i \in S : itemStatus[i] \in AllowedFrom[op]
  /\ \E j \in Jobs :
       /\ S # {} /\ S \subseteq ItemsOf(j)
       /\ session' = [session EXCEPT ![s] =
            [pc |-> "loaded", op |-> op, items |-> S, fresh |-> {i \in S : attempts[i] = 0},
             job |-> j, seen |-> jobStatus[j]]]
  /\ UNCHANGED <<jobStatus, itemStatus, attempts, worker, launches, debits, crashes>>

\* retry_item takes one item, retry_selected_items any retryable ones, and
\* retry_failed_items the failed and rejected ones: all are such a set.
LoadRetry(s) ==
  \E S \in SUBSET {i \in Items : launches[i] < MaxLaunches} : Load(s, "retry", S)

LoadReview(s) == \E i \in Items, d \in {"approved", "rejected"} : Load(s, d, {i})

\* A re-propagation of an applied item leaves its status alone and is not here.
LoadApply(s) == \E i \in Items : Load(s, "applied", {i})

\* resolve, sources, normalize, generate-copy, patch: edits of a staged item.
LoadEdit(s) == \E i \in Items : Load(s, "edit", {i})

\* Items are reset, the job reopened, in one commit.  An unchanged column is
\* not written: attempt_count read as 0, job status read as pending.
Requeue(s) ==
  LET r == session[s] IN
  /\ r.pc = "loaded" /\ r.op = "retry"
  /\ \A i \in r.items : ~RowLocked(i)
  /\ itemStatus' = [i \in Items |-> IF i \in r.items THEN "pending" ELSE itemStatus[i]]
  /\ attempts' = [i \in Items |-> IF i \in r.items \ r.fresh THEN 0 ELSE attempts[i]]
  /\ jobStatus' = [jobStatus EXCEPT ![r.job] = IF r.seen = "pending" THEN @ ELSE "pending"]
  /\ launches' = [i \in Items |-> IF i \in r.items THEN launches[i] + 1 ELSE launches[i]]
  /\ UNCHANGED <<worker, debits, crashes>>

\* The three retry routes commit and then start a drain.
CommitRetry(s) ==
  /\ Requeue(s)
  /\ session' = [session EXCEPT ![s] = [IdleSession EXCEPT !.pc = "launched", !.job = session[s].job]]

\* approve, reject, and apply once the destination has answered.
CommitStatus(s) ==
  LET r == session[s] IN
  /\ r.pc = "loaded" /\ r.op \in {"approved", "rejected", "applied"}
  /\ \A i \in r.items : ~RowLocked(i)
  /\ itemStatus' = [i \in Items |-> IF i \in r.items THEN r.op ELSE itemStatus[i]]
  /\ session' = [session EXCEPT ![s] = IdleSession]
  /\ UNCHANGED <<jobStatus, attempts, worker, launches, debits, crashes>>

\* An edit that restages the item with auto_normalize has changed it when
\* normalize_staged_entry flushes before its long Photoroom call: the item's
\* row stays locked until the request commits.
FlushEdit(s) ==
  LET r == session[s] IN
  /\ r.pc = "loaded" /\ r.op = "edit"
  /\ \A i \in r.items : ~RowLocked(i)
  /\ session' = [session EXCEPT ![s].pc = "flushed"]
  /\ UNCHANGED <<jobStatus, itemStatus, attempts, worker, launches, debits, crashes>>

\* The edit writes staged fields only.
CommitEdit(s) ==
  LET r == session[s] IN
  /\ r.op = "edit"
  /\ \/ r.pc = "flushed"
     \/ r.pc = "loaded" /\ \A i \in r.items : ~RowLocked(i)
  /\ session' = [session EXCEPT ![s] = IdleSession]
  /\ UNCHANGED <<jobStatus, itemStatus, attempts, worker, launches, debits, crashes>>

\* The response is sent; the background drain starts when a task slot is free.
StartDrain(s, w) ==
  /\ session[s].pc = "launched"
  /\ worker[w].pc = "off"
  /\ worker' = [worker EXCEPT ![w] = Polling]
  /\ session' = [session EXCEPT ![s] = IdleSession]
  /\ UNCHANGED <<jobStatus, itemStatus, attempts, launches, debits, crashes>>

\* POST /jobs/{id}/cancel: the job is read and checked first ...
LoadCancel(s) ==
  /\ session[s].pc = "idle"
  /\ \E j \in Jobs :
       /\ jobStatus[j] \in Running
       /\ session' = [session EXCEPT ![s] =
            [IdleSession EXCEPT !.pc = "loaded", !.op = "cancel", !.job = j]]
  /\ UNCHANGED <<jobStatus, itemStatus, attempts, worker, launches, debits, crashes>>

\* ... then one UPDATE rejects whatever is pending ...
CommitCancel(s) ==
  LET r == session[s]
      S == {i \in Items : JobOf[i] = r.job /\ itemStatus[i] = "pending"} IN
  /\ r.pc = "loaded" /\ r.op = "cancel"
  /\ \A i \in S : ~RowLocked(i)
  /\ itemStatus' = [i \in Items |-> IF i \in S THEN "rejected" ELSE itemStatus[i]]
  /\ session' = [session EXCEPT ![s].pc = "rollup"]
  /\ UNCHANGED <<jobStatus, attempts, worker, launches, debits, crashes>>

\* ... then the job is rolled up, as a worker does.
CancelRollupReads(s) ==
  LET v == Verdict(session[s].job) IN
  /\ session[s].pc = "rollup"
  /\ session' = [session EXCEPT ![s] =
                   IF v \in {"none", jobStatus[session[s].job]} THEN IdleSession
                   ELSE [session[s] EXCEPT !.pc = "settling", !.seen = v]]
  /\ UNCHANGED <<jobStatus, itemStatus, attempts, worker, launches, debits, crashes>>

CancelRollupWrites(s) ==
  LET r == session[s] IN
  /\ r.pc = "settling"
  /\ jobStatus' = [jobStatus EXCEPT ![r.job] = r.seen]
  /\ session' = [session EXCEPT ![s] = IdleSession]
  /\ UNCHANGED <<itemStatus, attempts, worker, launches, debits, crashes>>

Request(s) ==
  \/ CreateJob(s) \/ LoadRetry(s) \/ LoadReview(s)
  \/ LoadApply(s) \/ LoadEdit(s) \/ LoadCancel(s)

\* What a request in flight does next; it never waits for a user.
Progress(s) ==
  \/ CommitRetry(s) \/ CommitStatus(s) \/ FlushEdit(s) \/ CommitEdit(s)
  \/ CommitCancel(s) \/ CancelRollupReads(s) \/ CancelRollupWrites(s)
  \/ \E w \in Workers : StartDrain(s, w)

---------------------------- (* process death *) ----------------------------
\* A deployment or a crash kills the process: its transaction is rolled back,
\* nothing at start-up looks at items left in `processing'.
KillWorker(w) ==
  /\ worker[w].pc # "off" /\ crashes < MaxCrashes
  /\ worker' = [worker EXCEPT ![w] = Rest(w)]
  /\ crashes' = crashes + 1
  /\ UNCHANGED <<jobStatus, itemStatus, attempts, session, launches, debits>>

KillSession(s) ==
  /\ session[s].pc # "idle" /\ crashes < MaxCrashes
  /\ session' = [session EXCEPT ![s] = IdleSession]
  /\ crashes' = crashes + 1
  /\ UNCHANGED <<jobStatus, itemStatus, attempts, worker, launches, debits>>

-----------------------------------------------------------------------------
Next ==
  \/ \E w \in Workers : WorkerStep(w) \/ KillWorker(w)
  \/ \E s \in Sessions : Request(s) \/ Progress(s) \/ KillSession(s)

Spec == Init /\ [][Next]_vars

\* Live tasks keep running and requests in flight finish; nothing obliges a
\* user to send one.  A slot that is free again and again is given to a drain.
Fairness ==
  /\ \A w \in Workers : WF_vars(WorkerStep(w))
  /\ \A s \in Sessions : SF_vars(Progress(s))
FairSpec == Spec /\ Fairness

-----------------------------------------------------------------------------
WorkerRecord ==
  [pc : {"off", "polling", "working", "rollup", "settling"},
   item : Items \cup {NoItem},
   seen : JobStatuses \cup {"none"}]

SessionRecord ==
  [pc : {"idle", "loaded", "flushed", "launched", "rollup", "settling"},
   op : ItemOps \cup {"none", "cancel"},
   items : SUBSET Items,
   fresh : SUBSET Items,
   job : Jobs \cup {NoJob},
   seen : JobStatuses \cup {"none"}]

TypeOK ==
  /\ jobStatus \in [Jobs -> JobStatuses \cup {"none"}]
  /\ itemStatus \in [Items -> ItemStatuses \cup {"none"}]
  /\ attempts \in [Items -> Nat]
  /\ worker \in [Workers -> WorkerRecord]
  /\ session \in [Sessions -> SessionRecord]
  /\ launches \in [Items -> Nat]
  /\ debits \in [Items -> Nat]
  /\ crashes \in Nat

-----------------------------------------------------------------------------
(* Safety *)

Holders(i) == {w \in Workers : worker[w].pc = "working" /\ worker[w].item = i}

\* A launch of an item (its creation or one retry) is charged at most once,
\* however its attempts, concurrent retries, cancels and crashes interleave.
\* complete_item is the only debit and nothing else remembers it was made.
NoDoubleCharge == \A i \in Items : debits[i] <= launches[i]

\* What makes it so: a launch is waiting, being processed, or already charged.
ChargeAccount ==
  \A i \in Items :
    debits[i] + Cardinality(Holders(i)) + (IF itemStatus[i] = "pending" THEN 1 ELSE 0)
      <= launches[i]

\* What the queue promises: a refinement.  A charge is open for an item while the
\* item waits and while a worker holds it; concurrent requests may leave it both.
Ledger == INSTANCE LaunchLedger WITH
  launched <- launches,
  charged  <- debits,
  open     <- [i \in Items |->
                 Cardinality(Holders(i)) + (IF itemStatus[i] = "pending" THEN 1 ELSE 0)]

\* Every step of the queue is a launch, a charge or a renunciation of the ledger, or
\* none of its business: however workers, requests and crashes interleave, nothing
\* but a launch (create_job, the retries) makes a charge possible again.
ImplementsLedger == Ledger!Spec

\* The properties below need requests one at a time: the handlers lock nothing
\* between reading an item and committing, and two of them break each property.

\* Two workers never process the same item (the promise of SKIP LOCKED).
ExclusiveClaim ==
  \A w, v \in Workers :
    worker[w].pc = "working" /\ worker[v].pc = "working" /\ worker[w].item = worker[v].item
      => w = v

\* An applied item never changes again: re-running it would append its images
\* a second time.  A worker must not hold it, a retry must not accept it.
AppliedIsFinal ==
  [][\A i \in Items : itemStatus[i] = "applied" => itemStatus'[i] = "applied"]_vars

\* No lost wake-up: a drain ends when it finds nothing to claim, so whenever an
\* item is pending some drain is running, or the request that made it pending
\* has its drain still to start.
NoOrphanPending ==
  (\E i \in Items : itemStatus[i] = "pending") =>
     \/ \E w \in Workers : worker[w].pc # "off"
     \/ \E s \in Sessions : session[s].pc = "launched"

\* A job that has items, all ended.
Finished(j) == ItemsOf(j) # {} /\ \A i \in ItemsOf(j) : itemStatus[i] \in WorkerTerminal

\* A finished job is settled or somebody is about to settle it: whoever moves
\* the last item of a job rolls it up after its own commit.
RollupOwed ==
  \A j \in Jobs :
    jobStatus[j] \in Running /\ Finished(j) =>
      \/ \E w \in Workers : worker[w].pc \in {"rollup", "settling"} /\ JobOf[worker[w].item] = j
      \/ \E s \in Sessions : session[s].pc \in {"rollup", "settling"} /\ session[s].job = j

-----------------------------------------------------------------------------
(* Liveness *)

\* Every launched job with items is carried through: there comes a moment when it is
\* settled and each of its items has a result or was given up, however often the
\* roll-up of one worker meets the retries, cancels and claims of the others.  A job
\* without items (a selection by tags) is not promised this: no worker ever comes to
\* it, the roll-up of its cancel writes nothing, and it stays pending for ever.
JobsSettle ==
  \A j \in {JobOf[i] : i \in Items} :
    jobStatus[j] \in Running ~> (jobStatus[j] \notin Running /\ Finished(j))
=============================================================================
