--------------------------- MODULE ImportTransfer ---------------------------
(***************************************************************************)
(* A supplier import: the background run that stages its rows, the review  *)
(* of the rows, and the three requests that meet Tillin: transfer,         *)
(* reconcile and link.                                                     *)
(*                                                                         *)
(* Tillin gives no id back for a transferred file, may work on a file after*)
(* the client has given up on it, and is searched by reference.  The job's *)
(* config_json is one column, always written whole from the copy its       *)
(* writer loaded.  Requests with a remote call are several steps, the      *)
(* others one.                                                             *)
(***************************************************************************)
EXTENDS Naturals, FiniteSets

CONSTANTS
  Refs,         \* supplier references
  Choices,      \* what the user may select for the import: profile and location
  MaxItems,     \* bound: rows staged, over all runs
  MaxRuns,      \* bound: background runs asked for
  MaxSends,     \* bound: files sent to Tillin
  MaxReopened,  \* bound: rows patched back from applied, once each
  MaxFaults,    \* bound: lost answers, failed requests and killed processes
  Sessions      \* API requests that may run at one time

ASSUME ImportAssumption ==
  /\ IsFiniteSet(Refs) /\ "none" \notin Refs /\ Choices # {}
  /\ MaxRuns \in Nat \ {0}
  /\ {MaxItems, MaxSends, MaxReopened, MaxFaults} \subseteq Nat

VARIABLES
  job,        \* status and config_json: selection and transfer
  run,        \* background runs, in the order they were asked for
  item,       \* rows: status, payload's reference, original's reference, link
  staged,     \* last row id given
  debited,    \* credits consumed by the job
  tillin,     \* products with a reference of the import
  late,       \* lines of files that Tillin may still take
  sends,      \* files sent
  session,    \* requests in flight
  reopened,   \* history: times an applied row was patched back
  lost,       \* history: files with this row whose outcome the job never recorded
  faults

vars == <<job, run, item, staged, debited, tillin, late, sends, session,
          reopened, lost, faults>>
remote == <<tillin, late, sends>>
history == <<reopened, lost>>

-----------------------------------------------------------------------------
Items == 1..MaxItems
Runs == 1..MaxRuns
Editable == {"ready_for_review", "rejected"}
Unlinked == [send |-> 0, item |-> 0, ref |-> "none"]
Products == [send : 0..MaxSends, item : 0..MaxItems, ref : Refs]
Configs == [choice : Choices, transfer : BOOLEAN]
NoConfig == [choice |-> CHOOSE c \in Choices : TRUE, transfer |-> FALSE]

NoRow == [status |-> "none", ref |-> "none", original |-> "none", link |-> Unlinked]
NewRow(r) == [status |-> "ready_for_review", ref |-> r, original |-> r, link |-> Unlinked]
Exists(i) == item[i].status # "none"
Rows == {i \in Items : Exists(i)}
\* Neither rejected nor applied: what a render takes.
Kept == {i \in Items : item[i].status = "ready_for_review"}
WithStatus(S, to) == [i \in Items |-> IF i \in S THEN [item[i] EXCEPT !.status = to] ELSE item[i]]

Idle == [pc |-> "idle", config |-> NoConfig, rows |-> [i \in Items |-> NoRow], todo |-> {}, found |-> {}]
Free(s) == session[s].pc = "idle"
Begin(s, pc, S) ==
  /\ Free(s)
  /\ session' = [session EXCEPT ![s] =
                   [pc |-> pc, config |-> job.config, rows |-> item, todo |-> S, found |-> {}]]
End(s) == session' = [session EXCEPT ![s] = Idle]

\* create_import has answered; a reference may already be in the shop.
Init ==
  /\ \E c \in Choices : job = [status |-> "pending", config |-> [choice |-> c, transfer |-> FALSE]]
  /\ run = [k \in Runs |-> [pc |-> IF k = 1 THEN "asked" ELSE "none", config |-> NoConfig]]
  /\ item = [i \in Items |-> NoRow]
  /\ staged = 0 /\ debited = 0
  /\ tillin \in {{}} \cup {{[send |-> 0, item |-> 0, ref |-> r]} : r \in Refs}
  /\ late = {} /\ sends = 0
  /\ session = [s \in Sessions |-> Idle]
  /\ reopened = [i \in Items |-> 0]
  /\ lost = [i \in Items |-> 0]
  /\ faults = 0

-------------------------- (* the background run *) -------------------------
\* No guard on the job's status; the copy of config_json is loaded here.
RunStarts(k) ==
  /\ run[k].pc = "asked"
  /\ job' = [job EXCEPT !.status = "processing"]
  /\ run' = [run EXCEPT ![k] = [pc |-> "runs", config |-> job.config]]
  /\ UNCHANGED <<item, staged, debited, remote, session, history, faults>>

RunEnds(k) == run' = [run EXCEPT ![k].pc = "done"]

\* n rows are staged after those staged before.
Stage(n) ==
  /\ staged + n <= MaxItems
  /\ \E r \in [1..n -> Refs] :
       item' = [i \in Items |-> IF i \in (staged + 1)..(staged + n) THEN NewRow(r[i - staged]) ELSE item[i]]
  /\ staged' = staged + n

\* Rows, debit, config and status in one commit.  config_json is written when the
\* document gave a header; a profile that matches its supplier is attached only
\* where none was selected, which the one selection here leaves out.
RunCompletes(k) ==
  /\ run[k].pc = "runs"
  /\ \E n \in 0..MaxItems : Stage(n) /\ debited' = debited + n
  /\ \E c \in {job.config, run[k].config} :
       job' = [status |-> "completed", config |-> c]
  /\ RunEnds(k)
  /\ UNCHANGED <<remote, session, history, faults>>

\* Fault: the failure is committed without the rollback.
RunFailsUnrolled(k) ==
  /\ run[k].pc = "runs"
  /\ \E n \in 0..1 : Stage(n)
  /\ job' = [job EXCEPT !.status = "failed"]
  /\ RunEnds(k)
  /\ UNCHANGED <<debited, remote, session, history, faults>>

\* Rolled back: nothing staged, nothing debited.
RunFails(k) ==
  /\ run[k].pc = "runs"
  /\ job' = [job EXCEPT !.status = "failed"]
  /\ RunEnds(k)
  /\ UNCHANGED <<item, staged, debited, remote, session, history, faults>>

\* Its process dies: nothing takes the job up again.
RunKilled(k) ==
  /\ run[k].pc \in {"asked", "runs"} /\ faults < MaxFaults
  /\ RunEnds(k)
  /\ faults' = faults + 1
  /\ UNCHANGED <<job, item, staged, debited, remote, session, history>>

\* Fault: the files' presence is all that is asked.
MayRetryAny == TRUE

\* retry_import: the guard on a loaded status, then purge and relaunch.
MayRetry == job.status = "failed"

LoadRetry(s) ==
  /\ MayRetry
  /\ Begin(s, "retry", {})
  /\ UNCHANGED <<job, run, item, staged, debited, remote, history, faults>>

CommitRetry(s) ==
  /\ session[s].pc = "retry"
  /\ item' = [i \in Items |-> NoRow]
  /\ job' = [status |-> "pending", config |-> session[s].config]
  /\ \E k \in Runs :
       /\ run[k].pc = "none" /\ \A j \in 1..(k - 1) : run[j].pc # "none"
       /\ run' = [run EXCEPT ![k].pc = "asked"]
  /\ End(s)
  /\ UNCHANGED <<staged, debited, remote, history, faults>>

------------------------------- (* review *) --------------------------------
\* set_import_location and set_import_profile.
Choose(s) ==
  /\ Free(s)
  /\ \E c \in Choices : job' = [job EXCEPT !.config.choice = c]
  /\ UNCHANGED <<run, item, staged, debited, remote, session, history, faults>>

\* update_import_item: no guard on the row's present status; a new reference is
\* checked in Tillin between the load and the commit.
LoadEdit(s) ==
  /\ \E i \in Rows : Begin(s, "edit", {i})
  /\ UNCHANGED <<job, run, item, staged, debited, remote, history, faults>>

CommitEdit(s) ==
  /\ session[s].pc = "edit"
  /\ \E i \in session[s].todo :
       LET loaded == session[s].rows[i].status IN
       \E r \in Refs, to \in Editable \cup {loaded} :
         LET status == IF to = loaded THEN item[i].status ELSE to
             opens == IF item[i].status = "applied" /\ status # "applied" THEN 1 ELSE 0
         IN
         /\ Exists(i)
         /\ opens = 1 => reopened[i] = 0 /\ Cardinality({j \in Items : reopened[j] = 1}) < MaxReopened
         /\ item' = [item EXCEPT ![i].ref = r, ![i].status = status]
         /\ reopened' = [reopened EXCEPT ![i] = @ + opens]
  /\ End(s)
  /\ UNCHANGED <<job, run, staged, debited, remote, lost, faults>>

\* Fault: the UPDATE forgets the present status.
BulkUpdateAny(s) ==
  /\ Free(s)
  /\ \E S \in SUBSET Rows, to \in Editable : item' = WithStatus(S, to)
  /\ UNCHANGED <<job, run, staged, debited, remote, session, history, faults>>

\* bulk_update_import_items: one UPDATE, over the rows that are editable.
BulkUpdate(s) ==
  /\ Free(s)
  /\ \E S \in SUBSET {i \in Items : item[i].status \in Editable}, to \in Editable :
       item' = WithStatus(S, to)
  /\ UNCHANGED <<job, run, staged, debited, remote, session, history, faults>>

\* reset_import_item.
Reset(s) ==
  /\ Free(s)
  /\ \E i \in Rows : item[i].status # "applied" /\ item' = [item EXCEPT ![i].ref = item[i].original]
  /\ UNCHANGED <<job, run, staged, debited, remote, session, history, faults>>

------------------------------ (* transfer *) -------------------------------
\* transfer_import renders the kept rows ...
LoadTransfer(s) ==
  /\ Kept # {} /\ Begin(s, "send", Kept)
  /\ UNCHANGED <<job, run, item, staged, debited, remote, history, faults>>

Lines(s) ==
  {[send |-> sends + 1, item |-> i, ref |-> session[s].rows[i].ref] : i \in session[s].todo}

\* ... sends them ...
Send(s) ==
  /\ session[s].pc = "send" /\ sends < MaxSends
  /\ sends' = sends + 1
  /\ tillin' = tillin \cup Lines(s)
  /\ session' = [session EXCEPT ![s].pc = "sent"]
  /\ UNCHANGED <<job, run, item, staged, debited, late, history, faults>>

Lose(S) == lost' = [i \in Items |-> IF i \in S THEN lost[i] + 1 ELSE lost[i]]

\* ... or gets no usable answer (xano_timeout is a 504, any other XanoError is
\* raised): nothing is marked, whatever Tillin does with the file ...
SendTimesOut(s) ==
  /\ session[s].pc = "send" /\ sends < MaxSends /\ faults < MaxFaults
  /\ sends' = sends + 1
  /\ late' = late \cup Lines(s)
  /\ Lose(session[s].todo)
  /\ faults' = faults + 1
  /\ End(s)
  /\ UNCHANGED <<job, run, item, staged, debited, tillin, reopened>>

\* ... and marks the rows that are kept by now, not those it rendered.
CommitTransfer(s) ==
  /\ session[s].pc = "sent"
  /\ item' = WithStatus(Kept, "applied")
  /\ job' = [job EXCEPT !.config = [session[s].config EXCEPT !.transfer = TRUE]]
  /\ End(s)
  /\ UNCHANGED <<run, staged, debited, remote, history, faults>>

\* Tillin takes a line of a file whose sender has given up; it may never do.
TakeLate ==
  /\ \E p \in late : tillin' = tillin \cup {p} /\ late' = late \ {p}
  /\ UNCHANGED <<job, run, item, staged, debited, sends, session, history, faults>>

------------------------ (* reconcile and link *) ---------------------------
\* reconcile_import looks for the kept rows, link_import_products for the applied.
LoadReconcile(s) ==
  /\ Begin(s, "reconcile", Kept)
  /\ UNCHANGED <<job, run, item, staged, debited, remote, history, faults>>

LoadLink(s) ==
  /\ job.config.transfer
  /\ Begin(s, "link", {i \in Items : item[i].status = "applied"})
  /\ UNCHANGED <<job, run, item, staged, debited, remote, history, faults>>

\* _match_tillin_product: one product, and one only, has the reference as it was
\* loaded; the search is fuzzy and may miss it.
LookUp(s) ==
  LET r == session[s] IN
  /\ r.pc \in {"reconcile", "link"}
  /\ \E i \in r.todo :
       /\ \A j \in r.todo : i <= j
       /\ LET hits == {p \in tillin : p.ref = r.rows[i].ref} IN
          \E match \in {{}} \cup IF Cardinality(hits) = 1 THEN {hits} ELSE {} :
             session' = [session EXCEPT ![s].todo = @ \ {i},
                                        ![s].found = @ \cup {[row |-> i, product |-> p] : p \in match}]
  /\ UNCHANGED <<job, run, item, staged, debited, remote, history, faults>>

Found(s) == {f.row : f \in session[s].found}
ProductOf(s, i) == CHOOSE p \in tillin : [row |-> i, product |-> p] \in session[s].found
AllLookedUp(s, pc) ==
  /\ session[s].pc = pc /\ session[s].todo = {}
  /\ Found(s) \subseteq Rows

\* A found row is applied and linked; when its product has an image, the payload
\* is written back as it was loaded.
ReconciledRow(s, i, pictured) ==
  IF i \notin Found(s) THEN item[i]
  ELSE [item[i] EXCEPT !.status = "applied", !.link = ProductOf(s, i),
                       !.ref = IF i \in pictured THEN session[s].rows[i].ref ELSE @]

\* The transfer is recorded when the loaded config has none.
CommitReconcile(s) ==
  /\ AllLookedUp(s, "reconcile")
  /\ \E pictured \in SUBSET Found(s) : item' = [i \in Items |-> ReconciledRow(s, i, pictured)]
  /\ IF Found(s) # {} /\ ~session[s].config.transfer
     THEN job' = [job EXCEPT !.config = [session[s].config EXCEPT !.transfer = TRUE]]
     ELSE UNCHANGED job
  /\ End(s)
  /\ UNCHANGED <<run, staged, debited, remote, history, faults>>

\* A row that has a link keeps it.
LinkedRow(s, i, pictured) ==
  IF i \notin Found(s) THEN item[i]
  ELSE LET loaded == session[s].rows[i] IN
       [item[i] EXCEPT
          !.link = IF loaded.link = Unlinked THEN ProductOf(s, i) ELSE @,
          !.ref = IF i \in pictured /\ loaded.link \in {Unlinked, ProductOf(s, i)} THEN loaded.ref ELSE @]

CommitLink(s) ==
  /\ AllLookedUp(s, "link")
  /\ \E pictured \in SUBSET Found(s) : item' = [i \in Items |-> LinkedRow(s, i, pictured)]
  /\ End(s)
  /\ UNCHANGED <<job, run, staged, debited, remote, history, faults>>

\* An exception of a call, a row deleted meanwhile, or the death of the process:
\* nothing is committed; Tillin keeps what was sent.
Abort(s) ==
  /\ ~Free(s) /\ faults < MaxFaults
  /\ Lose(IF session[s].pc = "sent" THEN session[s].todo ELSE {})
  /\ faults' = faults + 1
  /\ End(s)
  /\ UNCHANGED <<job, run, item, staged, debited, remote, reopened>>

-----------------------------------------------------------------------------
RunNext(k) == RunStarts(k) \/ RunCompletes(k) \/ RunFails(k) \/ RunKilled(k)

RequestNext(s) ==
  \/ LoadRetry(s) \/ CommitRetry(s)
  \/ Choose(s) \/ LoadEdit(s) \/ CommitEdit(s) \/ BulkUpdate(s) \/ Reset(s)
  \/ LoadTransfer(s) \/ Send(s) \/ SendTimesOut(s) \/ CommitTransfer(s)
  \/ LoadReconcile(s) \/ LoadLink(s) \/ LookUp(s) \/ CommitReconcile(s) \/ CommitLink(s)
  \/ Abort(s)

Next ==
  \/ \E k \in Runs : RunNext(k)
  \/ \E s \in Sessions : RequestNext(s)
  \/ TakeLate

Spec == Init /\ [][Next]_vars

-----------------------------------------------------------------------------
\* The columns keep to their declared values, and so does what is in flight.
TypeOK ==
  /\ job \in [status : {"pending", "processing", "completed", "failed"}, config : Configs]
  /\ run \in [Runs -> [pc : {"none", "asked", "runs", "done"}, config : Configs]]
  /\ \A i \in Items :
       \/ item[i] = NoRow
       \/ /\ item[i].status \in Editable \cup {"applied"}
          /\ {item[i].ref, item[i].original} \subseteq Refs
          /\ item[i].link \in Products \cup {Unlinked}
  /\ staged \in 0..MaxItems /\ debited \in Nat /\ sends \in 0..MaxSends
  /\ tillin \subseteq Products /\ late \subseteq Products
  /\ \A s \in Sessions :
       /\ session[s].pc \in {"idle", "retry", "edit", "send", "sent", "reconcile", "link"}
       /\ session[s].config \in Configs /\ session[s].todo \subseteq Items
       /\ \A f \in session[s].found : f.row \in Items /\ f.product \in tillin

\* The account has paid for the rows it can review, no more and no less, however
\* many runs failed, were killed or were asked again (run_import_job, retry_import).
ChargeMatchesRows == debited = Cardinality(Rows)

\* A row whose product was sent to Tillin is never purged by a retry.
SentRowsSurvive == \A p \in tillin \cup late : p.item \in Items => Exists(p.item)

\* An applied row has a product: the one a transfer made of it or the one it was
\* linked to.  A transfer whose answer was lost never marks a row by itself.
AppliedReached ==
  \A i \in Items : item[i].status = "applied" =>
    (\E p \in tillin : p.item = i) \/ item[i].link # Unlinked

\* A row becomes a second product only after it was patched back from applied, or
\* after the answer of a transfer was lost (transfer_import, EXCLUDED_RENDER_STATUSES).
CopiesAccounted ==
  \A i \in Items :
    Cardinality({p \in tillin : p.item = i}) <= 1 + reopened[i] + lost[i]

\* As soon as a row is applied the job has its transfer, which link_import_products
\* and the snapshot of the sent lines ask for; no later writer of config_json drops it.
TransferRecorded == (\E i \in Items : item[i].status = "applied") => job.config.transfer

\* What was sent stays traceable through retries, lost answers and stale writers: its
\* row is not purged, an applied row has its product, and the job its transfer.
SentRowsAccounted == SentRowsSurvive /\ AppliedReached /\ TransferRecorded
=============================================================================
