------------------------ MODULE ImportTransferProofs ------------------------
(***************************************************************************)
(* What a supplier import guarantees for any number of rows, references,   *)
(* runs, files and faults, as long as its API requests do not overlap.     *)
(* Background runs, Tillin and the deaths of processes still interleave    *)
(* with the request under way.                                             *)
(***************************************************************************)
EXTENDS ImportTransfer, FiniteSetTheorems, TLAPS

-----------------------------------------------------------------------------
(* What the columns and the requests in flight are made of *)

Statuses == Editable \cup {"applied"}
Row == [status : Statuses, ref : Refs, original : Refs, link : Products \cup {Unlinked}]
Request ==
  [pc : {"idle", "retry", "edit", "send", "sent", "reconcile", "link"}, config : Configs,
   rows : [Items -> Row \cup {NoRow}], todo : SUBSET Items,
   found : SUBSET [row : Items, product : Products]]

Typed ==
  /\ job \in [status : {"pending", "processing", "completed", "failed"}, config : Configs]
  /\ run \in [Runs -> [pc : {"none", "asked", "runs", "done"}, config : Configs]]
  /\ item \in [Items -> Row \cup {NoRow}]
  /\ staged \in 0..MaxItems /\ debited \in Nat /\ sends \in 0..MaxSends
  /\ tillin \subseteq Products /\ late \subseteq Products
  /\ session \in [Sessions -> Request]
  /\ reopened \in [Items -> Nat] /\ lost \in [Items -> Nat]

\* A request works on rows that were there when it loaded them, and what it has found
\* is in Tillin.
Carried ==
  \A s \in Sessions :
    /\ \A i \in session[s].todo \cup Found(s) : session[s].rows[i].status # "none"
    /\ \A f \in session[s].found : f.product \in tillin

Sound == Typed /\ Carried

-----------------------------------------------------------------------------
(* One job, one run, one request *)

Live(k) == run[k].pc \in {"asked", "runs"}
Job(status) == job.status = status

\* Rows come with the completion of the only run that is live, and are paid by it; until
\* then the job has none, and nothing of it was transferred.
OneRun ==
  /\ \A k \in Runs : Live(k) => Job("pending") \/ Job("processing")
  /\ \A j, k \in Runs : Live(j) /\ Live(k) => j = k
  /\ ~Job("completed") => Rows = {} /\ ~job.config.transfer
  /\ \A k \in Runs : run[k].pc # "done" => ~run[k].config.transfer
  /\ \A i \in Items : i > staged => item[i] = NoRow

Sending(s) == session[s].pc \in {"send", "sent"}

\* A row may have one product more than what was patched back or lost accounts for.
Spent(s, i) == item[i].status = "applied" \/ (session[s].pc = "sent" /\ i \in session[s].todo)
SentOf(i) == {p \in tillin \cup late : p.item = i}

\* What the request under way has read still holds.
LoadHolds(s) ==
  /\ session[s].pc = "retry" => Job("failed")
  /\ session[s].config.transfer => job.config.transfer
  /\ Sending(s) => Job("completed") /\ session[s].todo = Kept
  /\ session[s].pc = "sent" => \A i \in Kept : \E p \in tillin : p.item = i

Counted(s) ==
  \A i \in Items :
    /\ IsFiniteSet(SentOf(i))
    /\ Cardinality(SentOf(i)) <= reopened[i] + lost[i] + IF Spent(s, i) THEN 1 ELSE 0

Inv(s) == Sound /\ OneRun /\ LoadHolds(s) /\ ChargeMatchesRows /\ SentRowsAccounted /\ Counted(s)

-----------------------------------------------------------------------------
(* The columns keep to their values *)

\* A row that is there is no empty place, and a link to nothing is no product.
LEMMA Sorts ==
  /\ NoRow \notin Row /\ Unlinked \notin Products
  /\ \A x \in Row \cup {NoRow} : x.status # "none" <=> x \in Row
  /\ \A r \in Refs : NewRow(r) \in Row /\ NewRow(r).status = "ready_for_review"
  /\ NoRow.status = "none" /\ IsFiniteSet(Refs)
  /\ MaxRuns \in Nat \ {0} /\ MaxItems \in Nat /\ MaxSends \in Nat
BY ImportAssumption
   DEF ImportAssumption, NoRow, NewRow, Row, Statuses, Editable, Unlinked, Products

\* The first choice is one of them.
LEMMA NothingChosen == NoConfig \in Configs /\ NoConfig.transfer = FALSE
BY ImportAssumption DEF ImportAssumption, NoConfig, Configs

\* Between requests a session holds nothing.
LEMMA IdleRequest == Idle \in Request /\ Idle.todo = {} /\ Idle.found = {} /\ Idle.pc = "idle"
                     /\ Idle.config = NoConfig
BY NothingChosen DEF Idle, Request

\* What a session carries, when that of one of them is replaced.
LEMMA RequestReplaced ==
  ASSUME Sound, NEW s \in Sessions, NEW r \in Request,
         session' = [session EXCEPT ![s] = r],
         tillin \subseteq tillin',
         \A i \in r.todo \cup {f.row : f \in r.found} : r.rows[i].status # "none",
         \A f \in r.found : f.product \in tillin'
  PROVE  session' \in [Sessions -> Request] /\ Carried'
<1>1. session' \in [Sessions -> Request]
  BY DEF Sound, Typed
<1>2. \A z \in Sessions : session'[z] = IF z = s THEN r ELSE session[z]
  BY DEF Sound, Typed
<1>3. ASSUME NEW z \in Sessions
      PROVE  /\ \A i \in session'[z].todo \cup Found(z)' : session'[z].rows[i].status # "none"
             /\ \A f \in session'[z].found : f.product \in tillin'
  <2>1. CASE z = s
    BY <1>2, <2>1 DEF Found
  <2>2. CASE z # s
    <3>1. session'[z] = session[z] /\ Found(z)' = Found(z)
      BY <1>2, <2>2 DEF Found
    <3>2. QED BY <3>1 DEF Sound, Carried
  <2>3. QED BY <2>1, <2>2
<1>4. QED BY <1>1, <1>3 DEF Carried

\* A request begins on rows that are there.
LEMMA BeginSound ==
  ASSUME Sound, NEW s \in Sessions, NEW S, S \subseteq Rows, NEW pc,
         pc \in {"retry", "edit", "send", "reconcile", "link"}, Begin(s, pc, S),
         UNCHANGED <<job, run, item, staged, debited, remote, history>>
  PROVE  Sound'
<1> DEFINE r == [pc |-> pc, config |-> job.config, rows |-> item, todo |-> S, found |-> {}]
<1>1. r \in Request /\ job.config \in Configs
  BY DEF Sound, Typed, Request, Rows
<1>2. \A i \in r.todo \cup {f.row : f \in r.found} : r.rows[i].status # "none"
  BY DEF Rows, Exists
<1>3. session' \in [Sessions -> Request] /\ Carried'
  BY <1>1, <1>2, RequestReplaced DEF Begin, remote
<1>4. QED BY <1>3 DEF Sound, Typed, remote, history

\* A request ends.
LEMMA EndSound ==
  ASSUME Sound, NEW s \in Sessions, End(s), tillin \subseteq tillin'
  PROVE  session' \in [Sessions -> Request] /\ Carried'
BY RequestReplaced, IdleRequest DEF End

\* Rows get a status.
LEMMA StatusPut ==
  ASSUME Typed, NEW S, S \subseteq Rows, NEW to \in Statuses
  PROVE  /\ WithStatus(S, to) \in [Items -> Row \cup {NoRow}]
         /\ \A i \in Items : i \in S => WithStatus(S, to)[i].status = to
                                        /\ WithStatus(S, to)[i].link = item[i].link
         /\ \A i \in Items : i \notin S => WithStatus(S, to)[i] = item[i]
<1>1. ASSUME NEW i \in S PROVE item[i] \in Row /\ [item[i] EXCEPT !.status = to] \in Row
                               /\ [item[i] EXCEPT !.status = to].status = to
                               /\ [item[i] EXCEPT !.status = to].link = item[i].link
  <2>1. item[i] \in Row
    BY Sorts DEF Typed, Rows, Exists
  <2>2. QED BY <2>1 DEF Row
<1>2. QED BY <1>1 DEF WithStatus, Typed

\* A run stages rows after those it finds.
LEMMA StagePuts ==
  ASSUME Typed, NEW n \in Nat, Stage(n)
  PROVE  /\ item' \in [Items -> Row \cup {NoRow}] /\ staged' \in 0..MaxItems
         /\ staged' = staged + n
         /\ \A i \in Items : i \in (staged + 1)..(staged + n) =>
              item'[i] \in Row /\ item'[i].status = "ready_for_review"
         /\ \A i \in Items : i \notin (staged + 1)..(staged + n) => item'[i] = item[i]
<1>1. PICK r \in [1..n -> Refs] :
        item' = [i \in Items |-> IF i \in (staged + 1)..(staged + n) THEN NewRow(r[i - staged]) ELSE item[i]]
  BY DEF Stage
<1>2. staged \in 0..MaxItems /\ MaxItems \in Nat
  BY Sorts DEF Typed
<1>3. ASSUME NEW i \in (staged + 1)..(staged + n) PROVE r[i - staged] \in Refs
  BY <1>2, <1>3
<1>4. staged' \in 0..MaxItems /\ staged' = staged + n
  BY <1>2 DEF Stage
<1>5. QED BY <1>1, <1>3, <1>4, Sorts DEF Typed

\* What a request carries stays when others act.
LEMMA CarriedStays ==
  ASSUME Sound, UNCHANGED session, tillin \subseteq tillin'
  PROVE  session' \in [Sessions -> Request] /\ Carried'
BY DEF Sound, Typed, Carried, Found

\* A background run keeps the columns to their values.
LEMMA RunSound ==
  ASSUME Sound, NEW k \in Runs, RunNext(k)
  PROVE  Sound'
<1>1. session' \in [Sessions -> Request] /\ Carried' /\ UNCHANGED <<remote, session, history>>
  BY CarriedStays DEF RunNext, RunStarts, RunCompletes, RunFails, RunKilled, remote
<1>2. job.config \in Configs /\ run[k].config \in Configs
  BY DEF Sound, Typed
<1>3. run' \in [Runs -> [pc : {"none", "asked", "runs", "done"}, config : Configs]]
  <2>1. CASE RunStarts(k)
    BY <2>1, <1>2 DEF RunStarts, Sound, Typed
  <2>2. CASE RunEnds(k)
    <3>1. [run[k] EXCEPT !.pc = "done"] \in [pc : {"none", "asked", "runs", "done"}, config : Configs]
      BY DEF Sound, Typed
    <3>2. QED BY <2>2, <3>1 DEF RunEnds, Sound, Typed
  <2>3. QED BY <2>1, <2>2 DEF RunNext, RunCompletes, RunFails, RunKilled
<1>4. job' \in [status : {"pending", "processing", "completed", "failed"}, config : Configs]
  BY <1>2 DEF RunNext, RunStarts, RunCompletes, RunFails, RunKilled, Sound, Typed
<1>5. /\ item' \in [Items -> Row \cup {NoRow}] /\ staged' \in 0..MaxItems /\ debited' \in Nat
  <2>1. CASE RunCompletes(k)
    <3>1. PICK n \in 0..MaxItems : Stage(n) /\ debited' = debited + n
      BY <2>1 DEF RunCompletes
    <3>2. n \in Nat /\ debited \in Nat
      BY Sorts DEF Sound, Typed
    <3>3. QED BY <3>1, <3>2, StagePuts DEF Sound
  <2>2. QED BY <2>1 DEF RunNext, RunStarts, RunFails, RunKilled, Sound, Typed
<1>6. QED BY <1>1, <1>3, <1>4, <1>5 DEF Sound, Typed, remote, history

\* The rows are marked, reset, edited or purged.
LEMMA RowsSound ==
  ASSUME Sound, NEW s \in Sessions,
         CommitRetry(s) \/ Choose(s) \/ CommitEdit(s) \/ BulkUpdate(s) \/ Reset(s) \/ CommitTransfer(s)
  PROVE  Sound'
<1>1. CASE CommitRetry(s)
  <2>1. session[s].config \in Configs
    BY DEF Sound, Typed, Request
  <2>2. PICK k \in Runs : run' = [run EXCEPT ![k].pc = "asked"]
    BY <1>1 DEF CommitRetry
  <2>3. [run[k] EXCEPT !.pc = "asked"] \in [pc : {"none", "asked", "runs", "done"}, config : Configs]
    BY DEF Sound, Typed
  <2>4. run' \in [Runs -> [pc : {"none", "asked", "runs", "done"}, config : Configs]]
    BY <2>2, <2>3 DEF Sound, Typed
  <2>5. session' \in [Sessions -> Request] /\ Carried'
    BY <1>1, EndSound DEF CommitRetry, remote
  <2>6. QED BY <1>1, <2>1, <2>4, <2>5 DEF CommitRetry, Sound, Typed, remote, history
<1>2. CASE Choose(s)
  <2>1. PICK c \in Choices : job' = [job EXCEPT !.config.choice = c]
    BY <1>2 DEF Choose
  <2>2. job' \in [status : {"pending", "processing", "completed", "failed"}, config : Configs]
    BY <2>1 DEF Sound, Typed, Configs
  <2>3. session' \in [Sessions -> Request] /\ Carried'
    BY <1>2, CarriedStays DEF Choose, remote
  <2>4. QED BY <1>2, <2>2, <2>3 DEF Choose, Sound, Typed, remote, history
<1>3. CASE CommitEdit(s)
  <2>1. session' \in [Sessions -> Request] /\ Carried'
    BY <1>3, EndSound DEF CommitEdit, remote
  <2>0. PICK i \in session[s].todo :
          \E r \in Refs, to \in Editable \cup {session[s].rows[i].status} :
            LET status == IF to = session[s].rows[i].status THEN item[i].status ELSE to
                opens == IF item[i].status = "applied" /\ status # "applied" THEN 1 ELSE 0
            IN /\ Exists(i)
               /\ item' = [item EXCEPT ![i].ref = r, ![i].status = status]
               /\ reopened' = [reopened EXCEPT ![i] = @ + opens]
    BY <1>3 DEF CommitEdit
  <2>2. PICK r \in Refs, to \in Editable \cup {session[s].rows[i].status} :
          LET status == IF to = session[s].rows[i].status THEN item[i].status ELSE to
              opens == IF item[i].status = "applied" /\ status # "applied" THEN 1 ELSE 0
          IN /\ Exists(i)
             /\ item' = [item EXCEPT ![i].ref = r, ![i].status = status]
             /\ reopened' = [reopened EXCEPT ![i] = @ + opens]
    BY <2>0
  <2> DEFINE status == IF to = session[s].rows[i].status THEN item[i].status ELSE to
  <2> DEFINE opens == IF item[i].status = "applied" /\ status # "applied" THEN 1 ELSE 0
  <2>3. i \in Items /\ item[i] \in Row /\ opens \in Nat
    BY <2>2, Sorts DEF Sound, Typed, Request, Exists
  <2>4. status \in Statuses
    BY <2>3 DEF Statuses, Row
  <2>5. item' = [item EXCEPT ![i].ref = r, ![i].status = status]
        /\ reopened' = [reopened EXCEPT ![i] = @ + opens]
    BY <2>2
  <2>6. item' \in [Items -> Row \cup {NoRow}]
    <3> HIDE DEF status
    <3>1. item' = [item EXCEPT ![i] = [item[i] EXCEPT !.ref = r, !.status = status]]
      BY <2>3, <2>5 DEF Sound, Typed
    <3>2. [item[i] EXCEPT !.ref = r, !.status = status] \in Row
      BY <2>3, <2>4 DEF Row
    <3>3. QED BY <3>1, <3>2 DEF Sound, Typed
  <2>7. reopened' \in [Items -> Nat]
    BY <2>3, <2>5 DEF Sound, Typed
  <2>8. QED BY <1>3, <2>1, <2>6, <2>7 DEF CommitEdit, Sound, Typed, remote
<1>4. CASE BulkUpdate(s)
  <2>1. PICK S \in SUBSET {i \in Items : item[i].status \in Editable}, to \in Editable :
          item' = WithStatus(S, to)
    BY <1>4 DEF BulkUpdate
  <2>2. S \subseteq Rows /\ to \in Statuses
    BY DEF Rows, Exists, Editable, Statuses
  <2>3. session' \in [Sessions -> Request] /\ Carried'
    BY <1>4, CarriedStays DEF BulkUpdate, remote
  <2>4. item' \in [Items -> Row \cup {NoRow}]
    BY <2>1, <2>2, StatusPut DEF Sound
  <2>5. QED BY <1>4, <2>3, <2>4 DEF BulkUpdate, Sound, Typed, remote, history
<1>5. CASE Reset(s)
  <2>1. PICK i \in Rows : item' = [item EXCEPT ![i].ref = item[i].original]
    BY <1>5 DEF Reset
  <2>2. i \in Items /\ item[i] \in Row
    BY Sorts DEF Rows, Exists, Sound, Typed
  <2>3. item' = [item EXCEPT ![i] = [item[i] EXCEPT !.ref = item[i].original]]
    BY <2>1, <2>2 DEF Sound, Typed
  <2>4. [item[i] EXCEPT !.ref = item[i].original] \in Row
    BY <2>2 DEF Row
  <2>5. session' \in [Sessions -> Request] /\ Carried'
    BY <1>5, CarriedStays DEF Reset, remote
  <2>6. item' \in [Items -> Row \cup {NoRow}]
    BY <2>3, <2>4 DEF Sound, Typed
  <2>7. QED BY <1>5, <2>5, <2>6 DEF Reset, Sound, Typed, remote, history
<1>6. CASE CommitTransfer(s)
  <2>1. Kept \subseteq Rows /\ "applied" \in Statuses
    BY DEF Kept, Rows, Exists, Statuses
  <2>2. item' \in [Items -> Row \cup {NoRow}]
    BY <1>6, <2>1, StatusPut DEF CommitTransfer, Sound
  <2>3. [session[s].config EXCEPT !.transfer = TRUE] \in Configs
    BY DEF Sound, Typed, Request, Configs
  <2>4. job' \in [status : {"pending", "processing", "completed", "failed"}, config : Configs]
    BY <1>6, <2>3 DEF CommitTransfer, Sound, Typed
  <2>5. session' \in [Sessions -> Request] /\ Carried'
    BY <1>6, EndSound DEF CommitTransfer, remote
  <2>6. QED BY <1>6, <2>2, <2>4, <2>5 DEF CommitTransfer, Sound, Typed, remote, history
<1>7. QED BY <1>1, <1>2, <1>3, <1>4, <1>5, <1>6

\* The lines of a file are products of the rows it was rendered from.
LEMMA LinesAreProducts ==
  ASSUME Sound, NEW s \in Sessions, sends < MaxSends
  PROVE  /\ Lines(s) \subseteq Products /\ sends + 1 \in 0..MaxSends
         /\ \A p \in Lines(s) : p.item \in session[s].todo
         /\ \A i \in session[s].todo :
              Lines(s) \cap {p \in Products : p.item = i}
                = {[send |-> sends + 1, item |-> i, ref |-> session[s].rows[i].ref]}
<1>1. sends + 1 \in 0..MaxSends
  BY Sorts DEF Sound, Typed
<1>2. ASSUME NEW i \in session[s].todo
      PROVE  i \in 0..MaxItems /\ session[s].rows[i].ref \in Refs
  <2>1. i \in Items /\ session[s].rows[i] \in Row
    BY Sorts DEF Sound, Typed, Carried, Request
  <2>2. QED BY <2>1, Sorts DEF Items, Row
<1>3. ASSUME NEW p \in Lines(s) PROVE p \in Products /\ p.item \in session[s].todo
  BY <1>1, <1>2 DEF Lines, Products
<1>4. ASSUME NEW i \in session[s].todo
      PROVE  Lines(s) \cap {p \in Products : p.item = i}
               = {[send |-> sends + 1, item |-> i, ref |-> session[s].rows[i].ref]}
  <2> DEFINE line == [send |-> sends + 1, item |-> i, ref |-> session[s].rows[i].ref]
  <2>1. line \in Lines(s) /\ line.item = i
    BY DEF Lines
  <2>2. ASSUME NEW p \in Lines(s), p.item = i PROVE p = line
    BY <2>2 DEF Lines
  <2> HIDE DEF line
  <2>3. Lines(s) \cap {p \in Products : p.item = i} = {line}
    BY <1>3, <2>1, <2>2
  <2>4. QED BY <2>3 DEF line
<1>5. QED BY <1>1, <1>3, <1>4

\* Files are sent, and answered in time or not.
LEMMA FilesSound ==
  ASSUME Sound, NEW s \in Sessions, Send(s) \/ SendTimesOut(s)
  PROVE  Sound'
<1>1. CASE Send(s)
  <2> DEFINE r == [session[s] EXCEPT !.pc = "sent"]
  <2>1. /\ session' = [session EXCEPT ![s] = r] /\ r \in Request
        /\ r.todo = session[s].todo /\ r.found = session[s].found /\ r.rows = session[s].rows
    BY <1>1 DEF Send, Sound, Typed, Request
  <2>2. \A i \in r.todo \cup {f.row : f \in r.found} : r.rows[i].status # "none"
    BY <2>1 DEF Sound, Carried, Found
  <2>3. tillin \subseteq tillin' /\ \A f \in r.found : f.product \in tillin'
    BY <1>1, <2>1 DEF Send, Sound, Carried
  <2>4. session' \in [Sessions -> Request] /\ Carried'
    <3> HIDE DEF r
    <3>1. QED BY <2>1, <2>2, <2>3, RequestReplaced
  <2>5. QED BY <1>1, <2>4, LinesAreProducts DEF Send, Sound, Typed, history
<1>2. CASE SendTimesOut(s)
  <2>1. session' \in [Sessions -> Request] /\ Carried'
    BY <1>2, EndSound DEF SendTimesOut
  <2>2. lost' \in [Items -> Nat]
    BY <1>2 DEF SendTimesOut, Lose, Sound, Typed
  <2>3. QED BY <1>2, <2>1, <2>2, LinesAreProducts DEF SendTimesOut, Sound, Typed
<1>3. QED BY <1>1, <1>2

\* What was found for a row is a product, hence no empty link.
LEMMA FoundProduct ==
  ASSUME Sound, NEW s \in Sessions, NEW i \in Found(s)
  PROVE  /\ ProductOf(s, i) \in tillin /\ ProductOf(s, i) \in Products
         /\ ProductOf(s, i) # Unlinked
         /\ i \in Items /\ session[s].rows[i] \in Row
<1>1. PICK f \in session[s].found : f.row = i
  BY DEF Found
<1>2. f \in [row : Items, product : Products] /\ f.product \in tillin
  BY DEF Sound, Typed, Request, Carried
<1>3. [row |-> i, product |-> f.product] \in session[s].found
  BY <1>1, <1>2
<1>4. ProductOf(s, i) \in tillin
  BY <1>2, <1>3 DEF ProductOf
<1>5. i \in Items /\ session[s].rows[i] \in Row
  BY <1>1, <1>2, Sorts DEF Sound, Typed, Carried, Request
<1>6. QED BY <1>4, <1>5, Sorts DEF Sound, Typed

\* A row of a request's result.
LEMMA ReconciledRowIs ==
  ASSUME Sound, NEW s \in Sessions, Found(s) \subseteq Rows, NEW i \in Items, NEW pictured
  PROVE  /\ ReconciledRow(s, i, pictured) \in Row \cup {NoRow}
         /\ i \notin Found(s) => ReconciledRow(s, i, pictured) = item[i]
         /\ i \in Found(s) => /\ ReconciledRow(s, i, pictured).status = "applied"
                              /\ ReconciledRow(s, i, pictured).link = ProductOf(s, i)
<1>1. CASE i \notin Found(s)
  BY <1>1 DEF ReconciledRow, Sound, Typed
<1>2. CASE i \in Found(s)
  <2> DEFINE ref == IF i \in pictured THEN session[s].rows[i].ref ELSE item[i].ref
  <2>1. item[i] \in Row /\ ProductOf(s, i) \in Products /\ session[s].rows[i] \in Row
    BY <1>2, FoundProduct, Sorts DEF Rows, Exists, Sound, Typed
  <2>2. ref \in Refs
    BY <2>1 DEF Row
  <2>3. ReconciledRow(s, i, pictured)
          = [item[i] EXCEPT !.status = "applied", !.link = ProductOf(s, i), !.ref = ref]
    BY <1>2, <2>1 DEF ReconciledRow, Row
  <2> HIDE DEF ref
  <2>4. QED BY <1>2, <2>1, <2>2, <2>3 DEF Row, Statuses
<1>3. QED BY <1>1, <1>2

\* A linking request changes the rows it found, and of those only the link.
LEMMA LinkedRowIs ==
  ASSUME Sound, NEW s \in Sessions, Found(s) \subseteq Rows, NEW i \in Items, NEW pictured
  PROVE  /\ LinkedRow(s, i, pictured) \in Row \cup {NoRow}
         /\ i \notin Found(s) => LinkedRow(s, i, pictured) = item[i]
         /\ i \in Found(s) => /\ LinkedRow(s, i, pictured).status = item[i].status
                              /\ LinkedRow(s, i, pictured).link \in {item[i].link, ProductOf(s, i)}
<1>1. CASE i \notin Found(s)
  BY <1>1 DEF LinkedRow, Sound, Typed
<1>2. CASE i \in Found(s)
  <2> DEFINE loaded == session[s].rows[i]
  <2> DEFINE link == IF loaded.link = Unlinked THEN ProductOf(s, i) ELSE item[i].link
  <2> DEFINE ref == IF i \in pictured /\ loaded.link \in {Unlinked, ProductOf(s, i)} THEN loaded.ref ELSE item[i].ref
  <2>1. item[i] \in Row /\ ProductOf(s, i) \in Products /\ loaded \in Row
    BY <1>2, FoundProduct, Sorts DEF Rows, Exists, Sound, Typed
  <2>2. ref \in Refs /\ link \in Products \cup {Unlinked}
    BY <2>1 DEF Row
  <2>3. LinkedRow(s, i, pictured) = [item[i] EXCEPT !.link = link, !.ref = ref]
    BY <1>2, <2>1 DEF LinkedRow, Row
  <2>4. link \in {item[i].link, ProductOf(s, i)}
    OBVIOUS
  <2> HIDE DEF ref, link
  <2>5. QED BY <1>2, <2>1, <2>2, <2>3, <2>4 DEF Row
<1>3. QED BY <1>1, <1>2

\* The search of a reconcile or of a link, its commit, and what breaks a request off.
LEMMA SearchSound ==
  ASSUME Sound, NEW s \in Sessions, LookUp(s) \/ CommitReconcile(s) \/ CommitLink(s) \/ Abort(s)
  PROVE  Sound'
<1>1. CASE LookUp(s)
  <2>1. PICK i \in session[s].todo :
          \E match \in {{}} \cup
                 (LET hits == {p \in tillin : p.ref = session[s].rows[i].ref}
                  IN  IF Cardinality(hits) = 1 THEN {hits} ELSE {}) :
             session' = [session EXCEPT ![s].todo = @ \ {i},
                                        ![s].found = @ \cup {[row |-> i, product |-> p] : p \in match}]
    BY <1>1 DEF LookUp
  <2>2. PICK match \in SUBSET tillin :
             session' = [session EXCEPT ![s].todo = @ \ {i},
                                        ![s].found = @ \cup {[row |-> i, product |-> p] : p \in match}]
    BY <2>1
  <2> DEFINE new == {[row |-> i, product |-> p] : p \in match}
  <2> DEFINE r == [session[s] EXCEPT !.todo = @ \ {i}, !.found = @ \cup new]
  <2>3. i \in Items /\ match \subseteq Products /\ session[s] \in Request
    BY DEF Sound, Typed, Request
  <2>4. new \subseteq [row : Items, product : Products]
    BY <2>3
  <2>5. \A f \in new : f.row = i /\ f.product \in tillin
    BY <2>2
  <2>6. session' = [session EXCEPT ![s] = r]
    BY <2>2 DEF Sound, Typed
  <2> HIDE DEF new
  <2>7. /\ r \in Request /\ r.todo = session[s].todo \ {i} /\ r.rows = session[s].rows
        /\ r.found = session[s].found \cup new
    BY <2>3, <2>4 DEF Request
  <2> HIDE DEF r
  <2>8. \A j \in r.todo \cup {f.row : f \in r.found} : r.rows[j].status # "none"
    BY <2>5, <2>7 DEF Sound, Carried, Found
  <2>9. tillin \subseteq tillin' /\ \A f \in r.found : f.product \in tillin'
    BY <1>1, <2>5, <2>7 DEF LookUp, Sound, Carried, remote
  <2>10. session' \in [Sessions -> Request] /\ Carried'
    BY <2>6, <2>7, <2>8, <2>9, RequestReplaced
  <2>11. QED BY <1>1, <2>10 DEF LookUp, Sound, Typed, remote, history
<1>2. CASE CommitReconcile(s)
  <2>1. PICK pictured \in SUBSET Found(s) : item' = [i \in Items |-> ReconciledRow(s, i, pictured)]
    BY <1>2 DEF CommitReconcile
  <2>2. Found(s) \subseteq Rows
    BY <1>2 DEF CommitReconcile, AllLookedUp
  <2>3. item' \in [Items -> Row \cup {NoRow}]
    BY <2>1, <2>2, ReconciledRowIs
  <2>4. [session[s].config EXCEPT !.transfer = TRUE] \in Configs
    BY DEF Sound, Typed, Request, Configs
  <2>5. job' \in [status : {"pending", "processing", "completed", "failed"}, config : Configs]
    BY <1>2, <2>4 DEF CommitReconcile, Sound, Typed
  <2>6. session' \in [Sessions -> Request] /\ Carried'
    BY <1>2, EndSound DEF CommitReconcile, remote
  <2>7. QED BY <1>2, <2>3, <2>5, <2>6 DEF CommitReconcile, Sound, Typed, remote, history
<1>3. CASE CommitLink(s)
  <2>1. PICK pictured \in SUBSET Found(s) : item' = [i \in Items |-> LinkedRow(s, i, pictured)]
    BY <1>3 DEF CommitLink
  <2>2. Found(s) \subseteq Rows
    BY <1>3 DEF CommitLink, AllLookedUp
  <2>3. item' \in [Items -> Row \cup {NoRow}]
    BY <2>1, <2>2, LinkedRowIs
  <2>4. session' \in [Sessions -> Request] /\ Carried'
    BY <1>3, EndSound DEF CommitLink, remote
  <2>5. QED BY <1>3, <2>3, <2>4 DEF CommitLink, Sound, Typed, remote, history
<1>4. CASE Abort(s)
  <2>1. session' \in [Sessions -> Request] /\ Carried'
    BY <1>4, EndSound DEF Abort, remote
  <2>2. lost' \in [Items -> Nat]
    BY <1>4 DEF Abort, Lose, Sound, Typed
  <2>3. QED BY <1>4, <2>1, <2>2 DEF Abort, Sound, Typed, remote
<1>5. QED BY <1>1, <1>2, <1>3, <1>4

Loads(s) == LoadRetry(s) \/ LoadEdit(s) \/ LoadTransfer(s) \/ LoadReconcile(s) \/ LoadLink(s)

\* A handler has loaded the rows it will work on.
LEMMA LoadSound ==
  ASSUME Sound, NEW s \in Sessions, Loads(s)
  PROVE  Sound'
<1>1. CASE LoadRetry(s)
  <2>1. Begin(s, "retry", {}) /\ {} \subseteq Rows
    BY <1>1 DEF LoadRetry
  <2>2. QED BY <1>1, <2>1, BeginSound DEF LoadRetry
<1>2. CASE LoadEdit(s)
  <2>1. PICK i \in Rows : Begin(s, "edit", {i})
    BY <1>2 DEF LoadEdit
  <2>2. QED BY <1>2, <2>1, BeginSound DEF LoadEdit
<1>3. CASE LoadTransfer(s)
  <2>1. Begin(s, "send", Kept) /\ Kept \subseteq Rows
    BY <1>3 DEF LoadTransfer, Kept, Rows, Exists
  <2>2. QED BY <1>3, <2>1, BeginSound DEF LoadTransfer
<1>4. CASE LoadReconcile(s)
  <2>1. Begin(s, "reconcile", Kept) /\ Kept \subseteq Rows
    BY <1>4 DEF LoadReconcile, Kept, Rows, Exists
  <2>2. QED BY <1>4, <2>1, BeginSound DEF LoadReconcile
<1>5. CASE LoadLink(s)
  <2> DEFINE S == {i \in Items : item[i].status = "applied"}
  <2>1. Begin(s, "link", S) /\ S \subseteq Rows
    BY <1>5 DEF LoadLink, Rows, Exists
  <2>2. QED BY <1>5, <2>1, BeginSound DEF LoadLink
<1>6. QED BY <1>1, <1>2, <1>3, <1>4, <1>5 DEF Loads

\* Tillin takes a line that was sent.
LEMMA LateSound ==
  ASSUME Sound, TakeLate
  PROVE  Sound'
<1>1. session' \in [Sessions -> Request] /\ Carried'
  BY CarriedStays DEF TakeLate
<1>2. QED BY <1>1 DEF TakeLate, Sound, Typed, history

\* Every step keeps it, whichever requests overlap.
LEMMA SoundStep ==
  ASSUME Sound, [Next]_vars
  PROVE  Sound'
<1>1. CASE UNCHANGED vars
  <2>1. session' \in [Sessions -> Request] /\ Carried'
    BY <1>1, CarriedStays DEF vars
  <2>2. QED BY <1>1, <2>1 DEF vars, Sound, Typed
<1>2. ASSUME NEW k \in Runs, RunNext(k) PROVE Sound'
  BY <1>2, RunSound
<1>3. ASSUME NEW s \in Sessions, RequestNext(s) PROVE Sound'
  BY <1>3, RowsSound, FilesSound, SearchSound, LoadSound DEF RequestNext, Loads
<1>4. CASE TakeLate
  BY <1>4, LateSound
<1>5. QED BY <1>1, <1>2, <1>3, <1>4 DEF Next

\* It holds at the start.
LEMMA SoundInit == Init => Sound
<1>1. SUFFICES ASSUME Init PROVE Sound
  OBVIOUS
<1>2. job \in [status : {"pending", "processing", "completed", "failed"}, config : Configs]
  BY <1>1 DEF Init, Configs
<1>3. tillin \subseteq Products
  BY <1>1, Sorts DEF Init, Products
<1>4. /\ session \in [Sessions -> Request] /\ Carried
  BY <1>1, IdleRequest DEF Init, Carried, Found
<1>5. QED BY <1>1, <1>2, <1>3, <1>4, Sorts, NothingChosen DEF Init, Sound, Typed

\* The columns keep to their declared values, and so does what is in flight, however the
\* requests and the runs overlap.
THEOREM TypeInvariant == Spec => []TypeOK
<1>1. Sound => TypeOK
  <2>1. SUFFICES ASSUME Sound PROVE TypeOK
    OBVIOUS
  <2>2. \A i \in Items : item[i] = NoRow \/ item[i] \in Row
    BY <2>1 DEF Sound, Typed
  <2>3. \A s \in Sessions : session[s] \in Request /\ \A f \in session[s].found : f.product \in tillin
    BY <2>1 DEF Sound, Typed, Carried
  <2>4. \A s \in Sessions : \A f \in session[s].found : f.row \in Items
    BY <2>3 DEF Request
  <2>5. QED BY <2>1, <2>2, <2>3, <2>4 DEF TypeOK, Sound, Typed, Row, Statuses, Request
<1>2. QED BY <1>1, SoundInit, SoundStep, PTL DEF Spec


-----------------------------------------------------------------------------
(* What stays when a step touches little *)

\* A column of a row, of a job or of a request in the session s.
LEMMA Fields ==
  ASSUME Sound
  PROVE  /\ job.config \in Configs /\ job.config.transfer \in BOOLEAN
         /\ \A i \in Items : item[i].status # "none" <=> item[i] \in Row
         /\ \A i \in Items : i \in Rows <=> item[i] # NoRow
         /\ \A i \in Items : i \in Kept => i \in Rows /\ item[i].status = "ready_for_review"
         /\ \A i \in Items : item[i].status = "applied" => i \in Rows /\ i \notin Kept
         /\ \A s \in Sessions : session[s] \in Request /\ session[s].config.transfer \in BOOLEAN
         /\ \A k \in Runs : run[k].config.transfer \in BOOLEAN
BY Sorts DEF Sound, Typed, Configs, Request, Rows, Exists, Kept

\* The same rows, however they read, keep the account of the job.
LEMMA RowsStay ==
  ASSUME NEW s, Inv(s), Sound', UNCHANGED <<run, staged, debited>>, job'.status = job.status,
         ~Job("completed") => ~job'.config.transfer,
         \A i \in Items : item'[i] = NoRow <=> item[i] = NoRow
  PROVE  OneRun' /\ ChargeMatchesRows' /\ Rows' = Rows
<1>1. \A i \in Items : i \in Rows <=> item[i] # NoRow
  BY Fields DEF Inv
<1>2. \A i \in Items : (i \in Rows)' <=> item'[i] # NoRow
  BY Sorts DEF Sound, Typed, Rows, Exists
<1>3. Rows' = Rows
  BY <1>1, <1>2 DEF Rows
<1>4. ChargeMatchesRows'
  BY <1>3 DEF Inv, ChargeMatchesRows
<1>5. OneRun'
  BY <1>3 DEF Inv, OneRun, Live, Job
<1>6. QED BY <1>3, <1>4, <1>5

\* The copies of a row stay accounted for.
LEMMA CountStays ==
  ASSUME NEW s, Inv(s), Sound', tillin' \cup late' = tillin \cup late,
         \A i \in Items :
           /\ reopened'[i] >= reopened[i] /\ lost'[i] >= lost[i]
           /\ Spent(s, i) => Spent(s, i)' \/ reopened'[i] + lost'[i] > reopened[i] + lost[i]
  PROVE  Counted(s)'
<1>1. SUFFICES ASSUME NEW i \in Items
               PROVE  /\ IsFiniteSet(SentOf(i)')
                      /\ Cardinality(SentOf(i)') <= reopened'[i] + lost'[i] + IF Spent(s, i)' THEN 1 ELSE 0
  BY DEF Counted
<1>2. SentOf(i)' = SentOf(i)
  BY DEF SentOf
<1>3. /\ IsFiniteSet(SentOf(i))
      /\ Cardinality(SentOf(i)) <= reopened[i] + lost[i] + IF Spent(s, i) THEN 1 ELSE 0
  BY DEF Inv, Counted
<1>4. Cardinality(SentOf(i)) \in Nat
  BY <1>3, FS_CardinalityType
<1>5. reopened[i] \in Nat /\ lost[i] \in Nat /\ reopened'[i] \in Nat /\ lost'[i] \in Nat
  BY DEF Inv, Sound, Typed
<1>6. CASE Spent(s, i)
  BY <1>2, <1>3, <1>4, <1>5, <1>6
<1>7. CASE ~Spent(s, i)
  BY <1>2, <1>3, <1>4, <1>5, <1>7
<1>8. QED BY <1>6, <1>7

\* Nothing is in flight for an idle session.
LEMMA IdleHolds ==
  ASSUME NEW s, session'[s] = Idle
  PROVE  LoadHolds(s)' /\ \A i \in Items : Spent(s, i)' <=> item'[i].status = "applied"
BY NothingChosen, IdleRequest DEF LoadHolds, Sending, Spent

\* What was sent stays accounted for when the rows are and the applied ones were.
LEMMA SentStays ==
  ASSUME NEW s, Inv(s), Rows' = Rows, UNCHANGED <<tillin, late>>,
         job.config.transfer => job'.config.transfer,
         \A i \in Items : item'[i].status = "applied" =>
            /\ item[i].status = "applied"
            /\ item[i].link # Unlinked => item'[i].link # Unlinked
  PROVE  SentRowsAccounted'
<1>1. SentRowsSurvive'
  BY DEF Inv, SentRowsAccounted, SentRowsSurvive, Rows
<1>2. AppliedReached'
  BY DEF Inv, SentRowsAccounted, AppliedReached
<1>3. TransferRecorded'
  BY DEF Inv, SentRowsAccounted, TransferRecorded
<1>4. QED BY <1>1, <1>2, <1>3 DEF SentRowsAccounted


-----------------------------------------------------------------------------
(* The steps, one session at work *)

\* The background run: until it completes the job has no row, and nothing is in flight
\* that would send or mark one.
LEMMA RunStep ==
  ASSUME NEW s \in Sessions, Inv(s), NEW k \in Runs, RunNext(k)
  PROVE  Inv(s)'
<1>1. Sound' /\ UNCHANGED <<tillin, late, sends, session, reopened, lost>>
  BY RunSound DEF Inv, RunNext, RunStarts, RunCompletes, RunFails, RunKilled, remote, history
<1>2. /\ Live(k) /\ ~Job("completed") /\ ~Job("failed") /\ Rows = {}
      /\ ~job.config.transfer /\ ~run[k].config.transfer
      /\ \A j \in Runs : Live(j) => j = k
  BY DEF RunNext, RunStarts, RunCompletes, RunFails, RunKilled, Inv, OneRun, Live, Job
<1>3. /\ session[s].pc # "retry" /\ ~Sending(s) /\ session[s].pc # "sent"
      /\ ~session[s].config.transfer
  BY <1>2 DEF Inv, LoadHolds, Sending
<1>4. LoadHolds(s)'
  BY <1>1, <1>3 DEF LoadHolds, Sending
<1>5. \A i \in Items : item[i].status # "applied" /\ item[i] = NoRow
  BY <1>2, Fields DEF Inv
<1>6. SentRowsSurvive'
  BY <1>1, <1>2 DEF Inv, SentRowsAccounted, SentRowsSurvive, Rows
<1>7. \A i \in Items : item'[i].status # "applied"
  <2>1. CASE RunCompletes(k)
    <3>1. PICK n \in 0..MaxItems : Stage(n)
      BY <2>1 DEF RunCompletes
    <3>2. n \in Nat
      BY Sorts
    <3>3. QED BY <1>5, <3>1, <3>2, StagePuts DEF Inv, Sound
  <2>2. QED BY <1>5, <2>1 DEF RunNext, RunStarts, RunFails, RunKilled
<1>8. SentRowsAccounted'
  BY <1>6, <1>7 DEF SentRowsAccounted, AppliedReached, TransferRecorded
<1>9. Counted(s)'
  <2>1. \A i \in Items : ~Spent(s, i)
    BY <1>3, <1>5 DEF Spent
  <2>2. \A i \in Items : reopened'[i] >= reopened[i] /\ lost'[i] >= lost[i]
    BY <1>1 DEF Inv, Sound, Typed
  <2>3. QED BY <1>1, <2>1, <2>2, CountStays
<1>10. OneRun' /\ ChargeMatchesRows'
  <2>1. \A j \in Runs : j # k => run'[j] = run[j]
    BY DEF RunNext, RunStarts, RunCompletes, RunFails, RunKilled, RunEnds, Inv, Sound, Typed
  <2>0. \A j \in Runs : run'[j].pc # "done" => ~run'[j].config.transfer
    <3>1. run'[k].pc = "done" \/ run'[k].config = job.config
      BY DEF RunNext, RunStarts, RunCompletes, RunFails, RunKilled, RunEnds, Inv, Sound, Typed
    <3>2. QED BY <1>2, <2>1, <3>1 DEF Inv, OneRun
  <2>2. CASE RunCompletes(k)
    <3>1. PICK n \in 0..MaxItems : Stage(n) /\ debited' = debited + n
      BY <2>2 DEF RunCompletes
    <3>2. n \in Nat /\ staged \in Nat /\ staged + n <= MaxItems /\ MaxItems \in Nat
      BY <3>1, Sorts DEF Inv, Sound, Typed, Stage
    <3>3. /\ staged' = staged + n
          /\ \A i \in Items : i \in (staged + 1)..(staged + n) => item'[i] \in Row
          /\ \A i \in Items : i \notin (staged + 1)..(staged + n) => item'[i] = NoRow
      BY <1>5, <3>1, <3>2, StagePuts DEF Inv, Sound
    <3>4. \A i \in Items : (i \in Rows)' <=> i \in (staged + 1)..(staged + n)
      BY <3>3, Sorts DEF Rows, Exists
    <3>5. Rows' = (staged + 1)..(staged + n)
      BY <3>2, <3>4 DEF Rows, Items
    <3>6. Cardinality(Rows') = n
      BY <3>2, <3>5, FS_Interval
    <3>7. debited = 0
      BY <1>2, FS_EmptySet DEF Inv, ChargeMatchesRows
    <3>8. ChargeMatchesRows'
      BY <3>1, <3>2, <3>6, <3>7 DEF ChargeMatchesRows
    <3>9. \A j \in Runs : ~Live(j)'
      BY <2>1, <2>2, <1>2 DEF RunCompletes, RunEnds, Live, Inv, Sound, Typed
    <3>10. Job("completed")'
      BY <2>2 DEF RunCompletes, Job
    <3>11. \A i \in Items : i > staged' => item'[i] = NoRow
      BY <3>2, <3>3 DEF Items
    <3>12. QED BY <2>0, <3>8, <3>9, <3>10, <3>11 DEF OneRun
  <2>3. CASE RunStarts(k)
    <3>1. UNCHANGED <<item, staged, debited>> /\ Rows' = Rows
      BY <2>3 DEF RunStarts, Rows, Exists
    <3>2. job' = [job EXCEPT !.status = "processing"] /\ run'[k].config = job.config
      BY <2>3 DEF RunStarts, Inv, Sound, Typed
    <3>3. job'.status = "processing" /\ job'.config = job.config
      BY <3>2 DEF Inv, Sound, Typed
    <3>4. QED BY <1>2, <2>1, <2>0, <3>1, <3>2, <3>3 DEF Inv, OneRun, ChargeMatchesRows, Job, Live
  <2>4. CASE RunFails(k) \/ RunKilled(k)
    <3>1. UNCHANGED <<item, staged, debited>> /\ Rows' = Rows
      BY <2>4 DEF RunFails, RunKilled, Rows, Exists
    <3>2. job'.config = job.config /\ job'.status # "completed"
      BY <2>4, <1>2 DEF RunFails, RunKilled, Inv, Sound, Typed, Job
    <3>3. \A j \in Runs : ~Live(j)'
      BY <2>1, <2>4, <1>2 DEF RunFails, RunKilled, RunEnds, Live, Inv, Sound, Typed
    <3>4. QED BY <1>2, <2>0, <3>1, <3>2, <3>3 DEF Inv, OneRun, ChargeMatchesRows, Job
  <2>5. QED BY <2>2, <2>3, <2>4 DEF RunNext
<1>11. QED BY <1>1, <1>4, <1>8, <1>9, <1>10 DEF Inv

\* A handler loads the row: what it has read is what is there.
LEMMA LoadStep ==
  ASSUME NEW s \in Sessions, Inv(s), Loads(s)
  PROVE  Inv(s)'
<1>1. Sound' /\ UNCHANGED <<job, run, item, staged, debited, tillin, late, reopened, lost>>
  BY LoadSound DEF Inv, Loads, LoadRetry, LoadEdit, LoadTransfer, LoadReconcile, LoadLink, remote, history
<1>2. OneRun' /\ ChargeMatchesRows' /\ Rows' = Rows
  BY <1>1, RowsStay DEF Inv, OneRun
<1>3. SentRowsAccounted'
  BY <1>1, <1>2, SentStays
<1>4. session[s].pc = "idle" /\ session'[s].pc # "sent"
  BY DEF Inv, Sound, Typed, Loads, LoadRetry, LoadEdit, LoadTransfer, LoadReconcile, LoadLink, Begin, Free
<1>5. Counted(s)'
  <2>1. \A i \in Items : Spent(s, i) => Spent(s, i)'
    BY <1>1, <1>4 DEF Spent
  <2>2. \A i \in Items : reopened'[i] >= reopened[i] /\ lost'[i] >= lost[i]
    BY <1>1 DEF Inv, Sound, Typed
  <2>3. QED BY <1>1, <2>1, <2>2, CountStays
<1>6. LoadHolds(s)'
  <2>1. session'[s].config = job.config
    BY DEF Inv, Sound, Typed, Loads, LoadRetry, LoadEdit, LoadTransfer, LoadReconcile, LoadLink, Begin
  <2>2. session'[s].pc = "retry" => Job("failed")
    BY DEF Inv, Sound, Typed, Loads, LoadRetry, LoadEdit, LoadTransfer, LoadReconcile, LoadLink, Begin,
           MayRetry, Job
  <2>3. session'[s].pc = "send" => session'[s].todo = Kept /\ Kept # {}
    BY DEF Inv, Sound, Typed, Loads, LoadRetry, LoadEdit, LoadTransfer, LoadReconcile, LoadLink, Begin
  <2>4. Kept # {} => Job("completed")
    BY Fields DEF Inv, OneRun, Kept
  <2>5. Kept' = Kept
    BY <1>1 DEF Kept
  <2>6. QED BY <1>1, <1>4, <2>1, <2>2, <2>3, <2>4, <2>5 DEF LoadHolds, Sending, Job
<1>7. QED BY <1>1, <1>2, <1>3, <1>5, <1>6 DEF Inv


\* A retry finds a failed job, hence no row to purge: a run that fails leaves none.
LEMMA RetryStep ==
  ASSUME NEW s \in Sessions, Inv(s), CommitRetry(s)
  PROVE  Inv(s)'
<1>1. Sound' /\ UNCHANGED <<staged, debited, tillin, late, reopened, lost>> /\ session'[s] = Idle
  BY RowsSound DEF Inv, CommitRetry, remote, history, End, Sound, Typed
<1>2. Job("failed") /\ Rows = {} /\ ~job.config.transfer /\ \A k \in Runs : ~Live(k)
  BY DEF Inv, CommitRetry, LoadHolds, OneRun, Job
<1>3. ~session[s].config.transfer
  BY <1>2 DEF Inv, LoadHolds
<1>4. \A i \in Items : item[i] = NoRow /\ item'[i] = NoRow
  BY <1>2, Fields DEF Inv, CommitRetry
<1>5. Rows' = Rows /\ ChargeMatchesRows'
  <2>1. Rows' = {}
    BY <1>4, Sorts DEF Rows, Exists
  <2>2. QED BY <1>1, <1>2, <2>1 DEF Inv, ChargeMatchesRows
<1>6. \A i \in Items : item[i].status # "applied" /\ item'[i].status # "applied"
  BY <1>4, Sorts DEF NoRow
<1>7. SentRowsAccounted'
  BY <1>1, <1>2, <1>5, <1>6, SentStays
<1>8. OneRun'
  <2>1. PICK k \in Runs : run' = [run EXCEPT ![k].pc = "asked"] /\ run[k].pc = "none"
    BY DEF CommitRetry
  <2>2. \A j \in Runs : Live(j)' => j = k
    BY <1>2, <2>1 DEF Live, Inv, Sound, Typed
  <2>3. job'.status = "pending" /\ job'.config = session[s].config
    BY DEF CommitRetry
  <2>4. \A j \in Runs : run'[j].pc # "done" => ~run'[j].config.transfer
    BY <2>1 DEF Inv, OneRun, Sound, Typed
  <2>5. QED BY <1>2, <1>3, <1>4, <1>5, <2>2, <2>3, <2>4 DEF OneRun, Job
<1>9. LoadHolds(s)' /\ Counted(s)'
  <2>1. session[s].pc # "sent"
    BY DEF CommitRetry
  <2>2. \A i \in Items : ~Spent(s, i)
    BY <1>6, <2>1 DEF Spent
  <2>3. \A i \in Items : reopened'[i] >= reopened[i] /\ lost'[i] >= lost[i]
    BY <1>1 DEF Inv, Sound, Typed
  <2>4. QED BY <1>1, <2>2, <2>3, IdleHolds, CountStays
<1>10. QED BY <1>1, <1>5, <1>7, <1>8, <1>9 DEF Inv

\* The review routes write rows that are there and mark none as applied; an edit that takes
\* a row back from applied is counted.
LEMMA ReviewStep ==
  ASSUME NEW s \in Sessions, Inv(s), Choose(s) \/ CommitEdit(s) \/ BulkUpdate(s) \/ Reset(s)
  PROVE  Inv(s)'
<1>1. Sound' /\ UNCHANGED <<run, staged, debited, tillin, late, lost>>
  BY RowsSound DEF Inv, Choose, CommitEdit, BulkUpdate, Reset, remote, history
<1>2. job'.status = job.status /\ job'.config.transfer = job.config.transfer
  BY DEF Choose, CommitEdit, BulkUpdate, Reset, Inv, Sound, Typed, Configs
<1>3. /\ \A i \in Items : item'[i] = NoRow <=> item[i] = NoRow
      /\ \A i \in Items : item'[i].status = "applied" =>
           item[i].status = "applied" /\ item'[i].link = item[i].link
      /\ \A i \in Items :
           /\ reopened'[i] >= reopened[i]
           /\ item[i].status = "applied" => item'[i].status = "applied" \/ reopened'[i] > reopened[i]
  <2>1. CASE Choose(s)
    BY <2>1 DEF Choose, history, Inv, Sound, Typed
  <2>2. CASE CommitEdit(s)
    <3>a. PICK i \in session[s].todo, r \in Refs :
            \E to \in Editable \cup {session[s].rows[i].status} :
              LET status == IF to = session[s].rows[i].status THEN item[i].status ELSE to
                  opens == IF item[i].status = "applied" /\ status # "applied" THEN 1 ELSE 0
              IN /\ Exists(i)
                 /\ item' = [item EXCEPT ![i].ref = r, ![i].status = status]
                 /\ reopened' = [reopened EXCEPT ![i] = @ + opens]
      BY <2>2 DEF CommitEdit
    <3>1. PICK to \in Editable \cup {session[s].rows[i].status} :
            LET status == IF to = session[s].rows[i].status THEN item[i].status ELSE to
                opens == IF item[i].status = "applied" /\ status # "applied" THEN 1 ELSE 0
            IN /\ Exists(i)
               /\ item' = [item EXCEPT ![i].ref = r, ![i].status = status]
               /\ reopened' = [reopened EXCEPT ![i] = @ + opens]
      BY <3>a
    <3> DEFINE status == IF to = session[s].rows[i].status THEN item[i].status ELSE to
    <3> DEFINE opens == IF item[i].status = "applied" /\ status # "applied" THEN 1 ELSE 0
    <3>2. i \in Items /\ item[i] \in Row
      BY <3>1, Sorts DEF Inv, Sound, Typed, Request, Exists
    <3>3. status \in Editable \cup {item[i].status} /\ opens \in Nat
      BY <3>1
    <3>4. item' = [item EXCEPT ![i].ref = r, ![i].status = status]
          /\ reopened' = [reopened EXCEPT ![i] = @ + opens]
      BY <3>1
    <3>5. item[i].status = "applied" /\ status # "applied" => opens = 1
      OBVIOUS
    <3> HIDE DEF status, opens
    <3>6. \A j \in Items : j # i => item'[j] = item[j] /\ reopened'[j] = reopened[j]
      BY <3>2, <3>4 DEF Inv, Sound, Typed
    <3>7. item'[i].status = status /\ item'[i].link = item[i].link /\ reopened'[i] = reopened[i] + opens
      BY <3>2, <3>4 DEF Inv, Sound, Typed, Row
    <3>8. \A j \in Items : reopened[j] \in Nat
      BY DEF Inv, Sound, Typed
    <3>9. item[i] # NoRow /\ item'[i] # NoRow
      BY <3>2, <3>3, <3>7, Sorts DEF Row, Statuses, Editable, NoRow
    <3>10. QED BY <3>2, <3>3, <3>5, <3>6, <3>7, <3>8, <3>9 DEF Editable
  <2>3. CASE BulkUpdate(s)
    <3>1. PICK S \in SUBSET {i \in Items : item[i].status \in Editable}, to \in Editable :
            item' = WithStatus(S, to)
      BY <2>3 DEF BulkUpdate
    <3>2. S \subseteq Rows /\ to \in Statuses /\ to # "applied" /\ to # "none"
          /\ \A i \in S : item[i].status # "applied" /\ item[i].status # "none"
      BY DEF Rows, Exists, Editable, Statuses
    <3>3. /\ \A i \in Items : i \in S => item'[i].status = to
          /\ \A i \in Items : i \notin S => item'[i] = item[i]
      BY <3>1, <3>2, StatusPut DEF Inv, Sound
    <3>4. UNCHANGED reopened
      BY <2>3 DEF BulkUpdate, history
    <3>5. QED BY <3>2, <3>3, <3>4, Sorts DEF Inv, Sound, Typed
  <2>4. CASE Reset(s)
    <3>1. PICK i \in Rows : item[i].status # "applied" /\ item' = [item EXCEPT ![i].ref = item[i].original]
      BY <2>4 DEF Reset
    <3>2. i \in Items /\ item[i] \in Row
      BY Sorts DEF Rows, Exists, Inv, Sound, Typed
    <3>3. \A j \in Items : j # i => item'[j] = item[j]
      BY <3>1, <3>2 DEF Inv, Sound, Typed
    <3>4. item'[i].status = item[i].status
      BY <3>1, <3>2 DEF Inv, Sound, Typed, Row
    <3>5. item[i] # NoRow /\ item'[i] # NoRow
      BY <3>2, <3>4, Sorts DEF Row, Statuses, Editable, NoRow
    <3>6. UNCHANGED reopened
      BY <2>4 DEF Reset, history
    <3>7. QED BY <3>1, <3>2, <3>3, <3>4, <3>5, <3>6 DEF Inv, Sound, Typed
  <2>5. QED BY <2>1, <2>2, <2>3, <2>4
<1>4. OneRun' /\ ChargeMatchesRows' /\ Rows' = Rows
  BY <1>1, <1>2, <1>3, RowsStay DEF Inv, OneRun
<1>5. SentRowsAccounted'
  BY <1>1, <1>2, <1>3, <1>4, SentStays
<1>6. session[s].pc # "sent" /\ LoadHolds(s)'
  <2>1. CASE CommitEdit(s)
    BY <2>1, IdleHolds DEF CommitEdit, End, Inv, Sound, Typed
  <2>2. CASE Choose(s) \/ BulkUpdate(s) \/ Reset(s)
    <3>1. UNCHANGED session /\ session[s].pc = "idle"
      BY <2>2 DEF Choose, BulkUpdate, Reset, Free
    <3>2. QED BY <1>2, <3>1 DEF Inv, LoadHolds, Sending
  <2>3. QED BY <2>1, <2>2
<1>7. Counted(s)'
  <2>1. \A i \in Items : Spent(s, i) => Spent(s, i)' \/ reopened'[i] + lost'[i] > reopened[i] + lost[i]
    <3>1. \A i \in Items : reopened[i] \in Nat /\ lost[i] \in Nat /\ reopened'[i] \in Nat
      BY <1>1 DEF Inv, Sound, Typed
    <3>2. QED BY <1>1, <1>3, <1>6, <3>1 DEF Spent
  <2>2. \A i \in Items : lost'[i] >= lost[i]
    BY <1>1 DEF Inv, Sound, Typed
  <2>3. QED BY <1>1, <1>3, <2>1, <2>2, CountStays
<1>8. QED BY <1>1, <1>4, <1>5, <1>6, <1>7 DEF Inv


\* A file adds at most one copy of each row it was rendered from, and none of the others.
LEMMA LinesCounted ==
  ASSUME Sound, NEW s \in Sessions, sends < MaxSends, NEW i \in Items, IsFiniteSet(SentOf(i)),
         tillin' \cup late' = (tillin \cup late) \cup Lines(s)
  PROVE  /\ IsFiniteSet(SentOf(i)')
         /\ Cardinality(SentOf(i)') <= Cardinality(SentOf(i)) + IF i \in session[s].todo THEN 1 ELSE 0
<1> DEFINE line == [send |-> sends + 1, item |-> i, ref |-> session[s].rows[i].ref]
<1>1. SentOf(i)' = SentOf(i) \cup {p \in Lines(s) : p.item = i}
  BY DEF SentOf
<1>2. Cardinality(SentOf(i)) \in Nat
  BY FS_CardinalityType
<1>3. CASE i \in session[s].todo
  <2>1. {p \in Lines(s) : p.item = i} = Lines(s) \cap {p \in Products : p.item = i}
    BY LinesAreProducts
  <2>2. {p \in Lines(s) : p.item = i} = {line}
    BY <1>3, <2>1, LinesAreProducts
  <2> HIDE DEF line
  <2>3. SentOf(i)' = SentOf(i) \cup {line}
    BY <1>1, <2>2
  <2>4. /\ IsFiniteSet(SentOf(i) \cup {line})
        /\ Cardinality(SentOf(i) \cup {line}) =
             IF line \in SentOf(i) THEN Cardinality(SentOf(i)) ELSE Cardinality(SentOf(i)) + 1
    BY FS_AddElement
  <2>5. QED BY <1>2, <1>3, <2>3, <2>4
<1>4. CASE i \notin session[s].todo
  <2>1. {p \in Lines(s) : p.item = i} = {}
    BY <1>4, LinesAreProducts
  <2>2. SentOf(i)' = SentOf(i)
    BY <1>1, <2>1
  <2>3. QED BY <1>2, <1>4, <2>2
<1>5. QED BY <1>3, <1>4

\* A file is sent: its rows are the kept ones, and each of them has a product now, or is
\* counted as lost.
LEMMA FileStep ==
  ASSUME NEW s \in Sessions, Inv(s), Send(s) \/ SendTimesOut(s)
  PROVE  Inv(s)'
<1>1. Sound' /\ UNCHANGED <<job, run, item, staged, debited, reopened>> /\ sends < MaxSends
  BY FilesSound DEF Inv, Send, SendTimesOut, history
<1>2. OneRun' /\ ChargeMatchesRows' /\ Rows' = Rows
  BY <1>1, RowsStay DEF Inv, OneRun
<1>3. Job("completed") /\ session[s].todo = Kept /\ session[s].pc = "send"
  BY DEF Inv, LoadHolds, Sending, Send, SendTimesOut
<1>4. tillin' \cup late' = (tillin \cup late) \cup Lines(s) /\ tillin \subseteq tillin'
  BY DEF Send, SendTimesOut
<1>5. SentRowsAccounted'
  <2>1. \A p \in Lines(s) : p.item \in Items => p.item \in Rows
    BY <1>1, <1>3, Fields, LinesAreProducts DEF Inv
  <2>2. SentRowsSurvive'
    BY <1>1, <1>2, <1>4, <2>1 DEF Inv, SentRowsAccounted, SentRowsSurvive, Rows
  <2>3. AppliedReached' /\ TransferRecorded'
    BY <1>1, <1>4 DEF Inv, SentRowsAccounted, AppliedReached, TransferRecorded
  <2>4. QED BY <2>2, <2>3 DEF SentRowsAccounted
<1>6. LoadHolds(s)'
  <2>1. CASE Send(s)
    <3>1. /\ session'[s].pc = "sent" /\ session'[s].todo = session[s].todo
          /\ session'[s].config = session[s].config
      BY <2>1 DEF Send, Inv, Sound, Typed, Request
    <3>2. \A i \in Kept : \E p \in tillin' : p.item = i
      <4>1. SUFFICES ASSUME NEW i \in Kept PROVE \E p \in tillin' : p.item = i
        OBVIOUS
      <4>2. [send |-> sends + 1, item |-> i, ref |-> session[s].rows[i].ref] \in Lines(s)
        BY <1>3 DEF Lines
      <4>3. QED BY <2>1, <4>2 DEF Send
    <3>3. Kept' = Kept
      BY <1>1 DEF Kept
    <3>4. QED BY <1>1, <1>3, <3>1, <3>2, <3>3 DEF Inv, LoadHolds, Sending, Job
  <2>2. CASE SendTimesOut(s)
    BY <2>2, IdleHolds DEF SendTimesOut, End, Inv, Sound, Typed
  <2>3. QED BY <2>1, <2>2
<1>7. Counted(s)'
  <2>1. SUFFICES ASSUME NEW i \in Items
                 PROVE  /\ IsFiniteSet(SentOf(i)')
                        /\ Cardinality(SentOf(i)') <= reopened'[i] + lost'[i] + IF Spent(s, i)' THEN 1 ELSE 0
    BY DEF Counted
  <2>2. IsFiniteSet(SentOf(i))
        /\ Cardinality(SentOf(i)) <= reopened[i] + lost[i] + IF Spent(s, i) THEN 1 ELSE 0
    BY DEF Inv, Counted
  <2>3. /\ IsFiniteSet(SentOf(i)')
        /\ Cardinality(SentOf(i)') <= Cardinality(SentOf(i)) + IF i \in session[s].todo THEN 1 ELSE 0
    BY <1>1, <1>4, <2>2, LinesCounted DEF Inv
  <2>4. Cardinality(SentOf(i)) \in Nat /\ Cardinality(SentOf(i)') \in Nat
    BY <2>2, <2>3, FS_CardinalityType
  <2>5. reopened[i] \in Nat /\ lost[i] \in Nat /\ reopened'[i] = reopened[i] /\ lost'[i] \in Nat
    BY <1>1 DEF Inv, Sound, Typed
  <2>6. CASE i \in session[s].todo
    <3>1. ~Spent(s, i)
      BY <1>3, <2>6, Fields DEF Spent, Inv
    <3>2. CASE Send(s)
      <4>1. Spent(s, i)' /\ lost' = lost
        BY <2>6, <3>2 DEF Send, Spent, Inv, Sound, Typed, Request, history
      <4>2. QED BY <2>2, <2>3, <2>4, <2>5, <2>6, <3>1, <4>1
    <3>3. CASE SendTimesOut(s)
      <4>1. lost'[i] = lost[i] + 1
        BY <2>6, <3>3 DEF SendTimesOut, Lose
      <4>2. QED BY <2>2, <2>3, <2>4, <2>5, <2>6, <3>1, <4>1
    <3>4. QED BY <3>2, <3>3
  <2>7. CASE i \notin session[s].todo
    <3>1. Spent(s, i) => Spent(s, i)'
      BY <1>1, <2>7 DEF Spent
    <3>2. lost'[i] = lost[i]
      BY <2>7 DEF Send, SendTimesOut, Lose, history, Inv, Sound, Typed
    <3>3. QED BY <2>2, <2>3, <2>4, <2>5, <2>7, <3>1, <3>2
  <2>8. QED BY <2>6, <2>7
<1>8. QED BY <1>1, <1>2, <1>5, <1>6, <1>7 DEF Inv

\* Rows are marked as applied: those that were sent, or those that were found.
LEMMA MarkStep ==
  ASSUME NEW s \in Sessions, Inv(s), CommitTransfer(s) \/ CommitReconcile(s) \/ CommitLink(s)
  PROVE  Inv(s)'
<1>1. Sound' /\ UNCHANGED <<run, staged, debited, tillin, late, reopened, lost>> /\ session'[s] = Idle
  BY RowsSound, SearchSound
     DEF Inv, CommitTransfer, CommitReconcile, CommitLink, remote, history, End, Sound, Typed
<1>2. session[s].pc # "sent" \/ CommitTransfer(s)
  BY DEF CommitReconcile, CommitLink, AllLookedUp
<1>3. /\ \A i \in Items : item'[i] = NoRow <=> item[i] = NoRow
      /\ \A i \in Items : item[i].status = "applied" => item'[i].status = "applied"
      /\ \A i \in Items : i \in Kept /\ CommitTransfer(s) => item'[i].status = "applied"
      /\ \A i \in Items : item'[i].status = "applied" =>
           \/ item[i].status = "applied" /\ (item[i].link # Unlinked => item'[i].link # Unlinked)
           \/ i \in Kept /\ CommitTransfer(s)
           \/ CommitReconcile(s) /\ i \in Found(s) /\ item'[i].link # Unlinked
  <2>1. CASE CommitTransfer(s)
    <3>1. Kept \subseteq Rows /\ "applied" \in Statuses
      BY DEF Kept, Rows, Exists, Statuses
    <3>2. /\ \A i \in Items : i \in Kept => item'[i].status = "applied"
          /\ \A i \in Items : i \notin Kept => item'[i] = item[i]
      BY <2>1, <3>1, StatusPut DEF CommitTransfer, Inv, Sound
    <3>3. \A i \in Items : i \in Kept => item[i] # NoRow /\ item'[i] # NoRow
      BY <3>2, Fields, Sorts DEF Inv
    <3>4. QED BY <2>1, <3>2, <3>3, Fields DEF Inv
  <2>2. CASE CommitReconcile(s)
    <3>1. PICK pictured \in SUBSET Found(s) : item' = [i \in Items |-> ReconciledRow(s, i, pictured)]
      BY <2>2 DEF CommitReconcile
    <3>2. Found(s) \subseteq Rows
      BY <2>2 DEF CommitReconcile, AllLookedUp
    <3>3. \A i \in Items : IF i \in Found(s)
                           THEN item'[i].status = "applied" /\ item'[i].link = ProductOf(s, i)
                           ELSE item'[i] = item[i]
      BY <3>1, <3>2, ReconciledRowIs DEF Inv
    <3>4. \A i \in Found(s) : ProductOf(s, i) # Unlinked
      BY FoundProduct DEF Inv
    <3>5. \A i \in Items : i \in Found(s) => item[i] # NoRow /\ item'[i] # NoRow
      BY <3>2, <3>3, Fields, Sorts DEF Inv
    <3>6. \A i \in Items : CommitTransfer(s) => i \notin Kept
      BY <2>2 DEF CommitTransfer, CommitReconcile, AllLookedUp
    <3>7. QED BY <2>2, <3>3, <3>4, <3>5, <3>6
  <2>3. CASE CommitLink(s)
    <3>1. PICK pictured \in SUBSET Found(s) : item' = [i \in Items |-> LinkedRow(s, i, pictured)]
      BY <2>3 DEF CommitLink
    <3>2. Found(s) \subseteq Rows
      BY <2>3 DEF CommitLink, AllLookedUp
    <3>3. \A i \in Items : IF i \in Found(s)
                           THEN item'[i].status = item[i].status
                                /\ item'[i].link \in {item[i].link, ProductOf(s, i)}
                           ELSE item'[i] = item[i]
      BY <3>1, <3>2, LinkedRowIs DEF Inv
    <3>4. \A i \in Found(s) : ProductOf(s, i) # Unlinked
      BY FoundProduct DEF Inv
    <3>5. \A i \in Items : i \in Found(s) => item[i].status # "none"
      BY <3>2 DEF Rows, Exists
    <3>6. \A i \in Items : i \in Found(s) => item[i] # NoRow /\ item'[i] # NoRow
      BY <3>3, <3>5, Sorts
    <3>7. \A i \in Items : CommitTransfer(s) => i \notin Kept
      BY <2>3 DEF CommitTransfer, CommitLink, AllLookedUp
    <3>8. QED BY <3>3, <3>4, <3>6, <3>7
  <2>4. QED BY <2>1, <2>2, <2>3
<1>4. job'.status = job.status /\ (job.config.transfer => job'.config.transfer)
  BY DEF CommitTransfer, CommitReconcile, CommitLink, Inv, Sound, Typed, Configs, Request
<1>5. (\E i \in Items : item'[i].status = "applied") => job'.config.transfer
  <2>1. CASE CommitTransfer(s)
    BY <2>1 DEF CommitTransfer, Inv, Sound, Typed, Configs, Request
  <2>2. CASE CommitReconcile(s) /\ Found(s) # {}
    <3>1. CASE session[s].config.transfer
      BY <1>4, <3>1 DEF Inv, LoadHolds
    <3>2. CASE ~session[s].config.transfer
      BY <2>2, <3>2 DEF CommitReconcile, Inv, Sound, Typed, Configs, Request
    <3>3. QED BY <3>1, <3>2
  <2>3. QED BY <1>3, <1>4, <2>1, <2>2 DEF Inv, SentRowsAccounted, TransferRecorded
<1>6. ~Job("completed") => ~job'.config.transfer
  <2>1. SUFFICES ASSUME ~Job("completed") PROVE ~job'.config.transfer
    OBVIOUS
  <2>2. Rows = {} /\ ~job.config.transfer /\ ~Sending(s)
    BY <2>1 DEF Inv, OneRun, LoadHolds
  <2>3. CommitReconcile(s) => Found(s) = {}
    BY <2>2 DEF CommitReconcile, AllLookedUp
  <2>4. ~CommitTransfer(s)
    BY <2>2 DEF CommitTransfer, Sending
  <2>5. QED BY <2>2, <2>3, <2>4 DEF CommitReconcile, CommitLink
<1>7. OneRun' /\ ChargeMatchesRows' /\ Rows' = Rows
  BY <1>1, <1>3, <1>4, <1>6, RowsStay
<1>8. SentRowsAccounted'
  <2>1. SentRowsSurvive'
    BY <1>1, <1>7 DEF Inv, SentRowsAccounted, SentRowsSurvive, Rows
  <2>2. AppliedReached'
    <3>1. CommitTransfer(s) => \A i \in Kept : \E p \in tillin : p.item = i
      BY DEF Inv, LoadHolds, CommitTransfer
    <3>2. QED BY <1>1, <1>3, <3>1 DEF Inv, SentRowsAccounted, AppliedReached
  <2>3. QED BY <1>5, <2>1, <2>2 DEF SentRowsAccounted, TransferRecorded
<1>9. LoadHolds(s)' /\ Counted(s)'
  <2>1. \A i \in Items : Spent(s, i) => Spent(s, i)'
    <3>1. session[s].pc = "sent" => session[s].todo = Kept
      BY DEF Inv, LoadHolds, Sending
    <3>2. QED BY <1>1, <1>2, <1>3, <3>1, IdleHolds DEF Spent
  <2>2. \A i \in Items : reopened'[i] >= reopened[i] /\ lost'[i] >= lost[i]
    BY <1>1 DEF Inv, Sound, Typed
  <2>3. QED BY <1>1, <2>1, <2>2, IdleHolds, CountStays
<1>10. QED BY <1>1, <1>7, <1>8, <1>9 DEF Inv


\* A search moves the request along, a request that breaks off counts what it had sent as
\* lost, and Tillin takes a line it was sent.
LEMMA OtherStep ==
  ASSUME NEW s \in Sessions, Inv(s), LookUp(s) \/ Abort(s) \/ TakeLate
  PROVE  Inv(s)'
<1>1. Sound' /\ UNCHANGED <<job, run, item, staged, debited, reopened>>
  BY SearchSound, LateSound DEF Inv, LookUp, Abort, TakeLate, history
<1>2. OneRun' /\ ChargeMatchesRows' /\ Rows' = Rows
  BY <1>1, RowsStay DEF Inv, OneRun
<1>3. tillin' \cup late' = tillin \cup late /\ tillin \subseteq tillin'
  BY DEF LookUp, Abort, TakeLate, remote
<1>4. SentRowsAccounted'
  <2>1. SentRowsSurvive'
    BY <1>1, <1>2, <1>3 DEF Inv, SentRowsAccounted, SentRowsSurvive, Rows
  <2>2. AppliedReached' /\ TransferRecorded'
    BY <1>1, <1>3 DEF Inv, SentRowsAccounted, AppliedReached, TransferRecorded
  <2>3. QED BY <2>1, <2>2 DEF SentRowsAccounted
<1>5. LoadHolds(s)'
  <2>1. CASE LookUp(s)
    <3>1. session[s].pc \in {"reconcile", "link"}
      BY <2>1 DEF LookUp
    <3>2. session'[s].pc = session[s].pc /\ session'[s].config = session[s].config
      <4>0. PICK i \in session[s].todo :
              \E match \in {{}} \cup
                 (LET hits == {p \in tillin : p.ref = session[s].rows[i].ref}
                  IN  IF Cardinality(hits) = 1 THEN {hits} ELSE {}) :
                session' = [session EXCEPT ![s].todo = @ \ {i},
                                           ![s].found = @ \cup {[row |-> i, product |-> p] : p \in match}]
        BY <2>1 DEF LookUp
      <4>1. PICK match :
              session' = [session EXCEPT ![s].todo = @ \ {i},
                                         ![s].found = @ \cup {[row |-> i, product |-> p] : p \in match}]
        BY <4>0
      <4> DEFINE new == {[row |-> i, product |-> p] : p \in match}
      <4>2. session' = [session EXCEPT ![s].todo = @ \ {i}, ![s].found = @ \cup new]
        BY <4>1
      <4> HIDE DEF new
      <4>3. QED BY <4>2 DEF Inv, Sound, Typed, Request
    <3>3. QED BY <1>1, <3>1, <3>2 DEF Inv, LoadHolds, Sending
  <2>2. CASE Abort(s)
    BY <2>2, IdleHolds DEF Abort, End, Inv, Sound, Typed
  <2>3. CASE TakeLate
    BY <1>1, <1>3, <2>3 DEF TakeLate, Inv, LoadHolds, Sending, Job, Kept
  <2>4. QED BY <2>1, <2>2, <2>3
<1>6. Counted(s)'
  <2>1. \A i \in Items : lost'[i] >= lost[i] /\ reopened'[i] >= reopened[i]
    BY <1>1 DEF LookUp, Abort, TakeLate, Lose, history, Inv, Sound, Typed
  <2>2. \A i \in Items : Spent(s, i) => Spent(s, i)' \/ reopened'[i] + lost'[i] > reopened[i] + lost[i]
    <3>1. CASE Abort(s)
      <4>1. \A i \in Items : session[s].pc = "sent" /\ i \in session[s].todo => lost'[i] = lost[i] + 1
        BY <3>1 DEF Abort, Lose
      <4>2. \A i \in Items : reopened[i] \in Nat /\ lost[i] \in Nat /\ reopened'[i] = reopened[i]
        BY <1>1 DEF Inv, Sound, Typed
      <4>3. QED BY <1>1, <4>1, <4>2 DEF Spent
    <3>2. CASE LookUp(s)
      BY <1>1, <3>2 DEF LookUp, Spent
    <3>3. CASE TakeLate
      BY <1>1, <3>3 DEF TakeLate, Spent
    <3>4. QED BY <3>1, <3>2, <3>3
  <2>3. QED BY <1>1, <1>3, <2>1, <2>2, CountStays
<1>7. QED BY <1>1, <1>2, <1>4, <1>5, <1>6 DEF Inv

\* Nothing sent, nothing paid, nothing in flight.
LEMMA InvInit ==
  ASSUME NEW s \in Sessions, Init
  PROVE  Inv(s)
<1>1. Sound
  BY SoundInit
<1>2. Rows = {} /\ \A i \in Items : item[i] = NoRow /\ item[i].status # "applied"
  BY Sorts DEF Init, Rows, Exists, NoRow
<1>3. ~job.config.transfer /\ job.status = "pending"
  BY DEF Init
<1>4. session[s] = Idle
  BY DEF Init
<1>5. LoadHolds(s)
  BY <1>4, NothingChosen, IdleRequest DEF LoadHolds, Sending
<1>6. OneRun
  <2>1. \A k \in Runs : (Live(k) => k = 1) /\ ~run[k].config.transfer
    BY NothingChosen DEF Init, Live
  <2>2. QED BY <1>2, <1>3, <2>1 DEF OneRun, Job
<1>7. ChargeMatchesRows
  BY <1>2, FS_EmptySet DEF Init, ChargeMatchesRows
<1>8. \A p \in tillin \cup late : p.item \notin Items
  BY DEF Init, Items
<1>9. SentRowsAccounted
  BY <1>2, <1>8 DEF SentRowsAccounted, SentRowsSurvive, AppliedReached, TransferRecorded
<1>10. Counted(s)
  <2>1. \A i \in Items : SentOf(i) = {}
    BY <1>8 DEF SentOf
  <2>2. IsFiniteSet({}) /\ Cardinality({}) = 0
    BY FS_EmptySet
  <2>3. \A i \in Items : reopened[i] = 0 /\ lost[i] = 0
    BY DEF Init
  <2>4. QED BY <2>1, <2>2, <2>3 DEF Counted
<1>11. QED BY <1>1, <1>5, <1>6, <1>7, <1>9, <1>10 DEF Inv

-----------------------------------------------------------------------------
(* What holds of an import whose requests do not overlap *)

OneAtATime == \E s : Sessions = {s}

\* With one session, the invariant always holds.
LEMMA SerialInvariant ==
  ASSUME NEW s, Sessions = {s}
  PROVE  Spec => []Inv(s)
<1>1. Init => Inv(s)
  BY InvInit
<1>2. ASSUME Inv(s), [Next]_vars PROVE Inv(s)'
  <2>1. CASE UNCHANGED vars
    <3>1. Sound'
      BY <1>2, SoundStep DEF Inv
    <3>2. (OneRun /\ LoadHolds(s) /\ ChargeMatchesRows /\ SentRowsAccounted /\ Counted(s))'
      BY <1>2, <2>1
         DEF vars, remote, history, Inv, OneRun, Live, Job, Rows, Exists, Kept, LoadHolds, Sending,
             ChargeMatchesRows, SentRowsAccounted, SentRowsSurvive, AppliedReached, TransferRecorded,
             Counted, Spent, SentOf
    <3>3. QED BY <3>1, <3>2 DEF Inv
  <2>2. ASSUME NEW k \in Runs, RunNext(k) PROVE Inv(s)'
    BY <1>2, <2>2, RunStep
  <2>3. CASE RequestNext(s)
    BY <1>2, <2>3, LoadStep, RetryStep, ReviewStep, FileStep, MarkStep, OtherStep DEF RequestNext, Loads
  <2>4. CASE TakeLate
    BY <1>2, <2>4, OtherStep
  <2>5. QED BY <1>2, <2>1, <2>2, <2>3, <2>4 DEF Next
<1>3. QED BY <1>1, <1>2, PTL DEF Spec

\* The account has paid for the rows it can review, no more and no less, however many runs
\* failed, were killed or were asked again.
THEOREM PaidRowsAreTheRows == ASSUME OneAtATime PROVE Spec => []ChargeMatchesRows
<1>1. PICK s : Sessions = {s}
  BY DEF OneAtATime
<1>2. Inv(s) => ChargeMatchesRows
  BY DEF Inv
<1>3. QED BY <1>1, <1>2, SerialInvariant, PTL

\* What was sent stays traceable through retries, lost answers and late files: its row is
\* not purged, an applied row has its product, and the job its transfer.
THEOREM WhatWasSentIsKnown == ASSUME OneAtATime PROVE Spec => []SentRowsAccounted
<1>1. PICK s : Sessions = {s}
  BY DEF OneAtATime
<1>2. Inv(s) => SentRowsAccounted
  BY DEF Inv
<1>3. QED BY <1>1, <1>2, SerialInvariant, PTL

\* A row becomes a second product only after it was patched back from applied, or after the
\* answer of a transfer was lost, once for each.
THEOREM CopiesHaveACause == ASSUME OneAtATime PROVE Spec => []CopiesAccounted
<1>1. PICK s : Sessions = {s}
  BY DEF OneAtATime
<1>2. Inv(s) => CopiesAccounted
  <2>1. SUFFICES ASSUME Inv(s), NEW i \in Items
                 PROVE  Cardinality({p \in tillin : p.item = i}) <= 1 + reopened[i] + lost[i]
    BY DEF CopiesAccounted
  <2>2. /\ IsFiniteSet(SentOf(i))
        /\ Cardinality(SentOf(i)) <= reopened[i] + lost[i] + IF Spent(s, i) THEN 1 ELSE 0
    BY <2>1 DEF Inv, Counted
  <2>3. {p \in tillin : p.item = i} \subseteq SentOf(i)
    BY DEF SentOf
  <2>4. Cardinality({p \in tillin : p.item = i}) <= Cardinality(SentOf(i))
        /\ IsFiniteSet({p \in tillin : p.item = i})
    BY <2>2, <2>3, FS_Subset
  <2>5. Cardinality({p \in tillin : p.item = i}) \in Nat /\ Cardinality(SentOf(i)) \in Nat
    BY <2>2, <2>4, FS_CardinalityType
  <2>6. reopened[i] \in Nat /\ lost[i] \in Nat
    BY <2>1 DEF Inv, Sound, Typed
  <2>7. QED BY <2>2, <2>4, <2>5, <2>6
<1>3. QED BY <1>1, <1>2, SerialInvariant, PTL

=============================================================================
