------------------------- MODULE ImagingAssetProofs -------------------------
(***************************************************************************)
(* Theorems about ImagingAsset, for every number of overlapping requests,  *)
(* placements, images of a launch, uploads and process deaths, and about   *)
(* StudioGeneration, for every text typed and every setting.               *)
(***************************************************************************)
EXTENDS ImagingAsset, StudioGeneration, TLAPS

-----------------------------------------------------------------------------
(* Type correctness *)

RowRecord ==
  [status : {"absent", "pending", "processing", "completed", "failed", "discarded"},
   place : Positions, finalized : BOOLEAN, edit : BOOLEAN, roles : SUBSET Roles,
   outputs : Nat, saved : BOOLEAN]

Rewrites == {"render", "finalize", "edit", "reset"}

Steps ==
  {"idle", "provider", "base", "output", "commit", "discard", "upload", "replace", "saved",
   "purge"}

RequestRecord ==
  [op : Rewrites \cup {"none", "discard", "save"}, step : Steps, row : RowRecord,
   base : Content \cup {NoFile}]

\* The type invariant with what the requests hold.
Typed == TypeOK /\ req \in [Sessions -> RequestRecord]

\* The constants of the model are of their types.
LEMMA Basics ==
  /\ Home \in Positions
  /\ NoRow \in RowRecord /\ Idle \in RequestRecord
  /\ \A made \in {"source", "render", "final"}, p \in Positions : Image(made, p) \in Content
  /\ \A c \in Content : Edited(c) \in Content /\ c # NoFile
<1>1. Home \in Positions
  BY ImagingAssumption DEF Home, ImagingAssumption
<1>2. NoRow \in RowRecord
  BY <1>1 DEF NoRow, RowRecord
<1>3. Idle \in RequestRecord
  BY <1>2 DEF Idle, RequestRecord, Steps
<1>4. \A made \in {"source", "render", "final"}, p \in Positions : Image(made, p) \in Content
  BY DEF Image, Content
<1>5. \A c \in Content : Edited(c) \in Content /\ c # NoFile
  BY DEF Edited, Content, NoFile
<1>6. QED BY <1>1, <1>2, <1>3, <1>4, <1>5

\* Requests change one record at a time, and keep it well typed.
LEMMA RequestTypes ==
  ASSUME Typed, [Next]_vars
  PROVE  req' \in [Sessions -> RequestRecord]
<1>r. row \in RowRecord /\ disk \in [Roles -> Content \cup {NoFile}]
      /\ req \in [Sessions -> RequestRecord]
  BY DEF Typed, TypeOK, RowRecord
<1>1. ASSUME NEW s \in Sessions, NEW q \in RequestRecord, req' = [req EXCEPT ![s] = q]
      PROVE  req' \in [Sessions -> RequestRecord]
  BY <1>1, <1>r
<1>2. ASSUME NEW s \in Sessions, NEW op \in Rewrites \cup {"discard", "save"},
             NEW r \in RowRecord, NEW b \in Content \cup {NoFile}, NEW step \in Steps,
             Begin(s, op, r, b, step)
      PROVE  req' \in [Sessions -> RequestRecord]
  <2>1. [op |-> op, step |-> step, row |-> r, base |-> b] \in RequestRecord
    BY DEF RequestRecord
  <2>2. QED BY <1>1, <1>2, <2>1 DEF Begin
<1>3. ASSUME NEW s \in Sessions, BeginRender(s) PROVE req' \in [Sessions -> RequestRecord]
  <2>1. PICK p \in Positions : Begin(s, "render", Rendered(row, p), Image("render", p), "base")
    BY <1>3 DEF BeginRender
  <2>2. Rendered(row, p) \in RowRecord
    BY <1>r DEF Rendered, RowRecord
  <2>3. QED BY <1>2, <2>1, <2>2, Basics DEF Rewrites, Steps
<1>4. ASSUME NEW s \in Sessions, BeginFinalize(s) PROVE req' \in [Sessions -> RequestRecord]
  <2>1. [row EXCEPT !.finalized = TRUE] \in RowRecord /\ row.place \in Positions
    BY <1>r DEF RowRecord
  <2>2. QED BY <1>2, <1>4, <2>1, Basics DEF BeginFinalize, Rewrites, Steps
<1>5. ASSUME NEW s \in Sessions, BeginEdit(s) \/ BeginReset(s)
      PROVE  req' \in [Sessions -> RequestRecord]
  <2>1. \A e \in BOOLEAN : [row EXCEPT !.edit = e] \in RowRecord
    BY <1>r DEF RowRecord
  <2>2. disk[EditBase(row)] \in Content \cup {NoFile}
    BY <1>r DEF EditBase, Roles
  <2>3. QED BY <1>2, <1>5, <2>1, <2>2 DEF BeginEdit, BeginReset, Rewrites, Steps
<1>6. ASSUME NEW s \in Sessions, BeginDiscard(s) \/ BeginSave(s)
      PROVE  req' \in [Sessions -> RequestRecord]
  <2>1. disk["output"] \in Content \cup {NoFile}
    BY <1>r DEF Roles
  <2>2. QED BY <1>2, <1>6, <1>r, <2>1 DEF BeginDiscard, BeginSave, Steps
<1>7. ASSUME NEW s \in Sessions,
             \/ Provider(s) \/ StoreBase(s) \/ StoreOutput(s) \/ CommitOutput(s)
             \/ CommitDiscard(s) \/ Upload(s) \/ Replace(s) \/ CommitSave(s) \/ Purge(s)
      PROVE  req' \in [Sessions -> RequestRecord]
  <2>1. \A step \in Steps : [req[s] EXCEPT !.step = step] \in RequestRecord
    BY <1>r DEF RequestRecord
  <2>2. \/ req' = [req EXCEPT ![s] = Idle]
        \/ \E step \in Steps : req' = [req EXCEPT ![s] = [req[s] EXCEPT !.step = step]]
    BY <1>7 DEF Provider, StoreBase, StoreOutput, CommitOutput, CommitDiscard, Upload, Replace,
                CommitSave, Purge, Steps
  <2>3. QED BY <1>1, <2>1, <2>2, Basics
<1>8. CASE Restart
  BY <1>8, Basics DEF Restart
<1>9. CASE req' = req
  BY <1>9, <1>r
<1>10. QED
  BY <1>3, <1>4, <1>5, <1>6, <1>7, <1>8, <1>9
     DEF Next, vars, Launch, RunStep, RunStart, RunStore, RunCommit, RunFail, RunUnpaid

\* Every step leaves a well-typed row.
LEMMA RowTypes ==
  ASSUME Typed, [Next]_vars
  PROVE  row' \in RowRecord
<1>r. row \in RowRecord /\ req \in [Sessions -> RequestRecord]
  BY DEF Typed, TypeOK, RowRecord
<1>1. CASE RunCommit
  <2>1. PICK n \in Outputs :
          row' = [row EXCEPT !.status = "completed", !.outputs = n,
                    !.roles = IF verb = "normalize" THEN {"output", "source"} ELSE {"output"}]
    BY <1>1 DEF RunCommit
  <2>2. n \in Nat
    BY ImagingAssumption DEF ImagingAssumption
  <2>3. QED BY <1>r, <2>1, <2>2 DEF RowRecord, Roles
<1>2. ASSUME NEW s \in Sessions, CommitOutput(s) PROVE row' \in RowRecord
  <2> DEFINE r == req[s].row
  <2>1. r \in RowRecord
    BY <1>r DEF RequestRecord
  <2>2. (r.roles \ {"edit_base"}) \cup {"output"} \cup (IF r.edit THEN {"edit_base"} ELSE {})
          \in SUBSET Roles
    BY <2>1 DEF RowRecord, Roles
  <2>3. QED BY <1>2, <1>r, <2>1, <2>2 DEF CommitOutput, RowRecord
<1>3. CASE Launch \/ RunStart \/ RunFail \/ RunUnpaid \/ \E s \in Sessions : CommitDiscard(s)
  BY <1>3, <1>r DEF Launch, RunStart, RunFail, RunUnpaid, CommitDiscard, RowRecord
<1>4. ASSUME NEW s \in Sessions, CommitSave(s) PROVE row' \in RowRecord
  BY <1>4, <1>r DEF CommitSave, RowRecord
<1>5. CASE row' = row
  BY <1>5, <1>r
<1>6. QED
  BY <1>1, <1>2, <1>3, <1>4, <1>5
     DEF Next, vars, RunStep, RunStore, BeginRender, BeginFinalize, BeginEdit, BeginReset,
         BeginDiscard, BeginSave, Begin, Provider, StoreBase, StoreOutput, Upload, Replace,
         Purge, Restart

\* What a rewriting request stores is an image.
BasesAreImages ==
  \A s \in Sessions :
    /\ req[s].step \in {"provider", "base", "output", "commit"} => req[s].op \in Rewrites
    /\ req[s].op \in Rewrites => Busy(s) /\ req[s].base \in Content

\* Every step leaves a request that calls the provider and stores files a rewrite, with an image to work on.
LEMMA BasesStep ==
  ASSUME Typed, BasesAreImages, [Next]_vars
  PROVE  BasesAreImages'
<1>r. row \in RowRecord /\ disk \in [Roles -> Content \cup {NoFile}]
      /\ req \in [Sessions -> RequestRecord]
  BY DEF Typed, TypeOK, RowRecord
<1> USE DEF BasesAreImages, Busy
<1>1. ASSUME NEW s \in Sessions, NEW q, req' = [req EXCEPT ![s] = q],
             q.step \in {"provider", "base", "output", "commit"} => q.op \in Rewrites,
             q.op \in Rewrites => q.step # "idle" /\ q.base \in Content
      PROVE  BasesAreImages'
  BY <1>1, <1>r
<1>2. ASSUME NEW s \in Sessions, NEW op, NEW r, NEW b \in Content, NEW step \in {"provider", "base"},
             op \in Rewrites, Begin(s, op, r, b, step)
      PROVE  BasesAreImages'
  BY <1>1, <1>2 DEF Begin
<1>3. ASSUME NEW s \in Sessions, BeginRender(s) \/ BeginFinalize(s) PROVE BasesAreImages'
  <2>1. \A p \in Positions : Image("render", p) \in Content /\ Image("final", p) \in Content
    BY Basics
  <2>2. row.place \in Positions
    BY <1>r DEF RowRecord
  <2>3. QED BY <1>2, <1>3, <2>1, <2>2 DEF BeginRender, BeginFinalize, Rewrites
<1>4. ASSUME NEW s \in Sessions, BeginEdit(s) \/ BeginReset(s) PROVE BasesAreImages'
  <2>1. disk[EditBase(row)] \in Content
    BY <1>4, <1>r DEF BeginEdit, BeginReset, EditBase, Roles, Stored
  <2>2. QED BY <1>2, <1>4, <2>1 DEF BeginEdit, BeginReset, Rewrites
<1>5. ASSUME NEW s \in Sessions, BeginDiscard(s) \/ BeginSave(s) PROVE BasesAreImages'
  BY <1>1, <1>5 DEF BeginDiscard, BeginSave, Begin, Rewrites
<1>6. ASSUME NEW s \in Sessions, NEW step \in Steps, step # "idle",
             req' = [req EXCEPT ![s] = [req[s] EXCEPT !.step = step]],
             step \in {"provider", "base", "output", "commit"} => req[s].op \in Rewrites
      PROVE  BasesAreImages'
  <2>1. /\ [req[s] EXCEPT !.step = step].step = step
        /\ [req[s] EXCEPT !.step = step].op = req[s].op
        /\ [req[s] EXCEPT !.step = step].base = req[s].base
    BY <1>r DEF RequestRecord
  <2>2. QED BY <1>1, <1>6, <2>1
<1>7. ASSUME NEW s \in Sessions,
             \/ Provider(s) \/ StoreBase(s) \/ StoreOutput(s) \/ CommitOutput(s)
             \/ CommitDiscard(s) \/ Upload(s) \/ Replace(s) \/ CommitSave(s) \/ Purge(s)
      PROVE  BasesAreImages'
  <2>1. \/ req' = [req EXCEPT ![s] = Idle]
        \/ \E step \in Steps \ {"idle"} :
             /\ req' = [req EXCEPT ![s] = [req[s] EXCEPT !.step = step]]
             /\ step \in {"provider", "base", "output", "commit"} => req[s].op \in Rewrites
    BY <1>7 DEF Provider, StoreBase, StoreOutput, CommitOutput, CommitDiscard, Upload, Replace,
                CommitSave, Purge, Steps
  <2>2. Idle.op = "none" /\ Idle.step = "idle"
    BY DEF Idle
  <2>3. QED BY <1>1, <1>6, <2>1, <2>2 DEF Rewrites
<1>8. CASE Restart
  BY <1>8 DEF Restart, Idle, Rewrites
<1>9. CASE req' = req
  BY <1>9
<1>10. QED
  BY <1>3, <1>4, <1>5, <1>7, <1>8, <1>9
     DEF Next, vars, Launch, RunStep, RunStart, RunStore, RunCommit, RunFail, RunUnpaid

\* A step that writes files writes images, one role or two; the others empty the disk.
LEMMA DiskTypes ==
  ASSUME Typed, BasesAreImages, [Next]_vars
  PROVE  disk' \in [Roles -> Content \cup {NoFile}]
<1>r. disk \in [Roles -> Content \cup {NoFile}] /\ req \in [Sessions -> RequestRecord]
  BY DEF Typed, TypeOK
<1>1. CASE RunStore
  BY <1>1, <1>r, Basics DEF RunStore
<1>2. ASSUME NEW s \in Sessions, StoreBase(s) \/ StoreOutput(s)
      PROVE  disk' \in [Roles -> Content \cup {NoFile}]
  <2>1. req[s].base \in Content
    BY <1>2 DEF StoreBase, StoreOutput, BasesAreImages
  <2>2. QED BY <1>2, <1>r, <2>1, Basics DEF StoreBase, StoreOutput
<1>3. CASE disk' = disk \/ disk' = EmptyDisk
  BY <1>3, <1>r DEF EmptyDisk
<1>4. QED
  BY <1>1, <1>2, <1>3
     DEF Next, vars, Launch, RunStep, RunStart, RunCommit, RunFail, RunUnpaid, BeginRender,
         BeginFinalize, BeginEdit, BeginReset, BeginDiscard, BeginSave, Begin, Provider,
         CommitOutput, CommitDiscard, Upload, Replace, CommitSave, Purge, Restart

\* Every step keeps the types.
LEMMA TypedStep ==
  ASSUME Typed, BasesAreImages, [Next]_vars
  PROVE  Typed'
<1>1. /\ verb' \in {"normalize", "generate"} /\ run' \in {"none", "scheduled", "started", "stored"}
      /\ expired' \in BOOLEAN /\ clean' \in BOOLEAN
  <2>1. /\ verb \in {"normalize", "generate"} /\ run \in {"none", "scheduled", "started", "stored"}
        /\ expired \in BOOLEAN /\ clean \in BOOLEAN
    BY DEF Typed, TypeOK
  <2>2. verb' = verb /\ (run' = run \/ run' \in {"none", "scheduled", "started", "stored"})
    BY DEF Next, vars, Launch, RunStep, RunStart, RunStore, RunCommit, RunFail,
           RunUnpaid, BeginRender, BeginFinalize, BeginEdit, BeginReset, BeginDiscard,
           BeginSave, Begin, Provider, StoreBase, StoreOutput, CommitOutput, CommitDiscard,
           Upload, Replace, CommitSave, Purge, Restart
  <2>3. expired' = expired \/ expired' = TRUE
    BY DEF Next, vars, Launch, RunStep, RunStart, RunStore, RunCommit, RunFail,
           RunUnpaid, BeginRender, BeginFinalize, BeginEdit, BeginReset, BeginDiscard,
           BeginSave, Begin, Provider, StoreBase, StoreOutput, CommitOutput, CommitDiscard,
           Upload, Replace, CommitSave, Purge, Restart
  <2>4. clean' = clean \/ clean' \in BOOLEAN
    BY DEF Next, vars, Launch, RunStep, RunStart, RunStore, RunCommit, RunFail,
           RunUnpaid, BeginRender, BeginFinalize, BeginEdit, BeginReset, BeginDiscard,
           BeginSave, Begin, Provider, StoreBase, StoreOutput, CommitOutput, CommitDiscard,
           Upload, Replace, CommitSave, Purge, Restart
  <2>5. QED BY <2>1, <2>2, <2>3, <2>4
<1>2. debits' \in [process : Nat, finalize : Nat]
  <2>1. debits \in [process : Nat, finalize : Nat]
    BY DEF Typed, TypeOK
  <2>2. \/ debits' = debits
        \/ \E n \in Nat : debits' = [debits EXCEPT !.process = @ + n]
        \/ debits' = [debits EXCEPT !.finalize = @ + 1]
    BY ImagingAssumption
       DEF ImagingAssumption, Next, vars, Launch, RunStep, RunStart, RunStore, RunCommit,
           RunFail, FailedRunDebits, RunUnpaid, BeginRender, BeginFinalize, BeginEdit,
           BeginReset, BeginDiscard, BeginSave, Begin, Provider, StoreBase, StoreOutput,
           CommitOutput, CommitDiscard, Upload, Replace, CommitSave, Purge, Restart
  <2>3. QED BY <2>1, <2>2
<1>3. gallery' \in [new : Nat, original : BOOLEAN]
  <2>1. gallery \in [new : Nat, original : BOOLEAN]
    BY DEF Typed, TypeOK
  <2>2. ASSUME NEW s \in Sessions, Upload(s) PROVE gallery' \in [new : Nat, original : BOOLEAN]
    <3>1. req[s].row.outputs \in Nat
      BY DEF Typed, RequestRecord, RowRecord
    <3>2. Created(req[s].row.outputs) \subseteq Nat
      BY <3>1 DEF Created
    <3>3. QED BY <2>1, <2>2, <3>2 DEF Upload
  <2>3. gallery' = gallery \/ gallery' = [gallery EXCEPT !.original = FALSE]
          \/ \E s \in Sessions : Upload(s)
    BY DEF Next, vars, Launch, RunStep, RunStart, RunStore, RunCommit,
           RunFail, RunUnpaid, BeginRender, BeginFinalize, BeginEdit,
           BeginReset, BeginDiscard, BeginSave, Begin, Provider, StoreBase, StoreOutput,
           CommitOutput, CommitDiscard, Replace, CommitSave, Purge, Restart
  <2>4. QED BY <2>1, <2>2, <2>3
<1>4. QED BY <1>1, <1>2, <1>3, RowTypes, DiskTypes, RequestTypes DEF Typed, TypeOK, RowRecord

\* The row, the files and the requests always hold values of their types.
THEOREM TypedInvariant == Spec => [](Typed /\ BasesAreImages)
<1>1. Init => Typed /\ BasesAreImages
  <2> SUFFICES ASSUME Init PROVE Typed /\ BasesAreImages
    OBVIOUS
  <2>1. disk \in [Roles -> Content \cup {NoFile}]
    BY DEF Init, EmptyDisk
  <2>2. req \in [Sessions -> RequestRecord]
    BY Basics DEF Init
  <2>3. TypeOK
    BY <2>1, <2>2, Basics DEF Init, TypeOK, RowRecord
  <2>4. Idle.op = "none" /\ Idle.step = "idle"
    BY DEF Idle
  <2>5. QED BY <2>2, <2>3, <2>4 DEF Init, Typed, BasesAreImages, Rewrites
<1>2. Typed /\ BasesAreImages /\ [Next]_vars => Typed' /\ BasesAreImages'
  BY TypedStep, BasesStep
<1>3. QED BY <1>1, <1>2, PTL DEF Spec

-----------------------------------------------------------------------------
(* How requests and the row move *)

\* A request that begins to rewrite the output has read a completed row that is not
\* saved, and files that are there.
BeginsRewrite(s) == BeginRender(s) \/ BeginFinalize(s) \/ BeginEdit(s) \/ BeginReset(s)

Begun(s) ==
  /\ row.status = "completed" /\ (verb = "normalize" \/ row.outputs = 1)
  /\ req'[s].op \in Rewrites /\ req'[s].step \in {"provider", "base"}
  /\ req'[s].row.roles = row.roles
  /\ req'[s].op # "finalize" /\ req'[s].row.finalized => row.finalized
  /\ \A t \in Sessions \ {s} : req'[t] = req[t]
  /\ UNCHANGED <<verb, row, disk, run, debits, expired>>
  /\ disk # EmptyDisk
  /\ clean' => clean /\ \A t \in Sessions : ~Busy(t)

\* Every rewriting request begins so.
LEMMA Beginning ==
  ASSUME Typed, NEW s \in Sessions, BeginsRewrite(s)
  PROVE  Begun(s)
<1>r. row \in RowRecord /\ req \in [Sessions -> RequestRecord]
  BY DEF Typed, TypeOK, RowRecord
<1>b. ASSUME NEW op \in Rewrites, NEW r, NEW b, NEW step \in {"provider", "base"},
             Begin(s, op, r, b, step), r.roles = row.roles,
             op # "finalize" /\ r.finalized => row.finalized,
             NEW x \in Roles, Stored(x),
             row.status = "completed", verb = "normalize" \/ row.outputs = 1
      PROVE  Begun(s)
  <2>1. req'[s] = [op |-> op, step |-> step, row |-> r, base |-> b]
    BY <1>b, <1>r DEF Begin
  <2>2. /\ req'[s].op = op /\ req'[s].step = step
        /\ req'[s].row.roles = row.roles /\ req'[s].row.finalized = r.finalized
    BY <2>1, <1>b
  <2>3. /\ \A t \in Sessions \ {s} : req'[t] = req[t]
        /\ UNCHANGED <<verb, row, disk, run, debits, expired>>
        /\ clean' => clean /\ \A t \in Sessions : ~Busy(t)
    BY <1>b, <1>r DEF Begin
  <2>4. disk # EmptyDisk
    BY <1>b DEF Stored, EmptyDisk
  <2>5. QED BY <1>b, <2>2, <2>3, <2>4 DEF Begun
<1>1. CASE BeginRender(s)
  <2>1. PICK p \in Positions : Begin(s, "render", Rendered(row, p), Image("render", p), "base")
    BY <1>1 DEF BeginRender
  <2>2. Rendered(row, p).roles = row.roles /\ Rendered(row, p).finalized = FALSE
    BY <1>r DEF Rendered, RowRecord
  <2>3. "source" \in Roles /\ "render" \in Rewrites
    BY DEF Roles, Rewrites
  <2>4. QED BY <1>1, <1>b, <2>1, <2>2, <2>3 DEF BeginRender, Renderable
<1>2. CASE BeginFinalize(s)
  <2>1. [row EXCEPT !.finalized = TRUE].roles = row.roles
    BY <1>r DEF RowRecord
  <2>2. "source" \in Roles /\ "finalize" \in Rewrites
    BY DEF Roles, Rewrites
  <2>3. QED BY <1>2, <1>b, <2>1, <2>2 DEF BeginFinalize, Renderable
<1>3. CASE BeginEdit(s) \/ BeginReset(s)
  <2>1. \A e \in BOOLEAN : /\ [row EXCEPT !.edit = e].roles = row.roles
                           /\ [row EXCEPT !.edit = e].finalized = row.finalized
    BY <1>r DEF RowRecord
  <2>2. EditBase(row) \in Roles /\ "edit" \in Rewrites /\ "reset" \in Rewrites
    BY DEF EditBase, Roles, Rewrites
  <2>3. QED BY <1>3, <1>b, <2>1, <2>2 DEF BeginEdit, BeginReset, CanEdit
<1>4. QED BY <1>1, <1>2, <1>3 DEF BeginsRewrite

\* A discard or a save begins, and changes nothing yet.
LEMMA BeginningEnd ==
  ASSUME Typed, NEW s \in Sessions, BeginDiscard(s) \/ BeginSave(s)
  PROVE  /\ \/ req'[s].step = "discard" /\ row.status \in {"completed", "failed"}
            \/ req'[s].step = "upload" /\ row.status = "completed"
         /\ req'[s].op \in {"discard", "save"}
         /\ \A t \in Sessions \ {s} : req'[t] = req[t]
         /\ UNCHANGED <<verb, row, disk, run, debits, expired>>
         /\ clean' => clean /\ \A t \in Sessions : ~Busy(t)
<1>r. req \in [Sessions -> RequestRecord]
  BY DEF Typed
<1>b. ASSUME NEW op, NEW b, NEW step, Begin(s, op, row, b, step)
      PROVE  /\ req'[s].op = op /\ req'[s].step = step
             /\ \A t \in Sessions \ {s} : req'[t] = req[t]
             /\ UNCHANGED <<verb, row, disk, run, debits, expired>>
             /\ clean' => clean /\ \A t \in Sessions : ~Busy(t)
  BY <1>b, <1>r DEF Begin
<1>1. CASE BeginDiscard(s)
  BY <1>1, <1>b DEF BeginDiscard, Discardable
<1>2. CASE BeginSave(s)
  BY <1>2, <1>b DEF BeginSave
<1>3. QED BY <1>1, <1>2

\* What a request in flight does next: it goes on or ends, and no other moves.
Goes(s) ==
  \/ Provider(s) \/ StoreBase(s) \/ StoreOutput(s) \/ CommitOutput(s)
  \/ CommitDiscard(s) \/ Upload(s) \/ Replace(s) \/ CommitSave(s) \/ Purge(s)

NextStep ==
  {<<"provider", "base">>, <<"base", "output">>, <<"output", "commit">>,
   <<"discard", "purge">>, <<"upload", "replace">>, <<"upload", "saved">>,
   <<"replace", "saved">>, <<"saved", "purge">>}

\* A step of a request leads to the next stage of its operation, or ends it.
LEMMA Going ==
  ASSUME Typed, NEW s \in Sessions, Goes(s)
  PROVE  /\ \/ req'[s] = Idle
            \/ /\ req'[s].op = req[s].op /\ req'[s].row = req[s].row /\ req'[s].base = req[s].base
               /\ <<req[s].step, req'[s].step>> \in NextStep
               /\ req'[s].step = "output" => StoreBase(s)
               /\ req'[s].step = "commit" => StoreOutput(s)
               /\ req'[s].step = "purge" => CommitDiscard(s) \/ CommitSave(s)
         /\ \A t \in Sessions \ {s} : req'[t] = req[t]
         /\ clean' = clean
<1>r. req \in [Sessions -> RequestRecord]
  BY DEF Typed
<1>1. \A step \in Steps :
        /\ [req[s] EXCEPT !.step = step].step = step
        /\ [req[s] EXCEPT !.step = step].op = req[s].op
        /\ [req[s] EXCEPT !.step = step].row = req[s].row
        /\ [req[s] EXCEPT !.step = step].base = req[s].base
  BY <1>r DEF RequestRecord
<1>2. \/ req' = [req EXCEPT ![s] = Idle]
      \/ \E step \in Steps :
           /\ req' = [req EXCEPT ![s] = [req[s] EXCEPT !.step = step]]
           /\ <<req[s].step, step>> \in NextStep
           /\ step = "output" => StoreBase(s)
           /\ step = "commit" => StoreOutput(s)
           /\ step = "purge" => CommitDiscard(s) \/ CommitSave(s)
  BY DEF Goes, Provider, StoreBase, StoreOutput, CommitOutput, CommitDiscard, Upload, Replace,
         CommitSave, Purge, Steps, NextStep
<1>3. clean' = clean
  BY DEF Goes, Provider, StoreBase, StoreOutput, CommitOutput, CommitDiscard, Upload, Replace,
         CommitSave, Purge
<1>4. QED BY <1>r, <1>1, <1>2, <1>3

\* Two rows that differ in no more than what a reviewer of the asset does not see.
Alike(r, q) ==
  /\ r.place = q.place /\ r.finalized = q.finalized /\ r.edit = q.edit /\ r.roles = q.roles

\* The commit of an output: what the request had read and decided, whatever the row is.
LEMMA CommittedRow ==
  ASSUME Typed, NEW s \in Sessions, CommitOutput(s)
  PROVE  /\ row'.status = row.status /\ row'.saved = row.saved /\ row'.outputs = 1
         /\ row'.place = req[s].row.place /\ row'.finalized = req[s].row.finalized
         /\ row'.edit = req[s].row.edit
         /\ row'.roles = (req[s].row.roles \ {"edit_base"}) \cup {"output"}
                            \cup (IF req[s].row.edit THEN {"edit_base"} ELSE {})
<1>r. row \in RowRecord
  BY DEF Typed, TypeOK, RowRecord
<1>1. QED BY <1>r DEF CommitOutput, RowRecord

\* A request in flight changes the row by its three commits only.
LEMMA GoingRow ==
  ASSUME Typed, NEW s \in Sessions, Goes(s)
  PROVE  \/ /\ CommitOutput(s)
            /\ row'.status = row.status /\ row'.saved = row.saved /\ row'.outputs = 1
         \/ /\ CommitDiscard(s)
            /\ row'.status = "discarded" /\ row'.saved = row.saved
            /\ row'.outputs = row.outputs /\ Alike(row', row)
         \/ /\ CommitSave(s)
            /\ row'.status = row.status /\ row'.saved = TRUE
            /\ row'.outputs = row.outputs /\ Alike(row', row)
         \/ /\ row' = row
            /\ req[s].step \notin {"commit", "discard", "saved"}
<1>r. row \in RowRecord
  BY DEF Typed, TypeOK, RowRecord
<1>1. CASE CommitOutput(s)
  BY <1>1, CommittedRow
<1>2. CASE CommitDiscard(s)
  BY <1>2, <1>r DEF CommitDiscard, RowRecord, Alike
<1>3. CASE CommitSave(s)
  BY <1>3, <1>r DEF CommitSave, RowRecord, Alike
<1>4. CASE Provider(s) \/ StoreBase(s) \/ StoreOutput(s) \/ Upload(s) \/ Replace(s) \/ Purge(s)
  BY <1>4 DEF Provider, StoreBase, StoreOutput, Upload, Replace, Purge
<1>5. QED BY <1>1, <1>2, <1>3, <1>4 DEF Goes

\* The launch and the background run.
Runs == Launch \/ RunStep \/ RunUnpaid

\* They change the row's status, and only the commit of a result the rest of it.
LEMMA Running ==
  ASSUME Typed, Runs
  PROVE  /\ UNCHANGED <<verb, req, expired, clean>>
         /\ row'.saved = row.saved
         /\ \/ /\ RunCommit /\ run = "stored" /\ run' = "none" /\ row'.status = "completed"
               /\ row'.place = row.place /\ row'.finalized = row.finalized
               /\ row'.edit = row.edit
               /\ row'.roles = IF verb = "normalize" THEN {"output", "source"} ELSE {"output"}
               /\ row'.outputs \in Nat \ {0} /\ (verb = "normalize" => row'.outputs = 1)
               /\ debits'.process = debits.process + row'.outputs
               /\ debits'.finalize = debits.finalize
            \/ /\ ~RunCommit /\ Alike(row', row) /\ row'.outputs = row.outputs
               /\ debits' = debits
               /\ \/ /\ row.status = "absent" /\ row'.status = "pending" /\ run' = "scheduled"
                  \/ /\ run = "scheduled" /\ row'.status = "processing" /\ run' = "started"
                  \/ /\ run = "scheduled" /\ row'.status = "failed" /\ run' = "none"
                  \/ /\ run = "started" /\ row' = row /\ run' = "stored" /\ RunStore
                  \/ /\ run \in {"started", "stored"} /\ row'.status = "failed" /\ run' = "none"
         /\ ~RunStore => disk' = disk
<1>r. row \in RowRecord /\ debits \in [process : Nat, finalize : Nat]
  BY DEF Typed, TypeOK, RowRecord
<1>1. CASE RunCommit
  <2>1. PICK n \in Outputs :
          /\ verb = "normalize" => n = 1
          /\ row' = [row EXCEPT !.status = "completed", !.outputs = n,
                       !.roles = IF verb = "normalize" THEN {"output", "source"} ELSE {"output"}]
          /\ debits' = [debits EXCEPT !.process = @ + n]
    BY <1>1 DEF RunCommit
  <2>2. n \in Nat \ {0}
    BY ImagingAssumption DEF ImagingAssumption
  <2>3. QED BY <1>1, <1>r, <2>1, <2>2 DEF RunCommit, RunStore, RowRecord
<1>2. CASE ~RunCommit /\ (Launch \/ RunStart \/ RunUnpaid \/ RunFail)
  BY <1>2, <1>r
     DEF Launch, RunStart, RunUnpaid, RunFail, FailedRunDebits, RowRecord, Alike
<1>3. CASE RunStore
  BY <1>3, <1>r DEF RunStore, RunCommit, Alike
<1>4. QED BY <1>1, <1>2, <1>3 DEF Runs, RunStep

\* Every step is one of these.
LEMMA Moves ==
  ASSUME [Next]_vars
  PROVE  \/ Runs \/ Restart \/ UNCHANGED vars
         \/ \E s \in Sessions :
              BeginsRewrite(s) \/ BeginDiscard(s) \/ BeginSave(s) \/ Goes(s)
  BY DEF Next, Runs, BeginsRewrite, Goes

-----------------------------------------------------------------------------
(* The life of an asset *)

\* A run works on a row that waits for it, and a row without a result is as the
\* launch wrote it.
RunOrder ==
  /\ run = "scheduled" => row.status = "pending"
  /\ run \in {"started", "stored"} => row.status = "processing"
  /\ row.status \in {"absent", "pending", "processing", "failed"} =>
       Alike(row, NoRow) /\ ~row.saved

\* The row has given its files up.
Purgeable == row.status = "discarded" \/ (row.status = "completed" /\ row.saved)

\* What must be true of the row while request s is where it is: a rewrite works on a
\* result, and the directory is purged only when the row has given it up.
Ordered(s) ==
  /\ req[s].op \in Rewrites => /\ row.status \in {"completed", "discarded"}
                               /\ verb = "normalize" \/ row.outputs = 1
  /\ req[s].step \in {"upload", "replace", "saved"} => row.status \in {"completed", "discarded"}
  /\ req[s].step = "discard" => row.status \in {"completed", "failed", "discarded"}
  /\ req[s].step = "purge" => Purgeable

RequestOrder == \A s \in Sessions : Ordered(s)

Order == Typed /\ BasesAreImages /\ RunOrder /\ RequestOrder

\* A busy request means a row that has come to its result or its failure.
LEMMA BusyAfterRun ==
  ASSUME Order, NEW s \in Sessions, Busy(s)
  PROVE  row.status \in {"completed", "failed", "discarded"}
<1>1. req[s].step \in Steps
  BY DEF Order, Typed, RequestRecord
<1>2. QED BY <1>1 DEF Order, RequestOrder, Ordered, BasesAreImages, Busy, Steps, Purgeable

\* While the run is under way no request is.
LEMMA QuietWhileRunning ==
  ASSUME Order, Runs
  PROVE  \A s \in Sessions : ~Busy(s) /\ req[s].op \notin Rewrites
<1>1. row.status \in {"absent", "pending", "processing"}
  BY DEF Order, RunOrder, Runs, RunStep, Launch, RunStart, RunStore, RunCommit, RunFail, RunUnpaid
<1>2. QED BY <1>1, BusyAfterRun DEF Order, BasesAreImages

\* The end of a request disturbs no other request's.
LEMMA OrderStep ==
  ASSUME Order, [Next]_vars
  PROVE  RunOrder' /\ RequestOrder'
<1>t. Typed /\ BasesAreImages /\ RunOrder /\ RequestOrder
  BY DEF Order
<1>i. Idle.op \notin Rewrites /\ Idle.step = "idle"
  BY DEF Idle, Rewrites
<1>1. CASE Runs
  <2>1. \A s \in Sessions : req'[s] = req[s] /\ req[s].step = "idle" /\ req[s].op \notin Rewrites
    BY <1>1, <1>t, Running, QuietWhileRunning DEF Busy
  <2>2. RequestOrder'
    BY <2>1 DEF RequestOrder, Ordered
  <2>3. RunOrder'
    BY <1>1, <1>t, Running DEF RunOrder, Alike
  <2>4. QED BY <2>2, <2>3
<1>2. CASE Restart
  <2>1. run' = "none" /\ row' = row /\ \A s \in Sessions : req'[s] = Idle
    BY <1>2 DEF Restart
  <2>2. RequestOrder'
    BY <1>i, <2>1 DEF RequestOrder, Ordered
  <2>3. RunOrder'
    BY <1>t, <2>1 DEF RunOrder
  <2>4. QED BY <2>2, <2>3
<1>3. ASSUME NEW s \in Sessions, BeginsRewrite(s) PROVE RunOrder' /\ RequestOrder'
  <2>1. Begun(s)
    BY <1>3, <1>t, Beginning
  <2>2. RunOrder'
    BY <1>t, <2>1 DEF RunOrder, Begun
  <2>3. ASSUME NEW t \in Sessions PROVE Ordered(t)'
    BY <1>t, <2>1 DEF RequestOrder, Ordered, Begun, Purgeable
  <2>4. QED BY <2>2, <2>3 DEF RequestOrder
<1>4. ASSUME NEW s \in Sessions, BeginDiscard(s) \/ BeginSave(s)
      PROVE  RunOrder' /\ RequestOrder'
  <2>1. RunOrder'
    BY <1>4, <1>t, BeginningEnd DEF RunOrder
  <2>2. ASSUME NEW t \in Sessions PROVE Ordered(t)'
    BY <1>4, <1>t, BeginningEnd DEF RequestOrder, Ordered, Rewrites, Purgeable
  <2>3. QED BY <2>1, <2>2 DEF RequestOrder
<1>5. ASSUME NEW s \in Sessions, Goes(s) PROVE RunOrder' /\ RequestOrder'
  <2>1. Busy(s) /\ UNCHANGED <<run, verb>>
    BY <1>5 DEF Busy, Goes, Provider, StoreBase, StoreOutput, CommitOutput, CommitDiscard,
                Upload, Replace, CommitSave, Purge
  <2>2. row.status \in {"completed", "failed", "discarded"} /\ run = "none"
    <3>1. row.status \in {"completed", "failed", "discarded"}
      BY <2>1, BusyAfterRun
    <3>2. run \in {"none", "scheduled", "started", "stored"}
      BY <1>t DEF Typed, TypeOK
    <3>3. QED BY <1>t, <3>1, <3>2 DEF RunOrder
  <2>3. /\ CommitOutput(s) => req[s].step = "commit"
        /\ CommitSave(s) => req[s].step = "saved"
    BY DEF CommitOutput, CommitSave
  <2>4. RunOrder'
    BY <1>t, <1>5, <2>1, <2>2, <2>3, GoingRow
       DEF RunOrder, RequestOrder, Ordered, BasesAreImages
  <2>5. /\ row'.status = row.status \/ row'.status = "discarded"
        /\ row.saved => row'.saved
        /\ row'.outputs = row.outputs \/ row'.outputs = 1
        /\ CommitDiscard(s) => row'.status = "discarded"
        /\ CommitSave(s) => row'.saved = TRUE
    <3>r. row \in RowRecord
      BY <1>t DEF Typed, TypeOK, RowRecord
    <3>1. CASE CommitDiscard(s)
      BY <3>1, <3>r DEF CommitDiscard, CommitSave, RowRecord
    <3>2. CASE CommitSave(s)
      BY <3>2, <3>r DEF CommitDiscard, CommitSave, RowRecord
    <3>3. QED BY <1>t, <1>5, <3>1, <3>2, GoingRow
  <2>6. ASSUME NEW t \in Sessions \ {s} PROVE Ordered(t)'
    <3>1. req'[t] = req[t] /\ Ordered(t)
      BY <1>t, <1>5, <2>6, Going DEF RequestOrder
    <3>2. QED BY <2>1, <2>5, <3>1 DEF Ordered, Purgeable
  <2>7. Ordered(s)'
    <3>1. CASE req'[s] = Idle
      BY <1>i, <3>1 DEF Ordered
    <3>2. CASE req'[s] # Idle
      <4>1. /\ req'[s].op = req[s].op
            /\ <<req[s].step, req'[s].step>> \in NextStep
            /\ req'[s].step = "purge" => CommitDiscard(s) \/ CommitSave(s)
        BY <1>t, <1>5, <3>2, Going
      <4>2. Ordered(s)
        BY <1>t DEF RequestOrder
      <4>3. /\ req'[s].step \in {"replace", "saved"} => req[s].step \in {"upload", "replace"}
            /\ req'[s].step \notin {"upload", "discard"}
        BY <4>1 DEF NextStep
      <4>4. req'[s].step = "purge" => Purgeable'
        BY <2>3, <2>5, <4>1, <4>2 DEF Ordered, Purgeable
      <4>5. QED BY <2>1, <2>5, <4>1, <4>2, <4>3, <4>4 DEF Ordered, Purgeable
    <3>3. QED BY <3>1, <3>2
  <2>8. QED BY <2>4, <2>6, <2>7 DEF RequestOrder
<1>6. CASE UNCHANGED vars
  BY <1>t, <1>6 DEF vars, RunOrder, RequestOrder, Ordered, Purgeable
<1>7. QED BY <1>1, <1>2, <1>3, <1>4, <1>5, <1>6, Moves

\* The order of the launch, of the requests and of the row always holds.
THEOREM OrderInvariant == Spec => []Order
<1>1. Init => RunOrder /\ RequestOrder
  BY DEF Init, RunOrder, RequestOrder, Ordered, NoRow, Idle, Alike, Rewrites
<1>2. Order /\ [Next]_vars => RunOrder' /\ RequestOrder'
  BY OrderStep
<1>3. QED BY <1>1, <1>2, TypedInvariant, PTL DEF Spec, Order

-----------------------------------------------------------------------------
(* What is debited *)

\* DebitPerResult, and a request that was read from a finalised row has its debit too.
Paid ==
  /\ DebitPerResult
  /\ \A s \in Sessions :
       req[s].op \in Rewrites \ {"finalize"} /\ req[s].row.finalized => debits.finalize > 0

\* The debits move with the commit of a result only.
LEMMA GoingDebits ==
  ASSUME Order, NEW s \in Sessions, Goes(s)
  PROVE  /\ debits' = IF CommitOutput(s) /\ req[s].op = "finalize"
                      THEN [debits EXCEPT !.finalize = @ + 1] ELSE debits
         /\ verb' = verb
<1>1. CASE CommitOutput(s)
  BY <1>1 DEF CommitOutput
<1>2. CASE ~CommitOutput(s)
  BY <1>2 DEF Goes, Provider, StoreBase, StoreOutput, CommitDiscard, Upload, Replace, CommitSave,
              Purge
<1>3. QED BY <1>1, <1>2

\* Every step keeps the debits in line with the results that were stored.
LEMMA PaidStep ==
  ASSUME Order, Paid, [Next]_vars
  PROVE  Paid'
<1>t. /\ Typed /\ BasesAreImages /\ RunOrder /\ RequestOrder
      /\ debits \in [process : Nat, finalize : Nat]
      /\ row.status \in {"absent", "pending", "processing", "completed", "failed", "discarded"}
  BY DEF Order, Typed, TypeOK
<1>p. DebitPerResult
  BY DEF Paid
<1>i. Idle.op \notin Rewrites
  BY DEF Idle, Rewrites
<1>1. CASE Runs
  <2>1. \A s \in Sessions : req'[s].op \notin Rewrites
    BY <1>1, <1>t, Running, QuietWhileRunning
  <2>2. /\ ~row.finalized /\ row.status \in {"absent", "pending", "processing"}
        /\ debits = [process |-> 0, finalize |-> 0]
    <3>1. row.status \in {"absent", "pending", "processing"}
      BY <1>1, <1>t
         DEF RunOrder, Runs, RunStep, Launch, RunStart, RunStore, RunCommit, RunFail, RunUnpaid
    <3>2. ~NoRow.finalized
      BY DEF NoRow
    <3>3. QED BY <1>p, <1>t, <3>1, <3>2 DEF RunOrder, Alike, DebitPerResult
  <2>3. DebitPerResult'
    BY <1>1, <1>t, <2>2, Running DEF DebitPerResult, Alike
  <2>4. QED BY <2>1, <2>3 DEF Paid
<1>2. CASE Restart
  <2>1. UNCHANGED <<row, debits, verb>> /\ \A s \in Sessions : req'[s].op \notin Rewrites
    BY <1>2, <1>i DEF Restart
  <2>2. QED BY <1>p, <2>1 DEF Paid, DebitPerResult
<1>3. ASSUME NEW s \in Sessions, BeginsRewrite(s) PROVE Paid'
  <2>1. Begun(s)
    BY <1>3, <1>t, Beginning
  <2>2. DebitPerResult'
    BY <1>p, <2>1 DEF Begun, DebitPerResult
  <2>3. row.finalized => debits.finalize > 0
    BY <1>p DEF DebitPerResult
  <2>4. QED BY <2>1, <2>2, <2>3 DEF Begun, Paid
<1>4. ASSUME NEW s \in Sessions, BeginDiscard(s) \/ BeginSave(s) PROVE Paid'
  <2>1. DebitPerResult'
    BY <1>4, <1>p, <1>t, BeginningEnd DEF DebitPerResult
  <2>2. QED BY <1>4, <1>t, <2>1, BeginningEnd DEF Paid, Rewrites
<1>5. ASSUME NEW s \in Sessions, Goes(s) PROVE Paid'
  <2>1. debits'.finalize \in Nat /\ debits'.finalize >= debits.finalize
        /\ debits'.process = debits.process /\ verb' = verb
    BY <1>5, <1>t, GoingDebits
  <2>2. DebitPerResult'
    <3>1. CASE CommitOutput(s)
      <4>1. req[s].op \in Rewrites
        BY <1>t, <3>1 DEF CommitOutput, BasesAreImages
      <4>2. /\ row.status \in {"completed", "discarded"}
            /\ verb = "normalize" \/ row.outputs = 1
        BY <1>t, <4>1 DEF RequestOrder, Ordered
      <4>3. row'.status = row.status /\ row'.outputs = 1
            /\ row'.finalized = req[s].row.finalized
        BY <1>t, <3>1, CommittedRow
      <4>4. row'.finalized => debits'.finalize > 0
        <5>1. CASE req[s].op = "finalize"
          <6>1. debits' = [debits EXCEPT !.finalize = @ + 1]
            BY <1>5, <3>1, <5>1, GoingDebits
          <6>2. QED BY <6>1, <1>t
        <5>2. CASE req[s].op # "finalize"
          <6>1. req[s].row.finalized => debits.finalize > 0
            BY <4>1, <5>2 DEF Paid
          <6>2. QED BY <1>t, <2>1, <4>3, <6>1
        <5>3. QED BY <5>1, <5>2
      <4>5. QED BY <1>p, <2>1, <4>2, <4>3, <4>4 DEF DebitPerResult
    <3>2. CASE ~CommitOutput(s)
      <4>1. /\ row'.status = row.status \/ row'.status = "discarded"
            /\ row'.outputs = row.outputs /\ row'.finalized = row.finalized
        BY <1>5, <1>t, <3>2, GoingRow DEF Alike
      <4>2. debits' = debits
        BY <1>5, <3>2, GoingDebits
      <4>3. QED BY <1>p, <2>1, <4>1, <4>2 DEF DebitPerResult
    <3>3. QED BY <3>1, <3>2
  <2>3. ASSUME NEW t \in Sessions, req'[t].op \in Rewrites \ {"finalize"}, req'[t].row.finalized
        PROVE  debits'.finalize > 0
    <3>1. req'[t].op = req[t].op /\ req'[t].row = req[t].row
      BY <1>5, <1>t, <1>i, <2>3, Going
    <3>2. debits.finalize > 0
      BY <2>3, <3>1 DEF Paid
    <3>3. QED BY <1>t, <2>1, <3>2
  <2>4. QED BY <2>2, <2>3 DEF Paid
<1>6. CASE UNCHANGED vars
  BY <1>6 DEF vars, Paid, DebitPerResult
<1>7. QED BY <1>1, <1>2, <1>3, <1>4, <1>5, <1>6, Moves

\* Exactly the committed results are debited: nothing before the result or after a
\* failure, and a finalised row has its debit, however many requests overlapped.
THEOREM DebitedPerResult == Spec => []DebitPerResult
<1>1. Init => Paid
  BY DEF Init, Paid, DebitPerResult, NoRow, Idle, Rewrites
<1>2. Order /\ Paid /\ [Next]_vars => Paid'
  BY PaidStep
<1>3. Paid => DebitPerResult
  BY DEF Paid
<1>4. QED BY <1>1, <1>2, <1>3, OrderInvariant, PTL DEF Spec

-----------------------------------------------------------------------------
(* The staged files *)

\* A result somebody may still look at.
Wanted == row.status = "completed" /\ ~row.saved /\ ~expired

\* Only an asset of Photoroom has a source to recompose.
SourceIfNormalize ==
  /\ "source" \in row.roles => verb = "normalize"
  /\ \A s \in Sessions :
       req[s].op \in Rewrites /\ "source" \in req[s].row.roles => verb = "normalize"

\* The run has stored what it is about to commit.
RunHasStored ==
  run = "stored" => disk["output"] = Image("render", Home) /\ (verb = "normalize" => Stored("source"))

\* The files of the row are there, and so is the base of a request that will name it.
Complete ==
  /\ Stored("output")
  /\ verb = "normalize" => Stored("source")
  /\ "edit_base" \in row.roles => Stored("edit_base")
  /\ \A s \in Sessions :
       req[s].step \in {"output", "commit"} /\ req[s].row.edit => Stored("edit_base")

Kept == SourceIfNormalize /\ RunHasStored /\ (Wanted => Complete)

\* A request puts files and takes none, but for the purge.
LEMMA GoingFiles ==
  ASSUME Typed, BasesAreImages, NEW s \in Sessions, Goes(s)
  PROVE  /\ UNCHANGED <<run, expired, verb>>
         /\ ~StoreBase(s) /\ ~StoreOutput(s) /\ ~Purge(s) => disk' = disk
         /\ StoreBase(s) /\ req[s].row.edit => disk' = [disk EXCEPT !["edit_base"] = req[s].base]
         /\ StoreBase(s) /\ ~req[s].row.edit => disk' = disk
         /\ ~Purge(s) => \A x \in Roles : Stored(x) => Stored(x)'
         /\ StoreBase(s) => req[s].base \in Content
         /\ StoreBase(s) /\ req[s].row.edit => Stored("edit_base")'
<1>r. disk \in [Roles -> Content \cup {NoFile}]
  BY DEF Typed, TypeOK
<1>1. CASE StoreBase(s)
  <2>1. req[s].base \in Content /\ req[s].base # NoFile
    BY <1>1, Basics DEF StoreBase, BasesAreImages
  <2>2. "edit_base" \in Roles
    BY DEF Roles
  <2>3. UNCHANGED <<run, expired, verb>>
    BY <1>1 DEF StoreBase
  <2>4. disk' = IF req[s].row.edit THEN [disk EXCEPT !["edit_base"] = req[s].base] ELSE disk
    BY <1>1 DEF StoreBase
  <2>5. \A x \in Roles : Stored(x) => Stored(x)'
    BY <1>r, <2>1, <2>2, <2>4 DEF Stored
  <2>6. req[s].row.edit => Stored("edit_base")'
    BY <1>r, <2>1, <2>2, <2>4 DEF Stored
  <2>7. QED BY <1>1, <2>1, <2>3, <2>4, <2>5, <2>6 DEF Stored
<1>2. CASE StoreOutput(s)
  <2>1. req[s].base \in Content
    BY <1>2 DEF StoreOutput, BasesAreImages
  <2>2. Edited(req[s].base) # NoFile /\ req[s].base # NoFile
    BY <2>1, Basics
  <2>3. ~StoreBase(s) /\ ~Purge(s)
    BY <1>2 DEF StoreOutput, StoreBase, Purge
  <2>4. QED BY <1>2, <1>r, <2>2, <2>3 DEF StoreOutput, Stored
<1>3. CASE Purge(s)
  BY <1>3 DEF Purge, StoreBase
<1>4. CASE Provider(s) \/ CommitOutput(s) \/ CommitDiscard(s) \/ Upload(s) \/ Replace(s)
             \/ CommitSave(s)
  <2>1. UNCHANGED <<disk, run, expired, verb>>
    BY <1>4 DEF Provider, CommitOutput, CommitDiscard, Upload, Replace, CommitSave
  <2>2. ~StoreBase(s)
    BY <1>4 DEF Provider, CommitOutput, CommitDiscard, Upload, Replace, CommitSave, StoreBase
  <2>3. QED BY <2>1, <2>2 DEF Stored
<1>5. QED BY <1>1, <1>2, <1>3, <1>4 DEF Goes

\* Every step keeps the rows and requests that name a source to runs of the verb normalize.
LEMMA SourceStep ==
  ASSUME Order, SourceIfNormalize, [Next]_vars
  PROVE  SourceIfNormalize'
<1>t. Typed /\ BasesAreImages
  BY DEF Order
<1>i. Idle.op \notin Rewrites
  BY DEF Idle, Rewrites
<1>1. CASE Runs
  <2>1. UNCHANGED <<verb, req>> /\ ("source" \in row'.roles => verb = "normalize")
    BY <1>1, <1>t, Running DEF SourceIfNormalize, Alike
  <2>2. QED BY <2>1 DEF SourceIfNormalize
<1>2. CASE Restart
  BY <1>2, <1>i DEF Restart, SourceIfNormalize
<1>3. ASSUME NEW s \in Sessions, BeginsRewrite(s) PROVE SourceIfNormalize'
  BY <1>3, <1>t, Beginning DEF Begun, SourceIfNormalize
<1>4. ASSUME NEW s \in Sessions, BeginDiscard(s) \/ BeginSave(s) PROVE SourceIfNormalize'
  <2>1. req'[s].op \notin Rewrites
    BY <1>4, <1>t, BeginningEnd DEF Rewrites
  <2>2. QED BY <1>4, <1>t, <2>1, BeginningEnd DEF SourceIfNormalize
<1>5. ASSUME NEW s \in Sessions, Goes(s) PROVE SourceIfNormalize'
  <2>1. verb' = verb
    BY <1>5, <1>t, GoingFiles
  <2>2. "source" \in row'.roles => verb = "normalize"
    <3>1. CASE CommitOutput(s)
      <4>1. req[s].op \in Rewrites
        BY <1>t, <3>1 DEF CommitOutput, BasesAreImages
      <4>2. "source" \in row'.roles => "source" \in req[s].row.roles
        BY <1>t, <3>1, CommittedRow
      <4>3. QED BY <4>1, <4>2 DEF SourceIfNormalize
    <3>2. CASE ~CommitOutput(s)
      BY <1>5, <1>t, <3>2, GoingRow DEF SourceIfNormalize, Alike
    <3>3. QED BY <3>1, <3>2
  <2>3. ASSUME NEW t \in Sessions, req'[t].op \in Rewrites, "source" \in req'[t].row.roles
        PROVE  verb = "normalize"
    <3>1. req'[t].op = req[t].op /\ req'[t].row = req[t].row
      BY <1>5, <1>t, <1>i, <2>3, Going
    <3>2. QED BY <2>3, <3>1 DEF SourceIfNormalize
  <2>4. QED BY <2>1, <2>2, <2>3 DEF SourceIfNormalize
<1>6. CASE UNCHANGED vars
  BY <1>6 DEF vars, SourceIfNormalize
<1>7. QED BY <1>1, <1>2, <1>3, <1>4, <1>5, <1>6, Moves

\* Every step keeps on disk what a run has stored, until it commits.
LEMMA RunHasStoredStep ==
  ASSUME Order, RunHasStored, [Next]_vars
  PROVE  RunHasStored'
<1>t. Typed /\ BasesAreImages /\ RunOrder /\ disk \in [Roles -> Content \cup {NoFile}]
  BY DEF Order, Typed, TypeOK
<1>1. CASE Runs
  <2>1. CASE RunStore
    <3>1. /\ disk'["output"] = Image("render", Home)
          /\ verb = "normalize" => disk'["source"] = Image("source", Home)
          /\ verb' = verb
      BY <2>1, <1>t DEF RunStore, Roles
    <3>2. Image("source", Home) # NoFile
      BY Basics
    <3>3. QED BY <3>1, <3>2 DEF RunHasStored, Stored
  <2>2. CASE ~RunStore
    BY <1>1, <1>t, <2>2, Running DEF RunHasStored
  <2>3. QED BY <2>1, <2>2
<1>2. CASE Restart
  BY <1>2 DEF Restart, RunHasStored
<1>3. ASSUME NEW s \in Sessions, BeginsRewrite(s) \/ BeginDiscard(s) \/ BeginSave(s)
      PROVE  RunHasStored'
  BY <1>3, <1>t, Beginning, BeginningEnd DEF Begun, RunHasStored, Stored
<1>4. ASSUME NEW s \in Sessions, Goes(s) PROVE RunHasStored'
  <2>1. Busy(s)
    BY <1>4 DEF Busy, Goes, Provider, StoreBase, StoreOutput, CommitOutput, CommitDiscard,
                Upload, Replace, CommitSave, Purge
  <2>2. run # "stored"
    BY <1>t, <2>1, BusyAfterRun DEF RunOrder
  <2>3. QED BY <1>4, <1>t, <2>2, GoingFiles DEF RunHasStored
<1>5. CASE UNCHANGED vars
  BY <1>5 DEF vars, RunHasStored, Stored
<1>6. QED BY <1>1, <1>2, <1>3, <1>4, <1>5, Moves

\* Only the purge and the sweep empty the directory, and neither finds a result that is
\* wanted; a commit names a base that its own request stored.
LEMMA CompleteStep ==
  ASSUME Order, Kept, [Next]_vars, Wanted'
  PROVE  Complete'
<1>t. Typed /\ BasesAreImages /\ RunOrder /\ RequestOrder
  BY DEF Order
<1>i. Idle.step = "idle"
  BY DEF Idle
<1>r. "output" \in Roles /\ "source" \in Roles /\ "edit_base" \in Roles
  BY DEF Roles
<1>1. CASE Runs
  <2>1. RunCommit
    <3>1. row.status \in {"absent", "pending", "processing"}
      BY <1>1, <1>t
         DEF RunOrder, Runs, RunStep, Launch, RunStart, RunStore, RunCommit, RunFail, RunUnpaid
    <3>2. QED BY <1>1, <1>t, <3>1, Running DEF Wanted
  <2>2. run = "stored" /\ disk' = disk /\ UNCHANGED <<verb, req>>
    BY <1>1, <1>t, <2>1, Running DEF RunCommit, RunStore
  <2>3. row'.roles = IF verb = "normalize" THEN {"output", "source"} ELSE {"output"}
    BY <1>1, <1>t, <2>1, Running
  <2>4. \A s \in Sessions : req[s].step = "idle"
    BY <1>1, QuietWhileRunning DEF Busy
  <2>5. disk["output"] # NoFile /\ (verb = "normalize" => Stored("source"))
    <3>1. Image("render", Home) # NoFile
      BY Basics
    <3>2. QED BY <2>2, <3>1 DEF Kept, RunHasStored
  <2>6. QED BY <2>2, <2>3, <2>4, <2>5 DEF Complete, Stored
<1>2. CASE Restart
  <2>1. UNCHANGED <<verb, row>> /\ \A s \in Sessions : req'[s] = Idle
    BY <1>2 DEF Restart
  <2>2. disk' = disk /\ Wanted
    BY <1>2 DEF Restart, Wanted
  <2>3. QED BY <1>i, <2>1, <2>2 DEF Kept, Complete, Stored
<1>3. ASSUME NEW s \in Sessions, BeginsRewrite(s) PROVE Complete'
  <2>1. Begun(s)
    BY <1>3, <1>t, Beginning
  <2>2. Complete
    BY <2>1 DEF Begun, Wanted, Kept
  <2>3. QED BY <2>1, <2>2 DEF Begun, Complete, Stored
<1>4. ASSUME NEW s \in Sessions, BeginDiscard(s) \/ BeginSave(s) PROVE Complete'
  <2>1. Complete
    BY <1>4, <1>t, BeginningEnd DEF Wanted, Kept
  <2>2. UNCHANGED <<row, disk, verb>> /\ req'[s].step \notin {"output", "commit"}
        /\ \A t \in Sessions \ {s} : req'[t] = req[t]
    BY <1>4, <1>t, BeginningEnd
  <2>3. QED BY <2>1, <2>2 DEF Complete, Stored
<1>5. ASSUME NEW s \in Sessions, Goes(s) PROVE Complete'
  <2>1. UNCHANGED <<expired, verb>>
    BY <1>5, <1>t, GoingFiles
  <2>2. Wanted /\ row'.status = "completed"
    <3>1. CASE CommitOutput(s)
      BY <1>t, <2>1, <3>1, CommittedRow DEF Wanted
    <3>2. CASE ~CommitOutput(s)
      BY <1>5, <1>t, <2>1, <3>2, GoingRow DEF Wanted
    <3>3. QED BY <3>1, <3>2
  <2>3. Complete
    BY <2>2 DEF Kept
  <2>4. ~Purge(s)
    <3>1. Purge(s) => Purgeable /\ row' = row
      BY <1>t DEF Purge, RequestOrder, Ordered
    <3>2. QED BY <2>2, <3>1 DEF Purgeable, Wanted
  <2>5. \A x \in Roles : Stored(x) => Stored(x)'
    BY <1>5, <1>t, <2>4, GoingFiles
  <2>6. ASSUME NEW t \in Sessions, req'[t].step \in {"output", "commit"}, req'[t].row.edit
        PROVE  Stored("edit_base")'
    <3>1. CASE StoreBase(s) /\ t = s
      <4>1. req'[s].row = req[s].row
        BY <1>5, <1>t, <1>i, <2>6, <3>1, Going
      <4>2. QED BY <1>5, <1>t, <2>6, <3>1, <4>1, GoingFiles
    <3>2. CASE ~(StoreBase(s) /\ t = s)
      <4>1. req'[t].row = req[t].row /\ req[t].step \in {"output", "commit"}
        <5>1. CASE t = s
          BY <1>5, <1>t, <1>i, <2>6, <3>2, <5>1, Going DEF NextStep
        <5>2. CASE t # s
          BY <1>5, <1>t, <2>6, <5>2, Going
        <5>3. QED BY <5>1, <5>2
      <4>2. QED BY <1>r, <2>3, <2>5, <2>6, <4>1 DEF Complete
    <3>3. QED BY <3>1, <3>2
  <2>7. "edit_base" \in row'.roles => Stored("edit_base")
    <3>1. CASE CommitOutput(s)
      <4>1. req[s].step = "commit"
        BY <3>1 DEF CommitOutput
      <4>2. "edit_base" \in row'.roles => req[s].row.edit
        BY <1>t, <3>1, CommittedRow
      <4>3. QED BY <2>3, <4>1, <4>2 DEF Complete
    <3>2. CASE ~CommitOutput(s)
      BY <1>5, <1>t, <2>3, <3>2, GoingRow DEF Complete, Alike
    <3>3. QED BY <3>1, <3>2
  <2>8. QED BY <1>r, <2>1, <2>3, <2>5, <2>6, <2>7 DEF Complete
<1>6. CASE UNCHANGED vars
  BY <1>6 DEF vars, Wanted, Kept, Complete, Stored
<1>7. QED BY <1>1, <1>2, <1>3, <1>4, <1>5, <1>6, Moves

\* Files are only taken from a row that has given them up.
THEOREM KeptInvariant == Spec => []Kept
<1>1. Init => Kept
  BY DEF Init, Kept, SourceIfNormalize, RunHasStored, Wanted, NoRow, Idle, Rewrites
<1>2. Order /\ Kept /\ [Next]_vars => Kept'
  BY SourceStep, RunHasStoredStep, CompleteStep DEF Kept
<1>3. QED BY <1>1, <1>2, OrderInvariant, PTL DEF Spec

\* A result that was paid for has its files until it is saved, discarded or swept,
\* whatever overlapped or died.
THEOREM ResultIsKept == Spec => []ResultKept
<1>1. Typed /\ Kept => ResultKept
  <2> SUFFICES ASSUME Typed, Kept, Wanted, NEW r \in row.roles PROVE Stored(r)
    BY DEF ResultKept, Wanted
  <2>1. r \in {"source", "edit_base", "output"}
    BY DEF Typed, TypeOK, Roles
  <2>2. QED BY <2>1 DEF Kept, SourceIfNormalize, Complete
<1>2. QED BY <1>1, KeptInvariant, TypedInvariant, PTL

-----------------------------------------------------------------------------
(* What the files show *)

\* The image a row speaks of, before and after its edit.
Base(r) == Image(IF r.finalized THEN "final" ELSE "render", r.place)
Shown(r) == IF r.edit THEN Edited(Base(r)) ELSE Base(r)

\* The files show what the row says.
Good ==
  row.status = "completed" =>
    /\ row.edit <=> "edit_base" \in row.roles
    /\ Stored("output") => disk["output"] = Shown(row) /\ (row.edit => Stored("edit_base"))
    /\ row.edit /\ Stored("edit_base") => disk["edit_base"] = Base(row)

\* What request s has made of the image its own row will speak of.
Prepared(s) ==
  /\ req[s].op \in Rewrites => req[s].base = Base(req[s].row)
  /\ req[s].step \in {"output", "commit"} /\ req[s].row.edit => disk["edit_base"] = req[s].base
  /\ req[s].step = "commit" => disk["output"] = Shown(req[s].row)

OneAtATime == \A s, t \in Sessions : Busy(s) /\ Busy(t) => s = t

\* While no writers overlap, the files and the row agree whenever no request is between
\* its first file and its commit.
Serial ==
  clean => /\ OneAtATime
           /\ \A s \in Sessions : Prepared(s)
           /\ (\A s \in Sessions : ~HasStored(s)) => Good

\* Two rows alike speak of the same image.
LEMMA SameImage ==
  ASSUME NEW r, NEW q, Alike(r, q)
  PROVE  Base(r) = Base(q) /\ Shown(r) = Shown(q)
BY DEF Alike, Base, Shown

\* A request that begins has its base right: composed anew, or the file that the row,
\* alone with it, speaks of.
LEMMA BeginningBase ==
  ASSUME Typed, Good, NEW s \in Sessions, BeginsRewrite(s)
  PROVE  req'[s].base = Base(req'[s].row)
<1>r. row \in RowRecord /\ req \in [Sessions -> RequestRecord]
  BY DEF Typed, TypeOK, RowRecord
<1>b. ASSUME NEW op, NEW r, NEW b, NEW step, Begin(s, op, r, b, step)
      PROVE  req'[s].base = b /\ req'[s].row = r
  BY <1>b, <1>r DEF Begin
<1>1. CASE BeginRender(s)
  <2>1. PICK p \in Positions : Begin(s, "render", Rendered(row, p), Image("render", p), "base")
    BY <1>1 DEF BeginRender
  <2>2. Rendered(row, p).place = p /\ Rendered(row, p).finalized = FALSE
    BY <1>r DEF Rendered, RowRecord
  <2>3. QED BY <1>b, <2>1, <2>2 DEF Base
<1>2. CASE BeginFinalize(s)
  <2>1. /\ [row EXCEPT !.finalized = TRUE].place = row.place
        /\ [row EXCEPT !.finalized = TRUE].finalized = TRUE
    BY <1>r DEF RowRecord
  <2>2. QED BY <1>2, <1>b, <2>1 DEF BeginFinalize, Base
<1>3. CASE BeginEdit(s) \/ BeginReset(s)
  <2>1. \A e \in BOOLEAN : /\ [row EXCEPT !.edit = e].place = row.place
                           /\ [row EXCEPT !.edit = e].finalized = row.finalized
    BY <1>r DEF RowRecord
  <2>2. \A e \in BOOLEAN : Base([row EXCEPT !.edit = e]) = Base(row)
    BY <2>1 DEF Base
  <2>3. row.status = "completed" /\ Stored(EditBase(row))
    BY <1>3 DEF BeginEdit, BeginReset, CanEdit
  <2>4. disk[EditBase(row)] = Base(row)
    <3>1. CASE row.edit
      BY <2>3, <3>1 DEF Good, EditBase
    <3>2. CASE ~row.edit
      BY <2>3, <3>2 DEF Good, EditBase, Shown
    <3>3. QED BY <3>1, <3>2
  <2>5. \E e \in BOOLEAN : \E op, step :
          Begin(s, op, [row EXCEPT !.edit = e], disk[EditBase(row)], step)
    BY <1>3 DEF BeginEdit, BeginReset
  <2>6. QED BY <1>b, <2>2, <2>4, <2>5
<1>4. QED BY <1>1, <1>2, <1>3 DEF BeginsRewrite

\* What a request that stores its base, then its output, has then prepared.
LEMMA PreparedStep ==
  ASSUME Order, NEW s \in Sessions, Prepared(s), Goes(s)
  PROVE  Prepared(s)'
<1>t. /\ Typed /\ BasesAreImages /\ req \in [Sessions -> RequestRecord]
      /\ disk \in [Roles -> Content \cup {NoFile}]
  BY DEF Order, Typed, TypeOK
<1>i. Idle.op \notin Rewrites /\ Idle.step = "idle"
  BY DEF Idle, Rewrites
<1>1. CASE req'[s] = Idle
  BY <1>i, <1>1 DEF Prepared
<1>2. CASE req'[s] # Idle
  <2>1. /\ req'[s].op = req[s].op /\ req'[s].row = req[s].row /\ req'[s].base = req[s].base
        /\ <<req[s].step, req'[s].step>> \in NextStep
        /\ req'[s].step = "output" => StoreBase(s)
        /\ req'[s].step = "commit" => StoreOutput(s)
    BY <1>2, <1>t, Going
  <2>2. req'[s].op \in Rewrites => req'[s].base = Base(req'[s].row)
    BY <2>1 DEF Prepared
  <2>3. CASE req'[s].step = "output"
    <3>1. req'[s].row.edit => disk'["edit_base"] = req'[s].base
      BY <1>t, <2>1, <2>3 DEF StoreBase, Roles
    <3>2. QED BY <2>2, <2>3, <3>1 DEF Prepared
  <2>4. CASE req'[s].step = "commit"
    <3>1. req[s].step = "output" /\ StoreOutput(s)
      BY <2>1, <2>4 DEF NextStep
    <3>2. req[s].base = Base(req[s].row)
      BY <1>t, <3>1 DEF Prepared, BasesAreImages
    <3>3. disk' = [disk EXCEPT !["output"] = Shown(req[s].row)]
      BY <3>1, <3>2 DEF StoreOutput, Shown
    <3>4. disk'["output"] = Shown(req'[s].row) /\ disk'["edit_base"] = disk["edit_base"]
      BY <1>t, <2>1, <3>3 DEF Roles
    <3>5. req'[s].row.edit => disk'["edit_base"] = req'[s].base
      BY <2>1, <3>1, <3>4 DEF Prepared
    <3>6. QED BY <2>2, <2>4, <3>4, <3>5 DEF Prepared
  <2>5. CASE req'[s].step \notin {"output", "commit"}
    BY <2>2, <2>5 DEF Prepared
  <2>6. QED BY <2>3, <2>4, <2>5
<1>3. QED BY <1>1, <1>2

\* The commit of an output makes the row say what the files show.
LEMMA GoodCommit ==
  ASSUME Order, NEW s \in Sessions, Prepared(s), CommitOutput(s)
  PROVE  Good'
<1>t. /\ Typed /\ BasesAreImages /\ disk' = disk /\ req[s].step = "commit"
      /\ req[s].row \in RowRecord
  BY DEF Order, Typed, CommitOutput, RequestRecord
<1>1. req[s].base = Base(req[s].row) /\ req[s].base \in Content
  BY <1>t DEF Prepared, BasesAreImages
<1>2. disk["output"] = Shown(req[s].row)
  BY <1>t DEF Prepared
<1>3. req[s].row.edit => disk["edit_base"] = Base(req[s].row) /\ Stored("edit_base")
  <2>1. req[s].base # NoFile
    BY <1>1, Basics
  <2>2. QED BY <1>t, <1>1, <2>1 DEF Prepared, Stored
<1>4. /\ row'.place = req[s].row.place /\ row'.finalized = req[s].row.finalized
      /\ row'.edit = req[s].row.edit
      /\ "edit_base" \in row'.roles <=> req[s].row.edit
  BY <1>t, CommittedRow DEF RowRecord
<1>5. Base(row') = Base(req[s].row) /\ Shown(row') = Shown(req[s].row)
  BY <1>4 DEF Base, Shown
<1>6. row'.edit <=> "edit_base" \in row'.roles
  BY <1>4
<1>7. disk'["output"] = Shown(row')
  BY <1>2, <1>5, <1>t
<1>8. row'.edit => disk'["edit_base"] = Base(row') /\ Stored("edit_base")'
  BY <1>3, <1>4, <1>5, <1>t DEF Stored
<1>9. QED BY <1>6, <1>7, <1>8 DEF Good

\* The run commits a fresh row over the files it has stored.
LEMMA GoodRun ==
  ASSUME Order, RunHasStored, Runs
  PROVE  Good'
<1>t. Typed /\ RunOrder
  BY DEF Order
<1>1. CASE RunCommit
  <2>a. run = "stored" /\ disk' = disk
    BY <1>1 DEF RunCommit
  <2>b. /\ row'.place = row.place /\ row'.finalized = row.finalized /\ row'.edit = row.edit
        /\ row'.roles = IF verb = "normalize" THEN {"output", "source"} ELSE {"output"}
    BY <1>1, <1>t, Running
  <2>1. /\ run = "stored" /\ disk' = disk /\ row'.place = row.place
        /\ row'.finalized = row.finalized /\ row'.edit = row.edit
        /\ "edit_base" \notin row'.roles
    BY <2>a, <2>b
  <2>2. row.place = Home /\ row.finalized = FALSE /\ row.edit = FALSE
    BY <1>t, <2>1 DEF RunOrder, Alike, NoRow
  <2>3. disk["output"] = Image("render", Home)
    BY <2>1 DEF RunHasStored
  <2>4. Shown(row') = Image("render", Home)
    BY <2>1, <2>2 DEF Shown, Base
  <2>5. QED BY <2>1, <2>2, <2>3, <2>4 DEF Good
<1>2. CASE ~RunCommit
  <2>1. row.status \in {"absent", "pending", "processing"}
    BY <1>t DEF RunOrder, Runs, RunStep, Launch, RunStart, RunStore, RunCommit, RunFail, RunUnpaid
  <2>2. row'.status # "completed"
    BY <1>2, <1>t, <2>1, Running
  <2>3. QED BY <2>2 DEF Good
<1>3. QED BY <1>1, <1>2

\* One request at a time: each leaves the files and the row in agreement.
LEMMA SerialStep ==
  ASSUME Order, RunHasStored, Serial, [Next]_vars
  PROVE  Serial'
<1> SUFFICES ASSUME clean'
             PROVE  /\ OneAtATime'
                    /\ \A s \in Sessions : Prepared(s)'
                    /\ (\A s \in Sessions : ~HasStored(s)') => Good'
  BY DEF Serial
<1>t. Typed /\ BasesAreImages /\ RunOrder /\ req \in [Sessions -> RequestRecord]
  BY DEF Order, Typed
<1>i. Idle.op \notin Rewrites /\ Idle.step = "idle"
  BY DEF Idle, Rewrites
<1>s. \A s \in Sessions : HasStored(s) => Busy(s)
  BY DEF HasStored, Busy
<1>1. CASE Runs
  <2>1. UNCHANGED <<req, clean>> /\ \A s \in Sessions : ~Busy(s) /\ req[s].op \notin Rewrites
    BY <1>1, <1>t, Running, QuietWhileRunning
  <2>2. OneAtATime' /\ \A s \in Sessions : Prepared(s)'
    BY <2>1 DEF OneAtATime, Prepared, Busy
  <2>3. QED BY <1>1, <2>2, GoodRun
<1>2. CASE Restart
  <2>1. /\ clean /\ \A s \in Sessions : ~HasStored(s)
        /\ row' = row /\ \A s \in Sessions : req'[s] = Idle
        /\ disk' = disk \/ disk' = EmptyDisk
    BY <1>2 DEF Restart
  <2>2. OneAtATime' /\ \A s \in Sessions : Prepared(s)'
    BY <1>i, <2>1 DEF OneAtATime, Prepared, Busy
  <2>3. Good
    BY <2>1 DEF Serial
  <2>4. Good'
    BY <2>1, <2>3 DEF Good, Stored, EmptyDisk, Roles
  <2>5. QED BY <2>2, <2>4
<1>3. ASSUME NEW s \in Sessions, BeginsRewrite(s)
      PROVE  OneAtATime' /\ (\A t \in Sessions : Prepared(t)') /\ Good'
  <2>1. Begun(s)
    BY <1>3, <1>t, Beginning
  <2>2. clean /\ \A t \in Sessions : ~Busy(t)
    BY <2>1 DEF Begun
  <2>3. Good
    BY <1>s, <2>2 DEF Serial
  <2>4. req'[s].base = Base(req'[s].row)
    BY <1>3, <1>t, <2>3, BeginningBase
  <2>5. OneAtATime'
    BY <2>1, <2>2 DEF OneAtATime, Begun, Busy
  <2>6. Prepared(s)'
    BY <2>1, <2>4 DEF Begun, Prepared
  <2>7. ASSUME NEW t \in Sessions \ {s} PROVE Prepared(t)'
    BY <2>1, <2>2 DEF Begun, Serial, Prepared
  <2>8. Good'
    BY <2>1, <2>3 DEF Begun, Good, Stored
  <2>9. QED BY <2>5, <2>6, <2>7, <2>8
<1>4. ASSUME NEW s \in Sessions, BeginDiscard(s) \/ BeginSave(s)
      PROVE  OneAtATime' /\ (\A t \in Sessions : Prepared(t)') /\ Good'
  <2>1. /\ clean /\ \A t \in Sessions : ~Busy(t)
        /\ req'[s].op \notin Rewrites /\ req'[s].step \notin {"output", "commit"}
        /\ \A t \in Sessions \ {s} : req'[t] = req[t]
        /\ UNCHANGED <<row, disk>>
    BY <1>4, <1>t, BeginningEnd DEF Rewrites
  <2>2. Good
    BY <1>s, <2>1 DEF Serial
  <2>3. OneAtATime'
    BY <2>1 DEF OneAtATime, Busy
  <2>4. ASSUME NEW t \in Sessions PROVE Prepared(t)'
    BY <2>1 DEF Serial, Prepared
  <2>5. Good'
    BY <2>1, <2>2 DEF Good, Stored
  <2>6. QED BY <2>3, <2>4, <2>5
<1>5. ASSUME NEW s \in Sessions, Goes(s)
      PROVE  /\ OneAtATime' /\ \A t \in Sessions : Prepared(t)'
             /\ (\A t \in Sessions : ~HasStored(t)') => Good'
  <2>1. clean /\ \A t \in Sessions \ {s} : req'[t] = req[t]
    BY <1>5, <1>t, Going
  <2>2. Busy(s)
    BY <1>5 DEF Busy, Goes, Provider, StoreBase, StoreOutput, CommitOutput, CommitDiscard,
                Upload, Replace, CommitSave, Purge
  <2>3. \A t \in Sessions \ {s} : ~Busy(t) /\ req[t].op \notin Rewrites
    BY <1>t, <2>1, <2>2 DEF Serial, OneAtATime, BasesAreImages
  <2>4. OneAtATime'
    BY <2>1, <2>3 DEF OneAtATime, Busy
  <2>5. Prepared(s)'
    BY <1>5, <2>1, PreparedStep DEF Serial
  <2>6. ASSUME NEW t \in Sessions \ {s} PROVE Prepared(t)'
    BY <2>1, <2>3 DEF Prepared, Busy
  <2>7. ASSUME ~HasStored(s)' PROVE Good'
    <3>1. CASE CommitOutput(s)
      BY <2>1, <3>1, GoodCommit DEF Serial
    <3>2. CASE ~CommitOutput(s)
      <4>1. ~HasStored(s)
        <5>1. ASSUME HasStored(s) PROVE FALSE
          <6>1. StoreOutput(s)
            BY <1>5, <3>2, <5>1
               DEF HasStored, Goes, Provider, StoreBase, CommitDiscard, Upload, Replace,
                   CommitSave, Purge
          <6>2. req'[s].step = "commit"
            BY <6>1, <1>t DEF StoreOutput, RequestRecord
          <6>3. QED BY <2>7, <6>2 DEF HasStored
        <5>2. QED BY <5>1
      <4>2. Good
        BY <1>s, <2>1, <2>3, <4>1 DEF Serial
      <4>3. ~StoreBase(s) /\ ~StoreOutput(s)
        <5>1. StoreBase(s) => req'[s].step = "output"
          BY <1>t DEF StoreBase, RequestRecord
        <5>2. StoreOutput(s) => req'[s].step = "commit"
          BY <1>t DEF StoreOutput, RequestRecord
        <5>3. QED BY <2>7, <5>1, <5>2 DEF HasStored
      <4>4. disk' = disk \/ disk' = EmptyDisk
        BY <1>5, <1>t, <4>3, GoingFiles DEF Purge
      <4>5. row'.status = "completed" => row.status = "completed" /\ Alike(row', row)
        BY <1>5, <1>t, <3>2, GoingRow DEF Alike
      <4>6. ASSUME row'.status = "completed"
            PROVE  Base(row') = Base(row) /\ Shown(row') = Shown(row)
        BY <4>5, <4>6, SameImage
      <4>7. QED BY <4>2, <4>4, <4>5, <4>6 DEF Good, Stored, EmptyDisk, Roles, Alike
    <3>3. QED BY <3>1, <3>2
  <2>8. QED BY <2>4, <2>5, <2>6, <2>7
<1>6. CASE UNCHANGED vars
  <2>1. clean /\ UNCHANGED <<row, disk, req>>
    BY <1>6 DEF vars
  <2>2. QED BY <2>1 DEF Serial, OneAtATime, Busy, Prepared, HasStored, Good, Stored
<1>7. QED BY <1>1, <1>2, <1>3, <1>4, <1>5, <1>6, Moves

\* With requests one after the other, in any order and number, the output shows what
\* the row says of it.
THEOREM OutputTellsTheRow == Spec => []OutputMatchesRow
<1>1. Init => Serial
  <2> SUFFICES ASSUME Init PROVE Serial
    OBVIOUS
  <2>1. \A s \in Sessions : req[s] = Idle /\ Idle.step = "idle" /\ Idle.op = "none"
    BY DEF Init, Idle
  <2>2. row.status = "absent"
    BY DEF Init, NoRow
  <2>3. QED BY <2>1, <2>2 DEF Serial, OneAtATime, Busy, Prepared, Rewrites, Good
<1>2. Order /\ Kept /\ Serial /\ [Next]_vars => Serial'
  BY SerialStep DEF Kept
<1>3. Order /\ Serial => OutputMatchesRow
  <2> SUFFICES ASSUME Order, Serial, clean, AtRest, row.status = "completed", Stored("output")
               PROVE  LET out == disk["output"] IN
                        /\ out.made = IF row.finalized THEN "final" ELSE "render"
                        /\ out.at = row.place
                        /\ out.edits = IF row.edit THEN 1 ELSE 0
                        /\ row.edit <=> "edit_base" \in row.roles
                        /\ row.edit => Stored("edit_base") /\ disk["edit_base"].edits = 0
    BY DEF OutputMatchesRow
  <2>1. Good
    BY DEF Serial, AtRest, HasStored, Busy
  <2>2. /\ Base(row).made = IF row.finalized THEN "final" ELSE "render"
        /\ Base(row).at = row.place /\ Base(row).edits = 0
    BY DEF Base, Image
  <2>3. /\ Edited(Base(row)).made = Base(row).made /\ Edited(Base(row)).at = row.place
        /\ Edited(Base(row)).edits = 1
    BY DEF Base, Image, Edited
  <2>4. QED BY <2>1, <2>2, <2>3 DEF Good, Shown
<1>4. QED BY <1>1, <1>2, <1>3, OrderInvariant, KeptInvariant, PTL DEF Spec

-----------------------------------------------------------------------------
(* Replacing the original *)

\* Tillin creates every image of an import it answers with 200: what the code takes
\* for granted, and imaging_refused.cfg does without.
NoRefusal == ~Refusals

\* A request deactivates the original after its import created an image.
ImportedFirst ==
  /\ OriginalReplaced
  /\ row.status = "completed" => row.outputs > 0
  /\ \A s \in Sessions : /\ req[s].step = "upload" => req[s].row.outputs > 0
                         /\ req[s].step = "replace" => gallery.new > 0

\* Only the import and the deactivation of the original touch the gallery.
LEMMA GallerySteps ==
  ASSUME Typed, [Next]_vars
  PROVE  \/ gallery' = gallery
         \/ \E s \in Sessions : Upload(s) \/ Replace(s)
  BY DEF Next, vars, Launch, RunStep, RunStart, RunStore, RunCommit, RunFail, RunUnpaid,
         BeginRender, BeginFinalize, BeginEdit, BeginReset, BeginDiscard, BeginSave, Begin,
         Provider, StoreBase, StoreOutput, CommitOutput, CommitDiscard, CommitSave, Purge, Restart

\* The images of a request that uploads are counted before it is at its replacement.
LEMMA ImportedFirstStep ==
  ASSUME NoRefusal, Order, ImportedFirst, [Next]_vars
  PROVE  ImportedFirst'
<1>t. /\ Typed /\ BasesAreImages /\ RunOrder /\ req \in [Sessions -> RequestRecord]
      /\ gallery \in [new : Nat, original : BOOLEAN]
  BY DEF Order, Typed, TypeOK
<1>i. Idle.step = "idle"
  BY DEF Idle
<1>o. row'.status = "completed" => row'.outputs > 0
  <2>1. CASE Runs
    <3>1. row.status \in {"absent", "pending", "processing"}
      BY <1>t, <2>1
         DEF RunOrder, Runs, RunStep, Launch, RunStart, RunStore, RunCommit, RunFail, RunUnpaid
    <3>2. QED BY <1>t, <2>1, <3>1, Running
  <2>2. ASSUME NEW s \in Sessions, Goes(s) PROVE row'.status = "completed" => row'.outputs > 0
    <3>1. row.status = "completed" => row.outputs > 0
      BY DEF ImportedFirst
    <3>2. \/ row'.outputs = 1 \/ row'.status = "discarded"
          \/ row'.status = row.status /\ row'.outputs = row.outputs
      BY <1>t, <2>2, GoingRow
    <3>3. QED BY <3>1, <3>2
  <2>3. CASE row' = row
    BY <2>3 DEF ImportedFirst
  <2>4. QED BY <1>t, <2>1, <2>2, <2>3, Moves, Beginning, BeginningEnd DEF Restart, vars, Begun
<1>u. ASSUME NEW s \in Sessions, Upload(s)
      PROVE  /\ gallery'.original = gallery.original /\ gallery'.new >= gallery.new
             /\ req'[s].step = "replace" => gallery'.new > 0
  <2>1. req[s].row.outputs \in Nat /\ req[s].row.outputs > 0
    BY <1>t, <1>u DEF RequestRecord, RowRecord, Upload, ImportedFirst
  <2>2. Created(req[s].row.outputs) = {req[s].row.outputs}
    BY DEF Created, NoRefusal
  <2>3. \/ gallery' = [gallery EXCEPT !.new = @ + req[s].row.outputs]
        \/ gallery' = gallery /\ req' = [req EXCEPT ![s] = Idle]
    BY <1>u, <2>2 DEF Upload
  <2>4. QED BY <1>t, <1>i, <2>1, <2>3
<1>r. ASSUME NEW s \in Sessions, Replace(s)
      PROVE  gallery'.new = gallery.new /\ gallery.new > 0
  <2>1. gallery.new > 0
    BY <1>r DEF Replace, ImportedFirst
  <2>2. gallery' = gallery \/ gallery' = [gallery EXCEPT !.original = FALSE]
    BY <1>r DEF Replace
  <2>3. QED BY <1>t, <2>1, <2>2
<1>n. gallery'.new \in Nat /\ gallery.new \in Nat
  BY <1>t, TypedStep DEF Typed, TypeOK
<1>g. gallery'.new >= gallery.new /\ OriginalReplaced'
  <2>1. ~gallery.original => gallery.new > 0
    BY DEF ImportedFirst, OriginalReplaced
  <2>2. CASE gallery' = gallery
    BY <1>n, <2>1, <2>2 DEF OriginalReplaced
  <2>3. ASSUME NEW s \in Sessions, Upload(s)
        PROVE  gallery'.new >= gallery.new /\ OriginalReplaced'
    BY <1>n, <1>u, <2>1, <2>3 DEF OriginalReplaced
  <2>4. ASSUME NEW s \in Sessions, Replace(s)
        PROVE  gallery'.new >= gallery.new /\ OriginalReplaced'
    BY <1>n, <1>r, <2>4 DEF OriginalReplaced
  <2>5. QED BY <1>t, <2>2, <2>3, <2>4, GallerySteps
<1>s. ASSUME NEW s \in Sessions
      PROVE  /\ req'[s].step = "upload" => req'[s].row.outputs > 0
             /\ req'[s].step = "replace" => gallery'.new > 0
  <2>1. CASE req'[s] = req[s]
    BY <1>g, <1>n, <2>1 DEF ImportedFirst
  <2>2. CASE req'[s] = Idle
    BY <1>i, <2>2
  <2>3. CASE BeginsRewrite(s)
    BY <1>t, <2>3, Beginning DEF Begun
  <2>4. CASE BeginDiscard(s)
    <3>1. req'[s].step = "discard"
      BY <1>t, <2>4 DEF BeginDiscard, Begin
    <3>2. QED BY <3>1
  <2>5. CASE BeginSave(s)
    <3>1. req'[s].step = "upload" /\ req'[s].row = row /\ row.status = "completed"
      BY <1>t, <2>5 DEF BeginSave, Begin
    <3>2. QED BY <3>1 DEF ImportedFirst
  <2>6. CASE Goes(s) /\ req'[s] # Idle
    <3>1. req'[s].step # "upload"
      BY <1>t, <2>6, Going DEF NextStep
    <3>2. ASSUME req'[s].step = "replace" PROVE Upload(s)
      BY <1>t, <2>6, <3>2
         DEF Goes, Provider, StoreBase, StoreOutput, CommitOutput, CommitDiscard, Replace,
             CommitSave, Purge, RequestRecord, Idle
    <3>3. QED BY <1>u, <3>1, <3>2
  <2>7. QED
    <3>1. \/ req'[s] = req[s] \/ req'[s] = Idle \/ BeginsRewrite(s) \/ BeginDiscard(s)
          \/ BeginSave(s) \/ Goes(s)
      <4>1. CASE Runs
        BY <1>t, <4>1, Running
      <4>2. CASE Restart
        BY <4>2 DEF Restart
      <4>3. CASE UNCHANGED vars
        BY <4>3 DEF vars
      <4>4. ASSUME NEW t \in Sessions, BeginsRewrite(t) \/ BeginDiscard(t) \/ BeginSave(t) \/ Goes(t),
                   t # s
            PROVE  req'[s] = req[s]
        <5>1. CASE BeginsRewrite(t)
          BY <1>t, <4>4, <5>1, Beginning DEF Begun
        <5>2. CASE BeginDiscard(t) \/ BeginSave(t)
          BY <1>t, <4>4, <5>2, BeginningEnd
        <5>3. CASE Goes(t)
          BY <1>t, <4>4, <5>3, Going
        <5>4. QED BY <4>4, <5>1, <5>2, <5>3
      <4>5. QED BY <4>1, <4>2, <4>3, <4>4, Moves
    <3>2. QED BY <2>1, <2>2, <2>3, <2>4, <2>5, <2>6, <3>1
<1>q. QED BY <1>o, <1>g, <1>s DEF ImportedFirst

\* If Tillin never answers 200 with fewer images, an original is only deactivated when
\* an image that replaces it was created: what the run with refusals refutes.
THEOREM ReplacedByAnother == ASSUME NoRefusal PROVE Spec => []OriginalReplaced
<1>1. Init => ImportedFirst
  BY DEF Init, ImportedFirst, OriginalReplaced, NoRow, Idle
<1>2. Order /\ ImportedFirst /\ [Next]_vars => ImportedFirst'
  BY ImportedFirstStep
<1>3. ImportedFirst => OriginalReplaced
  BY DEF ImportedFirst
<1>4. QED BY <1>1, <1>2, <1>3, OrderInvariant, PTL DEF Spec

-----------------------------------------------------------------------------
(* What the studio sends, meters and debits *)

\* A run that completes debits what its launch was asked for, image by image.
LEMMA DebitWithinAsked ==
  ASSUME NEW l \in Launches, NEW n \in Yields(l)
  PROVE  /\ n \in Nat /\ DebitUnits(l, n) \in Nat
         /\ DebitUnits(l, n) <= AskedUnits(l)
         /\ n = l.images => DebitUnits(l, n) = AskedUnits(l)
<1> USE DEF Launches, PricedByResolution, Resolutions
<1>1. l.images \in 1..4 /\ l.kind \in Kinds /\ (l.kind # "model_fashn" => l.images = 1)
  OBVIOUS
<1>2. Units[l.resolution] \in {1, 2, 4}
  BY DEF Units
<1>3. n \in Nat /\ n <= l.images /\ (RowProvider(l) # "fashn" => n = 1)
  BY <1>1 DEF Yields
<1>4. CASE l.kind \in PricedByResolution
  <2>1. n \in {0, 1} /\ l.images = 1
    BY <1>1, <1>3, <1>4
  <2>2. DebitUnits(l, n) = n * Units[l.resolution] /\ AskedUnits(l) = Units[l.resolution]
    BY <1>4 DEF DebitUnits, AskedUnits
  <2> QED BY <2>1, <2>2, <1>2
<1>5. CASE l.kind \in {"normalize", "finalize"}
  <2>1. n = 1 \/ n = 0
    BY <1>1, <1>3, <1>5
  <2> QED BY <2>1, <1>1, <1>3, <1>5 DEF DebitUnits, AskedUnits
<1>6. CASE l.kind = "model_fashn"
  BY <1>1, <1>3, <1>6 DEF DebitUnits, AskedUnits
<1>7. CASE l.kind \in {"model_photoroom", "swap"}
  BY <1>1, <1>3, <1>7 DEF DebitUnits, AskedUnits
<1> QED BY <1>1, <1>4, <1>5, <1>6, <1>7 DEF Kinds

\* A failure rolls the debit and the metering back.
LEMMA LaunchDebits ==
  ASSUME NEW l \in Launches  PROVE DebitAsAsked(l)
<1> SUFFICES ASSUME NEW n \in Yields(l), NEW stored \in BOOLEAN,
                    NEW end \in {"completed", "failed", "pending"}
             PROVE  LET r == Run(l, <<"pending", end>>, n, NoTokens, stored) IN
                    /\ r.debit <= AskedUnits(l)
                    /\ r.status = "completed" /\ n = l.images => r.debit = AskedUnits(l)
                    /\ r.status = "failed" => r.debit = 0 /\ r.usage = {}
  BY DEF DebitAsAsked
<1>1. PICK r : r = Run(l, <<"pending", end>>, n, NoTokens, stored)
  OBVIOUS
<1>2. \/ r = [status |-> "failed", debit |-> 0, usage |-> {}, outputs |-> 0]
      \/ r = [status |-> "completed", debit |-> DebitUnits(l, n),
              usage |-> Usage(l, NoTokens), outputs |-> n]
  BY <1>1 DEF Run
<1>3. AskedUnits(l) \in Nat
  <2>1. Units[l.resolution] \in {1, 2, 4} /\ l.images \in 1..4
    BY DEF Launches, Units, Resolutions
  <2> QED BY <2>1 DEF AskedUnits
<1>4. DebitUnits(l, n) <= AskedUnits(l) /\ (n = l.images => DebitUnits(l, n) = AskedUnits(l))
  BY DebitWithinAsked
<1>5. /\ r.debit <= AskedUnits(l)
      /\ r.status = "completed" /\ n = l.images => r.debit = AskedUnits(l)
      /\ r.status = "failed" => r.debit = 0 /\ r.usage = {}
  BY <1>2, <1>3, <1>4
<1> QED BY <1>1, <1>5

LEMMA MetricOne ==
  ASSUME NEW p, NEW m, NEW c \in Nat, c > 0
  PROVE  Metric(p, m, c) # {} /\ \A u \in Metric(p, m, c) : u.provider = p /\ u.quantity > 0
<1>1. [provider |-> p, metric |-> m, quantity |-> c] \in Metric(p, m, c)
  BY DEF Metric
<1>2. ASSUME NEW u \in Metric(p, m, c) PROVE u.provider = p /\ u.quantity > 0
  <2>1. u = [provider |-> p, metric |-> m, quantity |-> c]
    BY DEF Metric
  <2> QED BY <2>1
<1> QED BY <1>1, <1>2

\* What a call meters is of the provider its asset names, unless it finalises an image
\* that was kept with its background.
LEMMA LaunchMeters ==
  ASSUME NEW l \in Launches  PROVE MetersItsProvider(l)
<1> SUFFICES ASSUME NEW t \in [input : 0..1, output : 0..1]
             PROVE  /\ \A u \in Usage(l, t) :
                         /\ u.provider = (IF FinalisedLocally(l) THEN "photoroom" ELSE RowProvider(l))
                         /\ u.quantity > 0
                    /\ Usage(l, t) = {} <=> RowProvider(l) = "local" /\ ~FinalisedLocally(l)
  BY DEF MetersItsProvider
<1> USE DEF FinalisedLocally
<1>1. l.images \in 1..4 /\ l.kind \in Kinds /\ l.removeBg \in BOOLEAN /\ l.face \in BOOLEAN
      /\ l.resolution \in Resolutions /\ l.mode \in Modes
  BY DEF Launches
<1>2. \A r \in Resolutions, m \in Modes : FashnCredits[r][m] \in 1..5
  BY DEF FashnCredits, Resolutions, Modes
<1>3. CASE l.kind = "model_fashn"
  <2>1. PICK c \in 1..5 : c = FashnCredits[l.resolution][l.mode]
    BY <1>1, <1>2
  <2>2. c * l.images \in Nat /\ c * l.images > 0
    BY <2>1, <1>1
  <2>3. Usage(l, t) = Metric("fashn", "credits", c * l.images)
    BY <1>3, <2>1 DEF Usage, ModelUsage
  <2>4. RowProvider(l) = "fashn"
    BY <1>3 DEF RowProvider
  <2> QED BY <1>3, <2>2, <2>3, <2>4, MetricOne
<1>4. CASE l.kind = "swap"
  <2>1. PICK c \in {2, 5} : c = 2 + IF l.face THEN 3 ELSE 0
    BY <1>1
  <2>2. Usage(l, t) = Metric("fashn", "credits", c) /\ RowProvider(l) = "fashn"
    BY <2>1, <1>4 DEF Usage, SwapUsage, RowProvider
  <2> QED BY <1>4, <2>1, <2>2, MetricOne
<1>5. CASE l.kind = "recolor"
  <2>1. PICK c \in 1..5 : c = FashnCredits[l.resolution]["balanced"]
    BY <1>1, <1>2 DEF Modes
  <2>2. Usage(l, t) = Metric("fashn", "credits", c) /\ RowProvider(l) = "fashn"
    BY <1>5, <2>1 DEF Usage, RecolorUsage, RowProvider
  <2> QED BY <1>5, <2>1, <2>2, MetricOne
<1>6. CASE l.kind = "normalize"
  <2>1. CASE l.removeBg
    <3>1. Usage(l, t) = Metric("photoroom", "images", 1) /\ RowProvider(l) = "photoroom"
      BY <1>6, <2>1 DEF Usage, EditUsage, RowProvider
    <3> QED BY <1>6, <3>1, MetricOne
  <2>2. CASE ~l.removeBg
    <3>1. Usage(l, t) = {} /\ RowProvider(l) = "local"
      BY <1>6, <2>2 DEF Usage, RowProvider
    <3> QED BY <1>6, <3>1
  <2> QED BY <2>1, <2>2, <1>1
<1>7. CASE l.kind = "flat_gpt"
  <2>1. RowProvider(l) = "openai" /\ Usage(l, t) = GptUsage(t)
    BY <1>7 DEF RowProvider, Usage
  <2>2. t.input \in {0, 1} /\ t.output \in {0, 1}
    OBVIOUS
  <2>3. CASE t.input = 0 /\ t.output = 0
    <3>1. Usage(l, t) = Metric("openai", "images", 1)
      BY <2>1, <2>3 DEF GptUsage
    <3> QED BY <1>7, <2>1, <3>1, MetricOne
  <2>4. CASE ~(t.input = 0 /\ t.output = 0)
    <3>1. ASSUME NEW u \in Usage(l, t) PROVE u.provider = "openai" /\ u.quantity > 0
      <4>1. PICK d \in {"input", "output"} : t[d] > 0 /\ u \in Metric("openai", d, t[d])
        BY <2>1, <2>4 DEF GptUsage
      <4>2. t[d] \in Nat
        BY <2>2
      <4> QED BY <4>1, <4>2, MetricOne
    <3>2. PICK d \in {"input", "output"} : t[d] > 0
      BY <2>2, <2>4
    <3>3. [provider |-> "openai", metric |-> d, quantity |-> t[d]] \in Usage(l, t)
      BY <2>1, <2>4, <3>2 DEF GptUsage, Metric
    <3> QED BY <1>7, <2>1, <3>1, <3>3
  <2> QED BY <2>3, <2>4
<1>8. CASE l.kind \in {"model_photoroom", "flat_photoroom", "ghost"}
  <2>1. Usage(l, t) = Metric("photoroom", "images", 1) /\ RowProvider(l) = "photoroom"
    BY <1>8 DEF Usage, EditUsage, RowProvider
  <2> QED BY <1>8, <2>1, MetricOne
<1>9. CASE l.kind = "finalize"
  <2>1. Usage(l, t) = Metric("photoroom", "images", 1)
    BY <1>9 DEF Usage, EditUsage
  <2>2. RowProvider(l) = IF l.removeBg THEN "photoroom" ELSE "local"
    BY <1>9 DEF RowProvider
  <2> QED BY <1>1, <1>9, <2>1, <2>2, MetricOne
<1> QED BY <1>1, <1>3, <1>4, <1>5, <1>6, <1>7, <1>8, <1>9 DEF Kinds

LEMMA InPart ==
  ASSUME NEW name, NEW x
  PROVE  \A p : p \in Part(name, x) <=> x \notin {Unset, ""} /\ p = <<name, x>>
BY DEF Part

\* The two translations of a wish, side by side.
LEMMA EnginesToldAlike ==
  ASSUME NEW q \in Requests, NEW s \in AccountDefaults, NEW department
  PROVE  EnginesAgree(q, s, department)
<1> DEFINE g == Gender(q, s, department)
           framing == Or(q.framing, s.framing)
           scene == Or(q.scene, s.scene)
           pose == Or(q.pose, s.pose)
           said == Instructions(q, s)
           f == FashnPrompt(q, s, g)
           v == VirtualModel(q, s, g)
           Shared(parts) == {p \in parts : p[1] \in {"gender", "dimensions", "instructions"}
                                           \/ p = <<"framing", "cropped_head">>}
<1>1. /\ GenerateModel("fashn", q, s, department, {"fashn", "photoroom"}).options = f
      /\ GenerateModel("photoroom", q, s, department, {"fashn", "photoroom"}).options = v
  BY DEF GenerateModel, Engine, Or, Unset
<1> SUFFICES ASSUME q.prompt = Unset
             PROVE  /\ Shared(f) = Shared(v.prompt)
                    /\ q.scenePreset = Unset /\ s.scenePreset = Unset =>
                         (v.scene = "studio" <=> <<"scene", "studio">> \in f)
                    /\ q.photoroomPose = Unset =>
                         (v.pose = Unset <=>
                            \A p \in f : p[1] = "pose" => p[2] \in {"profile_left", "profile_right"})
  BY <1>1 DEF EnginesAgree
<1>2. \A p : p \in f <=> \/ p = <<"scene", scene>> \/ p = <<"framing", framing>>
                         \/ g \notin {Unset, ""} /\ p = <<"gender", g>>
                         \/ pose \notin {Unset, ""} /\ p = <<"pose", pose>>
                         \/ q.dimensions \notin {Unset, ""} /\ p = <<"dimensions", q.dimensions>>
                         \/ said \notin {Unset, ""} /\ p = <<"instructions", said>>
  <2>1. f = {<<"scene", scene>>, <<"framing", framing>>} \cup Part("gender", g) \cup Part("pose", pose)
            \cup Part("dimensions", q.dimensions) \cup Part("instructions", said)
    BY DEF FashnPrompt
  <2> HIDE DEF f, g, framing, scene, pose, said
  <2>2. \A p : p \in f <=> \/ p = <<"scene", scene>> \/ p = <<"framing", framing>>
                           \/ p \in Part("gender", g) \/ p \in Part("pose", pose)
                           \/ p \in Part("dimensions", q.dimensions) \/ p \in Part("instructions", said)
    BY <2>1
  <2>3. \A p : p \in Part("gender", g) <=> g \notin {Unset, ""} /\ p = <<"gender", g>>
    BY InPart
  <2>4. \A p : p \in Part("dimensions", q.dimensions)
               <=> q.dimensions \notin {Unset, ""} /\ p = <<"dimensions", q.dimensions>>
    BY InPart
  <2>5. \A p : p \in Part("instructions", said) <=> said \notin {Unset, ""} /\ p = <<"instructions", said>>
    BY InPart
  <2>6. \A p : p \in Part("pose", pose) <=> pose \notin {Unset, ""} /\ p = <<"pose", pose>>
    BY InPart
  <2> QED BY <2>2, <2>3, <2>4, <2>5, <2>6
<1>3. \A p : p \in v.prompt <=> \/ framing = "cropped_head" /\ p = <<"framing", "cropped_head">>
                                \/ g \notin {Unset, ""} /\ p = <<"gender", g>>
                                \/ q.dimensions \notin {Unset, ""} /\ p = <<"dimensions", q.dimensions>>
                                \/ said \notin {Unset, ""} /\ p = <<"instructions", said>>
  <2>1. v.prompt = Part("gender", g)
              \cup (IF framing = "cropped_head" THEN {<<"framing", "cropped_head">>} ELSE {})
              \cup Part("dimensions", q.dimensions) \cup Part("instructions", said)
    BY DEF VirtualModel
  <2> HIDE DEF f, v, g, framing, scene, pose, said
  <2>2. \A p : p \in v.prompt <=>
          \/ framing = "cropped_head" /\ p = <<"framing", "cropped_head">>
          \/ p \in Part("gender", g) \/ p \in Part("dimensions", q.dimensions)
          \/ p \in Part("instructions", said)
    BY <2>1
  <2>3. \A p : p \in Part("gender", g) <=> g \notin {Unset, ""} /\ p = <<"gender", g>>
    BY InPart
  <2>4. \A p : p \in Part("dimensions", q.dimensions)
               <=> q.dimensions \notin {Unset, ""} /\ p = <<"dimensions", q.dimensions>>
    BY InPart
  <2>5. \A p : p \in Part("instructions", said) <=> said \notin {Unset, ""} /\ p = <<"instructions", said>>
    BY InPart
  <2> QED BY <2>2, <2>3, <2>4, <2>5
<1>4. /\ v.pose = Or(q.photoroomPose, PoseMap(pose))
      /\ v.scene = Or(Or(q.scenePreset, s.scenePreset), SceneMap(scene))
  BY DEF VirtualModel
<1>5. scene \in Scenes /\ framing \in Framings /\ pose \in {Unset} \cup Poses
  BY DEF Requests, AccountDefaults, Or
<1> HIDE DEF f, v, g, framing, scene, pose, said
<1>6. Shared(f) = Shared(v.prompt)
  <2>1. ASSUME NEW p PROVE p \in Shared(f) <=> p \in Shared(v.prompt)
    <3>1. p = <<"framing", framing>> /\ p = <<"framing", "cropped_head">> <=>
          framing = "cropped_head" /\ p = <<"framing", "cropped_head">>
      OBVIOUS
    <3>2. p = <<"scene", scene>> => p[1] = "scene" /\ p # <<"framing", "cropped_head">>
      OBVIOUS
    <3>3. p = <<"pose", pose>> => p[1] = "pose" /\ p # <<"framing", "cropped_head">>
      OBVIOUS
    <3>4. p = <<"framing", framing>> => p[1] = "framing"
      OBVIOUS
    <3> QED BY <1>2, <1>3, <3>1, <3>2, <3>3, <3>4
  <2> QED BY <2>1
<1>7. ASSUME q.scenePreset = Unset, s.scenePreset = Unset
      PROVE  v.scene = "studio" <=> <<"scene", "studio">> \in f
  <2>1. v.scene = SceneMap(scene)
    BY <1>4, <1>7 DEF Or
  <2>2. v.scene = "studio" <=> scene = "studio"
    BY <2>1, <1>5 DEF SceneMap, Scenes
  <2>3. <<"scene", "studio">> \in f <=> scene = "studio"
    <3>1. <<"scene", scene>> \in f
      BY <1>2
    <3>2. ASSUME <<"scene", "studio">> \in f PROVE scene = "studio"
      <4>1. \A x : <<"framing", x>> # <<"scene", "studio">> /\ <<"gender", x>> # <<"scene", "studio">>
                   /\ <<"pose", x>> # <<"scene", "studio">> /\ <<"dimensions", x>> # <<"scene", "studio">>
                   /\ <<"instructions", x>> # <<"scene", "studio">>
        OBVIOUS
      <4>2. <<"scene", "studio">> = <<"scene", scene>>
        BY <1>2, <3>2, <4>1
      <4> QED BY <4>2
    <3> QED BY <3>1, <3>2
  <2> QED BY <2>2, <2>3
<1>8. ASSUME q.photoroomPose = Unset
      PROVE  v.pose = Unset <=> \A p \in f : p[1] = "pose" => p[2] \in {"profile_left", "profile_right"}
  <2>1. v.pose = Unset <=> pose \in {Unset, "profile_left", "profile_right"}
    <3>1. v.pose = PoseMap(pose)
      BY <1>4, <1>8 DEF Or
    <3>2. \A o \in {Unset} \cup Poses : PoseMap(o) = Unset <=> o \in {Unset, "profile_left", "profile_right"}
      BY DEF PoseMap, Poses, Unset
    <3> QED BY <3>1, <3>2, <1>5
  <2>2. \A p \in f : p[1] = "pose" => pose \notin {Unset, ""} /\ p = <<"pose", pose>>
    <3>1. \A x : <<"framing", x>>[1] # "pose" /\ <<"gender", x>>[1] # "pose" /\ <<"scene", x>>[1] # "pose"
                 /\ <<"dimensions", x>>[1] # "pose" /\ <<"instructions", x>>[1] # "pose"
      OBVIOUS
    <3>2. ASSUME NEW p \in f, p[1] = "pose" PROVE pose \notin {Unset, ""} /\ p = <<"pose", pose>>
      <4>1. p # <<"scene", scene>> /\ p # <<"framing", framing>> /\ p # <<"gender", g>>
            /\ p # <<"dimensions", q.dimensions>> /\ p # <<"instructions", said>>
        BY <3>1, <3>2
      <4> QED BY <1>2, <4>1
    <3> QED BY <3>2
  <2>3. pose # Unset => <<"pose", pose>> \in f
    BY <1>2, <1>5 DEF Poses
  <2>4. \A p : p = <<"pose", pose>> => p[1] = "pose" /\ p[2] = pose
    OBVIOUS
  <2> QED BY <2>1, <2>2, <2>3, <2>4
<1> QED BY <1>6, <1>7, <1>8

\* The two translations of a flat lay.
LEMMA FlatToldAlike ==
  ASSUME NEW q \in FlatRequests  PROVE FlatEnginesAgree(q)
<1>1. q.views \in 0..4 /\ (q.color = Unset \/ q.color \notin {Unset, ""})
  BY StudioAssumption DEF FlatRequests, StudioAssumption
<1>2. ASSUME q.color # Unset
      PROVE  LET r == Recolor(q.color, q.views > 0, q.garment) IN
             r.from = "color" /\ <<"color", q.color>> \in FlatPrompt(q, "flat")
             /\ (r.target = Unset <=> Part("flat", q.garment) = {})
  <2>1. PICK r : r = Recolor(q.color, q.views > 0, q.garment)
    OBVIOUS
  <2>2. r.from = "color" /\ r.target = IF q.garment \in {Unset, ""} THEN Unset ELSE q.garment
    BY <2>1, <1>2 DEF Recolor
  <2>3. <<"color", q.color>> \in FlatPrompt(q, "flat")
    BY <1>1, <1>2, InPart DEF FlatPrompt
  <2>4. r.target = Unset <=> Part("flat", q.garment) = {}
    BY <2>2 DEF Part
  <2> QED BY <2>1, <2>2, <2>3, <2>4
<1>3. FlatPhotoroom(q).prompt \subseteq FlatGpt(q).prompt
  BY DEF FlatPhotoroom, FlatGpt
<1>4. FlatGpt(q).background = FlatPhotoroom(q).background
  BY DEF FlatPhotoroom, FlatGpt
<1>5. FlatGpt(q).images <= 4
  <2>1. PICK k \in 0..4 : k = q.views
    BY <1>1
  <2>2. FlatGpt(q).images = 1 + IF k > 3 THEN 3 ELSE k
    BY <2>1 DEF FlatGpt
  <2>3. (IF k > 3 THEN 3 ELSE k) \in 0..3
    OBVIOUS
  <2> QED BY <2>2, <2>3
<1> QED BY <1>2, <1>3, <1>4, <1>5 DEF FlatEnginesAgree

\* Whatever is asked of the studio, with whatever words, settings and department:
\* the debit is what the balance was asked for, the metering is of the provider of
\* the row (a finalisation: of Photoroom), and both engines are told the same.
THEOREM StudioTellsOneStory == StudioSpec => []StudioIsConsistent
<1> DEFINE Asked ==
      \/ studio = [asked |-> "nothing"]
      \/ \E l \in Launches : studio = [asked |-> "launch", launch |-> l]
      \/ \E q \in Requests, s \in AccountDefaults, d \in Departments :
           studio = [asked |-> "model photo", request |-> q, defaults |-> s, department |-> d]
      \/ \E q \in FlatRequests : studio = [asked |-> "flat lay", request |-> q]
<1>1. StudioInit => Asked
  BY DEF StudioInit
<1>2. Asked /\ [StudioNext]_studio => Asked'
  <2> SUFFICES ASSUME Asked, [StudioNext]_studio PROVE Asked'
    OBVIOUS
  <2>1. CASE UNCHANGED studio
    BY <2>1
  <2>2. CASE StudioNext
    BY <2>2, StudioAssumption DEF StudioNext, StudioAssumption, AskLaunch, AskModel, AskFlat
  <2> QED BY <2>1, <2>2
<1>3. Asked => StudioIsConsistent
  <2>1. ASSUME NEW l \in Launches, studio = [asked |-> "launch", launch |-> l]
        PROVE  StudioIsConsistent
    BY <2>1, LaunchDebits, LaunchMeters DEF StudioIsConsistent
  <2>2. ASSUME NEW q \in Requests, NEW s \in AccountDefaults, NEW d \in Departments,
               studio = [asked |-> "model photo", request |-> q, defaults |-> s, department |-> d]
        PROVE  StudioIsConsistent
    BY <2>2, EnginesToldAlike DEF StudioIsConsistent
  <2>3. ASSUME NEW q \in FlatRequests, studio = [asked |-> "flat lay", request |-> q]
        PROVE  StudioIsConsistent
    BY <2>3, FlatToldAlike DEF StudioIsConsistent
  <2>4. studio = [asked |-> "nothing"] => StudioIsConsistent
    BY DEF StudioIsConsistent
  <2> QED BY <2>1, <2>2, <2>3, <2>4
<1> QED BY <1>1, <1>2, <1>3, PTL DEF StudioSpec

=============================================================================
