---------------------------- MODULE ImagingAsset ----------------------------
(***************************************************************************)
(* One imaging operation of the studio: the image_asset row, its staged    *)
(* files, and the requests that work on it                                 *)
(* (backend/app/api/services/imaging.py, api/routes/imaging.py,            *)
(* imaging/staging.py, and the launches of api/routes/products.py).        *)
(*                                                                         *)
(* A launch writes the row and schedules a background run; the run calls   *)
(* the provider, stores the files and commits the result with its debit.   *)
(* Then requests re-render, finalise (paid), edit, reset, discard or save  *)
(* it.  Files are written before the commit that names them and removed    *)
(* after the commit that gives them up; nothing locks the row, so requests *)
(* overlap and the process may die between any two steps.                  *)
(***************************************************************************)
EXTENDS Naturals, FiniteSets

CONSTANTS
  Sessions,     \* concurrent requests on the asset
  Positions,    \* placements the reviewer can ask of a render
  Outputs,      \* numbers of images a launch can produce
  Refusals,     \* BOOLEAN: Tillin may answer 200 with fewer images
  MaxRequests, MaxSaves, MaxKills   \* bounds

ASSUME ImagingAssumption ==
  /\ Positions # {} /\ Outputs \subseteq Nat \ {0} /\ Refusals \in BOOLEAN
  /\ MaxRequests \in Nat /\ MaxSaves \in Nat /\ MaxKills \in Nat

VARIABLES
  verb,      \* "normalize" or "generate"
  row,       \* the image_asset row, committed
  disk,      \* staging directory: role -> content
  run,       \* the background run of the launch
  req,       \* what each request is doing, with what it read
  debits,    \* committed debits: processing and finalisations
  gallery,   \* the product in Tillin: new images, and is the original active
  expired,   \* the retention sweep has emptied the directory
  begun, saves, kills,  \* how many requests, uploads, process deaths happened
  clean      \* history: no two writers overlapped, none died after a store

vars == <<verb, row, disk, run, req, debits, gallery, expired, begun, saves, kills, clean>>

----------------------------------------------------------------------------
(* Files: what they show, told by how it was made.                         *)

Roles == {"source", "edit_base", "output"}

\* made: the provider's source (or cutout), a local composition, a finalised
\* image; at: the placement composed; edits: how many edits are baked in.
Content == [made : {"source", "render", "final"}, at : Positions, edits : 0..2]

NoFile == [made |-> "none"]

Home == CHOOSE p \in Positions : TRUE

Image(made, pos) == [made |-> made, at |-> pos, edits |-> 0]

\* edit_image: crop, turn or flip once more.
Edited(c) == [c EXCEPT !.edits = IF @ < 2 THEN @ + 1 ELSE 2]

Stored(r) == disk[r] # NoFile

EmptyDisk == [r \in Roles |-> NoFile]

----------------------------------------------------------------------------
(* The row.                                                                *)

\* params_json (placement, finalize, edit), staged_files_json (roles, outputs)
\* and tillin_image_ids_json (saved).
NoRow == [status |-> "absent", place |-> Home, finalized |-> FALSE,
          edit |-> FALSE, roles |-> {}, outputs |-> 0, saved |-> FALSE]

\* file_by_role(edit_base) or the output: what an edit starts from.
EditBase(r) == IF "edit_base" \in r.roles THEN "edit_base" ELSE "output"

Renderable(r) ==
  verb = "normalize" /\ r.status = "completed" /\ ~r.saved /\ "source" \in r.roles

CanEdit(r) == r.status = "completed" /\ ~r.saved /\ r.outputs = 1

Idle == [op |-> "none", step |-> "idle", row |-> NoRow, base |-> NoFile]

Busy(s) == req[s].step # "idle"

Init ==
  /\ verb \in {"normalize", "generate"}
  /\ row = NoRow
  /\ disk = EmptyDisk
  /\ run = "none"
  /\ req = [s \in Sessions |-> Idle]
  /\ debits = [process |-> 0, finalize |-> 0]
  /\ gallery = [new |-> 0, original |-> TRUE]
  /\ expired = FALSE
  /\ begun = 0 /\ saves = 0 /\ kills = 0
  /\ clean = TRUE

----------------------------------------------------------------------------
(* The launch and its background run.                                      *)

\* normalize_image, generate_*, swap_model, recolor, studio_process_images:
\* the row is committed pending and the run is scheduled.
Launch ==
  /\ row.status = "absent"
  /\ row' = [row EXCEPT !.status = "pending"]
  /\ run' = "scheduled"
  /\ UNCHANGED <<verb, disk, req, debits, gallery, expired, begun, saves, kills, clean>>

RunStart ==
  /\ run = "scheduled"
  /\ row' = [row EXCEPT !.status = "processing"]
  /\ run' = "started"
  /\ UNCHANGED <<verb, disk, req, debits, gallery, expired, begun, saves, kills, clean>>

\* _run_studio_job looks at the balance again before each image.
RunUnpaid ==
  /\ run = "scheduled" /\ verb = "normalize"
  /\ row' = [row EXCEPT !.status = "failed"]
  /\ run' = "none"
  /\ UNCHANGED <<verb, disk, req, debits, gallery, expired, begun, saves, kills, clean>>

\* The provider answered; the files are stored before anything is committed.
RunStore ==
  /\ run = "started"
  /\ disk' = [disk EXCEPT !["output"] = Image("render", Home),
                          !["source"] = IF verb = "normalize"
                                        THEN Image("source", Home) ELSE @]
  /\ run' = "stored"
  /\ UNCHANGED <<verb, row, req, debits, gallery, expired, begun, saves, kills, clean>>

\* stage_normalize_outcome or _run_generation: result and debit, one commit.
RunCommit ==
  /\ run = "stored"
  /\ \E n \in Outputs :
       /\ verb = "normalize" => n = 1
       /\ row' = [row EXCEPT !.status = "completed", !.outputs = n,
                    !.roles = IF verb = "normalize" THEN {"output", "source"}
                              ELSE {"output"}]
       /\ debits' = [debits EXCEPT !.process = @ + n]
  /\ run' = "none"
  /\ UNCHANGED <<verb, disk, req, gallery, expired, begun, saves, kills, clean>>

\* Fault: the failure is recorded without the rollback, the debit stays.
KeptDebits == [debits EXCEPT !.process = @ + 1]

\* The debits left by a run that fails: db.rollback() forgets them.
FailedRunDebits == debits

\* Fault: the exception of the provider is swallowed, nothing is recorded.
RunFailSilent ==
  /\ run \in {"started", "stored"}
  /\ run' = "none"
  /\ UNCHANGED <<verb, row, disk, req, debits, gallery, expired, begun, saves, kills, clean>>

RunFail ==
  /\ run \in {"started", "stored"}
  /\ row' = [row EXCEPT !.status = "failed"]
  /\ debits' = FailedRunDebits
  /\ run' = "none"
  /\ UNCHANGED <<verb, disk, req, gallery, expired, begun, saves, kills, clean>>

----------------------------------------------------------------------------
(* Requests that rewrite the output: render, finalize, edit, reset.        *)
(* Each reads the row and a base file, works, then write_output.           *)

Begin(s, op, r, base, step) ==
  /\ ~Busy(s) /\ begun < MaxRequests
  /\ begun' = begun + 1
  /\ req' = [req EXCEPT ![s] = [op |-> op, step |-> step, row |-> r, base |-> base]]
  /\ clean' = (clean /\ \A t \in Sessions \ {s} : ~Busy(t))
  /\ UNCHANGED <<verb, row, disk, run, debits, gallery, expired, saves, kills>>

\* Fault: a new placement keeps the mark of the finalisation it erases.
RenderedKeepsMark(r, p) == [r EXCEPT !.place = p]

\* Repositioning recomposes from the source and drops the finalisation.
Rendered(r, p) == [r EXCEPT !.place = p, !.finalized = FALSE]

BeginRender(s) ==
  /\ Renderable(row) /\ Stored("source")
  /\ \E p \in Positions :
       Begin(s, "render", Rendered(row, p), Image("render", p), "base")

\* The provider gets the current placement recomposed.
BeginFinalize(s) ==
  /\ Renderable(row) /\ Stored("source")
  /\ Begin(s, "finalize", [row EXCEPT !.finalized = TRUE],
           Image("final", row.place), "provider")

BeginEdit(s) ==
  /\ CanEdit(row) /\ Stored(EditBase(row))
  /\ Begin(s, "edit", [row EXCEPT !.edit = TRUE], disk[EditBase(row)], "base")

BeginReset(s) ==
  /\ CanEdit(row) /\ Stored(EditBase(row))
  /\ Begin(s, "reset", [row EXCEPT !.edit = FALSE], disk[EditBase(row)], "base")

Provider(s) ==
  /\ req[s].step = "provider"
  /\ \/ req' = [req EXCEPT ![s].step = "base"]
     \/ req' = [req EXCEPT ![s] = Idle]
  /\ UNCHANGED <<verb, row, disk, run, debits, gallery, expired, begun, saves, kills, clean>>

\* write_output: the base is kept apart as long as there is an edit.
StoreBase(s) ==
  /\ req[s].step = "base"
  /\ disk' = IF req[s].row.edit THEN [disk EXCEPT !["edit_base"] = req[s].base] ELSE disk
  /\ req' = [req EXCEPT ![s].step = "output"]
  /\ UNCHANGED <<verb, row, run, debits, gallery, expired, begun, saves, kills, clean>>

StoreOutput(s) ==
  /\ req[s].step = "output"
  /\ disk' = [disk EXCEPT !["output"] =
                IF req[s].row.edit THEN Edited(req[s].base) ELSE req[s].base]
  /\ req' = [req EXCEPT ![s].step = "commit"]
  /\ UNCHANGED <<verb, row, run, debits, gallery, expired, begun, saves, kills, clean>>

\* The columns the request assigned, and no other: params_json as it was read,
\* with this request's change; staged_files_json; and the debit of a finalize.
CommitOutput(s) ==
  /\ req[s].step = "commit"
  /\ LET r == req[s].row IN
       row' = [row EXCEPT !.place = r.place, !.finalized = r.finalized, !.edit = r.edit,
                 !.outputs = 1,
                 !.roles = (r.roles \ {"edit_base"}) \cup {"output"}
                             \cup (IF r.edit THEN {"edit_base"} ELSE {})]
  /\ debits' = IF req[s].op = "finalize"
               THEN [debits EXCEPT !.finalize = @ + 1] ELSE debits
  /\ req' = [req EXCEPT ![s] = Idle]
  /\ UNCHANGED <<verb, disk, run, gallery, expired, begun, saves, kills, clean>>

----------------------------------------------------------------------------
(* Discard and save: a commit, then the purge of the directory.            *)

Discardable(r) == ~r.saved /\ r.status \in {"completed", "failed"}

\* Fault: the directory is purged before the commit that gives it up.
BeginDiscardPurges(s) ==
  /\ Discardable(row) /\ ~Busy(s) /\ begun < MaxRequests
  /\ begun' = begun + 1
  /\ disk' = EmptyDisk
  /\ req' = [req EXCEPT ![s] = [op |-> "discard", step |-> "discard",
                               row |-> row, base |-> NoFile]]
  /\ UNCHANGED <<verb, row, run, debits, gallery, expired, saves, kills, clean>>

BeginDiscard(s) ==
  /\ Discardable(row)
  /\ Begin(s, "discard", row, NoFile, "discard")

CommitDiscard(s) ==
  /\ req[s].step = "discard"
  /\ row' = [row EXCEPT !.status = "discarded"]
  /\ req' = [req EXCEPT ![s].step = "purge"]
  /\ UNCHANGED <<verb, disk, run, debits, gallery, expired, begun, saves, kills, clean>>

BeginSave(s) ==
  /\ row.status = "completed" /\ ~row.saved /\ Stored("output")
  /\ saves < MaxSaves
  /\ Begin(s, "save", row, disk["output"], "upload")

\* How many of n images Tillin creates when it answers 200.
Created(n) == IF Refusals THEN 0..n ELSE {n}

\* Tillin imports the images, all or some; an error may come before or after.
Upload(s) ==
  /\ req[s].step = "upload"
  /\ saves' = saves + 1
  /\ \/ \E n \in Created(req[s].row.outputs) :
          /\ gallery' = [gallery EXCEPT !.new = @ + n]
          /\ \/ req' = [req EXCEPT ![s].step = "replace"]
             \/ req' = [req EXCEPT ![s].step = "saved"]
             \/ req' = [req EXCEPT ![s] = Idle]
     \/ /\ req' = [req EXCEPT ![s] = Idle]
        /\ UNCHANGED gallery
  /\ UNCHANGED <<verb, row, disk, run, debits, expired, begun, kills, clean>>

\* replace=true: the original is deactivated, then the position set (best
\* effort); a failure of the deactivation ends the request uncommitted.
Replace(s) ==
  /\ req[s].step = "replace"
  /\ \/ /\ gallery' = [gallery EXCEPT !.original = FALSE]
        /\ \/ req' = [req EXCEPT ![s].step = "saved"]
           \/ req' = [req EXCEPT ![s] = Idle]
     \/ /\ req' = [req EXCEPT ![s] = Idle]
        /\ UNCHANGED gallery
  /\ UNCHANGED <<verb, row, disk, run, debits, expired, begun, saves, kills, clean>>

CommitSave(s) ==
  /\ req[s].step = "saved"
  /\ row' = [row EXCEPT !.saved = TRUE]
  /\ req' = [req EXCEPT ![s].step = "purge"]
  /\ UNCHANGED <<verb, disk, run, debits, gallery, expired, begun, saves, kills, clean>>

\* staging.purge_asset: the whole directory, whoever wrote into it.
Purge(s) ==
  /\ req[s].step = "purge"
  /\ disk' = EmptyDisk
  /\ req' = [req EXCEPT ![s] = Idle]
  /\ UNCHANGED <<verb, row, run, debits, gallery, expired, begun, saves, kills, clean>>

----------------------------------------------------------------------------
(* The process dies; at the next start the sweep may find an old directory. *)

HasStored(s) == req[s].step \in {"output", "commit"}

Restart ==
  /\ kills < MaxKills
  /\ kills' = kills + 1
  /\ run' = "none"
  /\ req' = [s \in Sessions |-> Idle]
  /\ clean' = (clean /\ \A s \in Sessions : ~HasStored(s))
  /\ \/ UNCHANGED <<disk, expired>>
     \/ /\ disk # EmptyDisk
        /\ disk' = EmptyDisk
        /\ expired' = TRUE
  /\ UNCHANGED <<verb, row, debits, gallery, begun, saves>>

RunStep == RunStart \/ RunStore \/ RunCommit \/ RunFail

Next ==
  \/ Launch \/ RunStep \/ RunUnpaid
  \/ \E s \in Sessions :
       \/ BeginRender(s) \/ BeginFinalize(s) \/ BeginEdit(s) \/ BeginReset(s)
       \/ BeginDiscard(s) \/ BeginSave(s)
       \/ Provider(s) \/ StoreBase(s) \/ StoreOutput(s) \/ CommitOutput(s)
       \/ CommitDiscard(s) \/ Upload(s) \/ Replace(s) \/ CommitSave(s) \/ Purge(s)
  \/ Restart

Spec == Init /\ [][Next]_vars

\* A scheduled background task runs to its end unless the process dies.
FairSpec == Spec /\ WF_vars(RunStep)

----------------------------------------------------------------------------
(* Properties.                                                             *)

\* Every variable stays in its type.
TypeOK ==
  /\ verb \in {"normalize", "generate"}
  /\ row \in [status : {"absent", "pending", "processing", "completed", "failed",
                        "discarded"},
              place : Positions, finalized : BOOLEAN, edit : BOOLEAN,
              roles : SUBSET Roles, outputs : Nat, saved : BOOLEAN]
  /\ disk \in [Roles -> Content \cup {NoFile}]
  /\ run \in {"none", "scheduled", "started", "stored"}
  /\ DOMAIN req = Sessions
  /\ debits \in [process : Nat, finalize : Nat]
  /\ gallery \in [new : Nat, original : BOOLEAN]
  /\ expired \in BOOLEAN /\ clean \in BOOLEAN

AtRest == \A s \in Sessions : ~Busy(s)

\* With requests one after the other, in any order and number, the output shows
\* what the row says of it: placed where the row places it, finalised exactly
\* when the row says so, and edited once when an edit is kept and not at all
\* otherwise.  Re-editing never accumulates crops, a finalisation or a new
\* placement replays the edit, a reset gives back the base.
OutputMatchesRow ==
  clean /\ AtRest /\ row.status = "completed" /\ Stored("output") =>
    LET out == disk["output"] IN
      /\ out.made = IF row.finalized THEN "final" ELSE "render"
      /\ out.at = row.place
      /\ out.edits = IF row.edit THEN 1 ELSE 0
      /\ row.edit <=> "edit_base" \in row.roles
      /\ row.edit => Stored("edit_base") /\ disk["edit_base"].edits = 0

\* A result that was paid for and is neither saved nor discarded has its files,
\* whatever overlapped or died, until the retention sweep takes them.
ResultKept ==
  row.status = "completed" /\ ~row.saved /\ ~expired =>
    \A r \in row.roles : Stored(r)

\* Exactly the committed results are debited: a run that completed, by its
\* images; a run that failed or died, nothing; a finalised row, at least once.
DebitPerResult ==
  /\ row.status \in {"absent", "pending", "processing", "failed"} =>
       debits = [process |-> 0, finalize |-> 0]
  /\ row.status = "completed" =>
       debits.process = IF verb = "normalize" THEN 1 ELSE row.outputs
  /\ row.finalized => debits.finalize > 0

\* A replaced original is only gone when an image that replaces it was created.
OriginalReplaced == ~gallery.original => gallery.new > 0

\* A launch ends in a result or a failure unless the process dies: nothing
\* else leaves an asset in processing, which no request can discard.
LaunchSettles ==
  (row.status = "pending") ~> (row.status \in {"completed", "failed", "discarded"}
                                 \/ kills > 0)
=============================================================================
