------------------------------ MODULE ItemApply ------------------------------
(***************************************************************************)
(* One enrichment item from review to Tillin: what the pipeline stages on  *)
(* it, what the reviewer changes, the apply that writes it to the          *)
(* catalogue through several calls before its one database commit, and the *)
(* studio, which may save or discard the images normalized for the item.   *)
(*                                                                         *)
(* A request works on the row it loaded until it commits, and commits only *)
(* the columns it changed.  Requests that call a remote service on the way *)
(* (apply, normalize, resolve) are several steps; the others are one: how  *)
(* those interleave is EnrichmentQueue's subject.  Each staging of a text  *)
(* is a new version, so a value says which staging it comes from.  Of the  *)
(* fields only the two texts are kept; the price is SourceResolution's.    *)
(***************************************************************************)
EXTENDS Naturals, FiniteSets

CONSTANTS
  Images,        \* images of the product's source page
  MaxAssets,     \* bound: normalizations (image_asset ids 1..MaxAssets)
  Sessions,      \* API requests that may run at one time
  MaxVersions,   \* bound: stagings
  MaxAsked,      \* bound: re-propagations and studio saves of one image
  MaxFaults      \* bound: calls to Tillin that raise, requests killed with their process

ASSUME ApplyAssumption ==
  /\ IsFiniteSet(Images)
  /\ {MaxAssets, MaxVersions, MaxAsked, MaxFaults} \subseteq Nat

VARIABLES
  item,       \* the row: status, staged fields (version, 0 for NULL), entries, ...
  version,    \* stagings so far
  asset,      \* last image_asset id given
  made,       \* completed assets of each image
  closed,     \* assets discarded or saved in the studio
  files,      \* assets whose directory is in the staging store
  tillin,     \* the catalogue: copies of each image, versions of the fields
  asked,      \* history: explicit re-propagations and studio saves of each image
  session,    \* requests in flight
  failures, kills

vars == <<item, version, asset, made, closed, files, tillin, asked, session, failures, kills>>
studio == <<made, closed>>
bounds == <<studio, failures, kills>>

-----------------------------------------------------------------------------
Raw == 0                       \* an entry that is still the source URL
Absent == MaxAssets + 1        \* no entry staged for the image
Assets == 1..MaxAssets
Parts == Images \cup {"copy"}

Reviewable == {"ready_for_review", "approved"}
Retryable == {"ready_for_review", "rejected", "failed"}
Statuses == Reviewable \cup Retryable \cup {"pending", "applied"}

NoEntries == [i \in Images |-> Absent]
Blank ==
  [status |-> "pending", text |-> 0, html |-> 0,
   entries |-> NoEntries, keep |-> Parts, warned |-> FALSE]
Idle == [pc |-> "idle", row |-> Blank, sel |-> {}, todo |-> {}, warn |-> FALSE]

Free(s) == session[s].pc = "idle"
Begin(s, pc, S, todo) ==
  session' = [session EXCEPT ![s] =
                [pc |-> pc, row |-> item, sel |-> S, todo |-> todo, warn |-> FALSE]]
End(s) == session' = [session EXCEPT ![s] = Idle]

Init ==
  /\ item = Blank
  /\ version = 0 /\ asset = 0 /\ files = {}
  /\ made = [i \in Images |-> {}] /\ closed = {}
  /\ tillin = [images |-> [i \in Images |-> 0], text |-> 0, html |-> 0]
  /\ asked = [i \in Images |-> 0]
  /\ session = [s \in Sessions |-> Idle]
  /\ failures = 0 /\ kills = 0

\* The catalogue with one more copy of each image of S: its endpoints append.
WithImages(S) == [tillin EXCEPT !.images = [i \in Images |-> IF i \in S THEN @[i] + 1 ELSE @[i]]]

------------------------------ (* staging *) --------------------------------
\* One staging: entries e and, when it writes copy, the two texts.
Written(row, e, copy) ==
  [row EXCEPT !.entries = e,
              !.text = IF copy THEN version + 1 ELSE @,
              !.html = IF copy THEN version + 1 ELSE @]

\* The entries of a source page's images: the URLs, or, when the job asks for it
\* (auto_normalize), what Photoroom made of them: assets up to n, one each.
PageEntries(n) ==
  {e \in [Images -> {Raw, Absent} \cup (asset + 1)..n] :
     \A i, j \in Images : e[i] = e[j] /\ e[i] > asset /\ e[i] # Absent => i = j}

\* What one staging may write: images when it has a source page, the two texts when
\* it writes copy.
Staged(row, source, copy, n) ==
  {Written(row, e, copy) : e \in IF source THEN PageEntries(n) ELSE {row.entries}}

\* Asset ids used, with their files; one whose normalization failed has neither.
Normalized(n) ==
  LET new == (asset + 1)..n IN
  /\ asset' = n
  /\ made' = [i \in Images |-> made[i] \cup ({item'.entries[i]} \cap new)]
  /\ files' = files \cup ({item'.entries[i] : i \in Images} \cap new)

\* The worker runs the pipeline on the pending item; copy is withheld when the
\* source is unsure, and a source page may not be found.
Run ==
  /\ item.status = "pending" /\ version < MaxVersions
  /\ \E source, copy \in BOOLEAN : \E n \in asset..(IF source THEN MaxAssets ELSE asset) :
       /\ item' \in {[r EXCEPT !.status = "ready_for_review", !.warned = FALSE] :
                      r \in Staged(item, source, copy, n)}
       /\ Normalized(n)
  /\ version' = version + 1
  /\ UNCHANGED <<closed, tillin, asked, session, failures, kills>>

\* Every attempt failed.
RunGivesUp ==
  /\ item.status = "pending"
  /\ item' = [item EXCEPT !.status = "failed"]
  /\ UNCHANGED <<version, asset, files, tillin, asked, session, bounds>>

\* _reset_item_for_retry: staged_description_html and the stored selection are not
\* among the columns it clears, staged files are not purged.
Retry(s) ==
  /\ Free(s)
  /\ item.status \in Retryable
  /\ item' = [item EXCEPT !.status = "pending", !.text = 0, !.entries = NoEntries, !.warned = FALSE]
  /\ UNCHANGED <<version, asset, files, tillin, asked, session, bounds>>

------------------------------- (* review *) --------------------------------
\* approve and reject.
Review(s) ==
  /\ Free(s)
  /\ \/ item.status = "ready_for_review" /\ item' = [item EXCEPT !.status = "approved"]
     \/ /\ item.status \in {"ready_for_review", "approved", "failed"}
        /\ item' = [item EXCEPT !.status = "rejected"]
  /\ UNCHANGED <<version, asset, files, tillin, asked, session, bounds>>

\* resolve, generate-copy and patch: fetch or write, then commit the new values.
LoadRestage(s) ==
  /\ Free(s) /\ item.status \in Reviewable
  /\ Begin(s, "restage", {}, {})
  /\ UNCHANGED <<item, version, asset, files, tillin, asked, bounds>>

CommitRestage(s) ==
  /\ session[s].pc = "restage" /\ version < MaxVersions
  /\ \/ \E n \in asset..MaxAssets :
          /\ item' \in {[r EXCEPT !.warned = FALSE] : r \in Staged(item, TRUE, TRUE, n)}
          /\ Normalized(n)
     \/ item' \in Staged(item, FALSE, TRUE, asset) /\ Normalized(asset)
  /\ version' = version + 1
  /\ End(s)
  /\ UNCHANGED <<closed, tillin, asked, failures, kills>>

\* normalize_item_image: Photoroom works on one raw entry of the loaded row ...
LoadNormalize(s) ==
  /\ Free(s) /\ item.status \in Reviewable /\ asset < MaxAssets
  /\ \E i \in Images : item.entries[i] = Raw /\ Begin(s, "normalize", {i}, {asset + 1})
  /\ asset' = asset + 1
  /\ UNCHANGED <<item, version, files, tillin, asked, bounds>>

\* ... and the whole list of the loaded row is written back.
CommitNormalize(s) ==
  LET r == session[s] IN
  /\ r.pc = "normalize"
  /\ files' = files \cup r.todo
  /\ made' = [i \in Images |-> IF i \in r.sel THEN made[i] \cup r.todo ELSE made[i]]
  /\ \E a \in r.todo :
       item' = [item EXCEPT !.entries =
                  [i \in Images |-> IF i \in r.sel THEN a ELSE r.row.entries[i]]]
  /\ End(s)
  /\ UNCHANGED <<version, asset, closed, tillin, asked, failures, kills>>

\* Photoroom cannot process the image (502) or the page has no product (422):
\* nothing is committed.
EditFails(s) ==
  /\ session[s].pc \in {"normalize", "restage"}
  /\ End(s)
  /\ UNCHANGED <<item, version, asset, files, tillin, asked, bounds>>

\* Fault: a revert that deletes the files of all the item's images.
RevertPurgesAll(s) ==
  /\ Free(s) /\ item.status \in Reviewable
  /\ \E i \in Images :
       /\ item.entries[i] \in Assets
       /\ files' = {}
       /\ Begin(s, "revert", {i}, {})
  /\ UNCHANGED <<item, version, asset, tillin, asked, bounds>>

\* The revert of a normalized entry deletes its file ...
RevertPurges(s) ==
  /\ Free(s) /\ item.status \in Reviewable
  /\ \E i \in Images :
       /\ item.entries[i] \in Assets
       /\ files' = files \ {item.entries[i]}
       /\ Begin(s, "revert", {i}, {})
  /\ UNCHANGED <<item, version, asset, tillin, asked, bounds>>

\* ... and then commits the entry that no longer needs it.
CommitRevert(s) ==
  LET r == session[s] IN
  /\ r.pc = "revert"
  /\ item' = [item EXCEPT !.entries =
                [i \in Images |-> IF i \in r.sel THEN Raw ELSE r.row.entries[i]]]
  /\ End(s)
  /\ UNCHANGED <<version, asset, files, tillin, asked, bounds>>

------------------------------- (* studio *) -------------------------------
\* The image of an asset the studio still offers: completed, not discarded, not saved.
Offered(i, a) == a \in made[i] \ closed

\* POST /imaging/assets/{id}/discard: nothing asks whether an item uses the asset.
Discard(s) ==
  /\ Free(s)
  /\ \E i \in Images, a \in Assets :
       /\ Offered(i, a)
       /\ closed' = closed \cup {a} /\ files' = files \ {a}
  /\ UNCHANGED <<item, version, asset, made, tillin, asked, session, failures, kills>>

\* POST /imaging/assets/{id}/save: the staged image is uploaded to the product; the
\* answer is not compared with what was sent ...
SaveUploads(s) ==
  /\ Free(s)
  /\ \E i \in Images, a \in files :
       /\ Offered(i, a) /\ asked[i] < MaxAsked
       /\ asked' = [asked EXCEPT ![i] = @ + 1]
       /\ tillin' \in {tillin, WithImages({i})}
       /\ \/ Begin(s, "saved", {i}, {a}) /\ UNCHANGED failures
          \/ /\ failures + kills < MaxFaults /\ failures' = failures + 1
             /\ UNCHANGED session
  /\ UNCHANGED <<item, version, asset, studio, files, kills>>

\* ... then the asset is marked as saved and its file deleted.
SavePurges(s) ==
  LET r == session[s] IN
  /\ r.pc = "saved"
  /\ closed' = closed \cup r.todo /\ files' = files \ r.todo
  /\ End(s)
  /\ UNCHANGED <<item, version, asset, made, tillin, asked, failures, kills>>

-------------------------------- (* apply *) --------------------------------
Pushed(r) == {i \in Images : i \in r.sel /\ r.row.entries[i] # Absent}
AssetsOf(r, S) == {r.row.entries[i] : i \in S} \cap Assets

\* apply_item: an approved item with any selection (the stored one by default),
\* an applied one with an explicit selection.
LoadApply(s) ==
  /\ Free(s)
  /\ \/ /\ item.status = "approved"
        /\ \E S \in SUBSET Parts : Begin(s, "upload", S, {})
        /\ UNCHANGED asked
     \/ /\ item.status = "applied"
        /\ \E S \in SUBSET Parts \ {{}} :
             /\ \A i \in S \cap Images : asked[i] < MaxAsked
             /\ Begin(s, "upload", S, {})
             /\ asked' = [i \in Images |-> IF i \in S THEN asked[i] + 1 ELSE asked[i]]
  /\ UNCHANGED <<item, version, asset, files, tillin, bounds>>

\* A staged file is missing: 409 before any write.
StagingMissing(s) ==
  LET r == session[s] IN
  /\ r.pc = "upload"
  /\ ~(AssetsOf(r, Pushed(r)) \subseteq files)
  /\ End(s)
  /\ UNCHANGED <<item, version, asset, files, tillin, asked, bounds>>

\* Images the upload can take: every normalized one, the raw ones of D that
\* could be downloaded.  The others go by URL.
Uploadable(r, D) == {i \in Pushed(r) : r.row.entries[i] \in Assets \/ i \in D}

\* Faults: an upload that counts as complete whatever Tillin created; one that
\* forgets which images are left for the URL push.
UploadUnchecked(s) ==
  LET r == session[s] IN
  /\ r.pc = "upload" /\ AssetsOf(r, Pushed(r)) \subseteq files
  /\ \E D \in SUBSET Pushed(r) : \E C \in SUBSET Uploadable(r, D) :
       /\ tillin' = WithImages(C)
       /\ files' = files \ AssetsOf(r, Uploadable(r, D))
       /\ session' = [session EXCEPT ![s].pc = "urls", ![s].todo = Pushed(r) \ Uploadable(r, D)]
  /\ UNCHANGED <<item, version, asset, asked, bounds>>
UploadTwice(s) ==
  LET r == session[s] IN
  /\ r.pc = "upload" /\ AssetsOf(r, Pushed(r)) \subseteq files
  /\ \E D \in SUBSET Pushed(r) :
       /\ tillin' = WithImages(Uploadable(r, D))
       /\ session' = [session EXCEPT ![s].pc = "urls", ![s].todo = Pushed(r)]
  /\ UNCHANGED <<item, version, asset, files, asked, bounds>>

\* One multipart call.  Tillin creates some of the images (C); only when it
\* created all of them are the staged files deleted.
Upload(s) ==
  LET r == session[s] IN
  /\ r.pc = "upload" /\ AssetsOf(r, Pushed(r)) \subseteq files
  /\ \E D \in SUBSET Pushed(r) : \E C \in SUBSET Uploadable(r, D) :
       /\ tillin' = WithImages(C)
       /\ files' = IF C = Uploadable(r, D) THEN files \ AssetsOf(r, C) ELSE files
       /\ session' = [session EXCEPT
                        ![s].pc = "urls",
                        ![s].todo = Pushed(r) \ Uploadable(r, D),
                        ![s].warn = (C # Uploadable(r, D))]
  /\ UNCHANGED <<item, version, asset, asked, bounds>>

\* The images that could not be downloaded are pushed by URL.
PushUrls(s) ==
  LET r == session[s] IN
  /\ r.pc = "urls"
  /\ \E C \in SUBSET r.todo :
       /\ tillin' = WithImages(C)
       /\ session' = [session EXCEPT ![s].pc = "copy", ![s].warn = @ \/ C # r.todo]
  /\ UNCHANGED <<item, version, asset, files, asked, bounds>>

\* The catalogue after enrich_product: values that are NULL are not sent.
Enriched(r) ==
  [tillin EXCEPT !.text = IF r.row.text = 0 THEN @ ELSE r.row.text,
                 !.html = IF r.row.html = 0 THEN @ ELSE r.row.html]

WriteCopy(s) ==
  LET r == session[s] IN
  /\ r.pc = "copy"
  /\ tillin' = IF "copy" \in r.sel THEN Enriched(r) ELSE tillin
  /\ session' = [session EXCEPT ![s].pc = "commit"]
  /\ UNCHANGED <<item, version, asset, files, asked, bounds>>

\* Only now is anything of it recorded: status, selection and warnings.
CommitApply(s) ==
  LET r == session[s] IN
  /\ r.pc = "commit"
  /\ item' = [item EXCEPT !.keep = r.sel, !.warned = r.warn,
                          !.status = IF r.row.status = "applied" THEN @ ELSE "applied"]
  /\ End(s)
  /\ UNCHANGED <<version, asset, files, tillin, asked, bounds>>

\* A call raises, before or after Tillin took it (a timeout): the request rolls
\* back its row; what Tillin did and the deleted files stay.
CallFails(s) ==
  LET r == session[s] IN
  /\ failures + kills < MaxFaults /\ failures' = failures + 1
  /\ \/ /\ r.pc = "upload" /\ AssetsOf(r, Pushed(r)) \subseteq files
        /\ \E C \in SUBSET Pushed(r) : tillin' = WithImages(C)
     \/ r.pc = "urls" /\ \E C \in SUBSET r.todo : tillin' = WithImages(C)
     \/ r.pc = "copy" /\ "copy" \in r.sel /\ tillin' \in {tillin, Enriched(r)}
  /\ End(s)
  /\ UNCHANGED <<item, version, asset, studio, files, asked, kills>>

\* The process dies under a request.
Kill(s) ==
  /\ ~Free(s) /\ failures + kills < MaxFaults
  /\ kills' = kills + 1
  /\ End(s)
  /\ UNCHANGED <<item, version, asset, studio, files, tillin, asked, failures>>

-----------------------------------------------------------------------------
Edit(s) ==
  \/ LoadRestage(s) \/ CommitRestage(s)
  \/ LoadNormalize(s) \/ CommitNormalize(s) \/ EditFails(s)
  \/ RevertPurges(s) \/ CommitRevert(s)

Apply(s) ==
  \/ LoadApply(s) \/ StagingMissing(s) \/ Upload(s) \/ PushUrls(s)
  \/ WriteCopy(s) \/ CommitApply(s) \/ CallFails(s)

Studio(s) == Discard(s) \/ SaveUploads(s) \/ SavePurges(s)

Next ==
  \/ Run \/ RunGivesUp
  \/ \E s \in Sessions : Retry(s) \/ Review(s) \/ Edit(s) \/ Apply(s) \/ Studio(s) \/ Kill(s)

Spec == Init /\ [][Next]_vars

-----------------------------------------------------------------------------
Version == 0..MaxVersions
Row ==
  [status : Statuses, text : Version, html : Version,
   entries : [Images -> Assets \cup {Raw, Absent}], keep : SUBSET Parts, warned : BOOLEAN]

TypeOK ==
  /\ item \in Row
  /\ version \in Nat /\ asset \in 0..MaxAssets
  /\ made \in [Images -> SUBSET Assets] /\ closed \subseteq Assets /\ files \subseteq Assets
  /\ tillin \in [images : [Images -> Nat], text : Version, html : Version]
  /\ asked \in [Images -> Nat]
  /\ \A s \in Sessions :
       /\ session[s].pc \in
            {"idle", "restage", "normalize", "revert", "saved", "upload", "urls", "copy", "commit"}
       /\ session[s].row \in Row /\ session[s].warn \in BOOLEAN
  /\ failures \in Nat /\ kills \in Nat

Quiet == \A s \in Sessions : Free(s)

\* The images endpoint appends and nothing remembers what an interrupted apply
\* had sent: the gallery gets an image once for the approval, once for each
\* re-propagation or studio save somebody asked for, and once more for each
\* request that broke off between its calls - never more.
NoDuplicateImage == \A i \in Images : tillin.images[i] <= 1 + asked[i] + failures + kills

\* As long as no call has failed and no request was killed, an entry under review
\* that is a normalized image still has its file: without it the item can no
\* longer be applied.  Except for an image discarded or saved in the studio: it
\* takes the file away and leaves the entry, with no failure and no overlap.
NoDanglingEntry ==
  (Quiet /\ failures + kills = 0 /\ item.status \in Reviewable) =>
    \A i \in Images : item.entries[i] \in Assets \ closed => item.entries[i] \in files

\* Whatever calls fail, the apply and the edits delete the only copy of a normalized
\* image once the image is in the gallery, not before.  A revert under way, or killed
\* between its purge and its commit, has deleted a file it no longer wants; so has
\* the studio with an image it discarded or saved (`closed').
NoLostImage ==
  (kills = 0 /\ ~(\E s \in Sessions : session[s].pc = "revert")) =>
    \A i \in Images :
      item.entries[i] \in Assets \ (closed \cup files) => tillin.images[i] > 0

\* `applied' without a warning means that the catalogue has what the item says:
\* every selected image, and the staged copy.
AppliedReached ==
  (Quiet /\ item.status = "applied" /\ ~item.warned) =>
    /\ \A i \in item.keep \cap Images : item.entries[i] # Absent => tillin.images[i] > 0
    /\ "copy" \in item.keep =>
         /\ item.text \in {0, tillin.text}
         /\ item.html \in {0, tillin.html}
=============================================================================
