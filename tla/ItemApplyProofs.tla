--------------------------- MODULE ItemApplyProofs ---------------------------
(***************************************************************************)
(* What the review and the apply of one item guarantee for any number of   *)
(* images, normalizations, stagings and faults, as long as requests on the *)
(* item do not overlap: the handlers hold no lock between reading the row  *)
(* and committing it, and overlapping ones undo each other's work.         *)
(***************************************************************************)
EXTENDS ItemApply, TLAPS

-----------------------------------------------------------------------------
(* Records of the row, of the catalogue and of a request *)

IsRow(r) ==
  /\ r = [status |-> r.status, text |-> r.text, html |-> r.html,
          entries |-> r.entries, keep |-> r.keep, warned |-> r.warned]
  /\ r.entries \in [Images -> Assets \cup {Raw, Absent}]

IsCatalogue(t) ==
  /\ t = [images |-> t.images, text |-> t.text, html |-> t.html]
  /\ t.images \in [Images -> Nat]

IsRequest(r) ==
  r = [pc |-> r.pc, row |-> r.row, sel |-> r.sel, todo |-> r.todo, warn |-> r.warn]

Shaped(s) ==
  /\ IsRow(item) /\ IsCatalogue(tillin) /\ asked \in [Images -> Nat]
  /\ asset \in Nat /\ asset <= MaxAssets /\ failures \in Nat /\ kills \in Nat
  /\ DOMAIN session = {s} /\ IsRequest(session[s])

\* The numbers of staged images are none of the marks of an entry.
LEMMA Marks == MaxAssets \in Nat /\ Raw \notin Assets /\ Absent \notin Assets /\ Raw # Absent
BY ApplyAssumption DEF ApplyAssumption, Raw, Absent, Assets

\* One column of the row is written.
LEMMA ColumnPut ==
  ASSUME NEW r, IsRow(r), NEW x, NEW q
  PROVE  /\ q = [r EXCEPT !.status = x] =>
              /\ IsRow(q) /\ q.status = x /\ q.text = r.text /\ q.html = r.html
              /\ q.entries = r.entries /\ q.keep = r.keep /\ q.warned = r.warned
         /\ q = [r EXCEPT !.text = x] =>
              /\ IsRow(q) /\ q.status = r.status /\ q.text = x /\ q.html = r.html
              /\ q.entries = r.entries /\ q.keep = r.keep /\ q.warned = r.warned
         /\ q = [r EXCEPT !.html = x] =>
              /\ IsRow(q) /\ q.status = r.status /\ q.text = r.text /\ q.html = x
              /\ q.entries = r.entries /\ q.keep = r.keep /\ q.warned = r.warned
         /\ q = [r EXCEPT !.entries = x] =>
              /\ x \in [Images -> Assets \cup {Raw, Absent}] => IsRow(q)
              /\ q.status = r.status /\ q.text = r.text /\ q.html = r.html
              /\ q.entries = x /\ q.keep = r.keep /\ q.warned = r.warned
         /\ q = [r EXCEPT !.keep = x] =>
              /\ IsRow(q) /\ q.status = r.status /\ q.text = r.text /\ q.html = r.html
              /\ q.entries = r.entries /\ q.keep = x /\ q.warned = r.warned
         /\ q = [r EXCEPT !.warned = x] =>
              /\ IsRow(q) /\ q.status = r.status /\ q.text = r.text /\ q.html = r.html
              /\ q.entries = r.entries /\ q.keep = r.keep /\ q.warned = x
<1>1. PICK st, t, h, e, k, w :
        /\ r = [status |-> st, text |-> t, html |-> h, entries |-> e, keep |-> k, warned |-> w]
        /\ e \in [Images -> Assets \cup {Raw, Absent}]
  BY DEF IsRow
<1>2. q = [r EXCEPT !.status = x] =>
        q = [status |-> x, text |-> t, html |-> h, entries |-> e, keep |-> k, warned |-> w]
  BY <1>1
<1>3. q = [r EXCEPT !.text = x] =>
        q = [status |-> st, text |-> x, html |-> h, entries |-> e, keep |-> k, warned |-> w]
  BY <1>1
<1>4. q = [r EXCEPT !.html = x] =>
        q = [status |-> st, text |-> t, html |-> x, entries |-> e, keep |-> k, warned |-> w]
  BY <1>1
<1>5. q = [r EXCEPT !.entries = x] =>
        q = [status |-> st, text |-> t, html |-> h, entries |-> x, keep |-> k, warned |-> w]
  BY <1>1
<1>6. q = [r EXCEPT !.keep = x] =>
        q = [status |-> st, text |-> t, html |-> h, entries |-> e, keep |-> x, warned |-> w]
  BY <1>1
<1>7. q = [r EXCEPT !.warned = x] =>
        q = [status |-> st, text |-> t, html |-> h, entries |-> e, keep |-> k, warned |-> x]
  BY <1>1
<1>8. QED BY <1>1, <1>2, <1>3, <1>4, <1>5, <1>6, <1>7 DEF IsRow

\* A request starts on the row as it is, or ends.
LEMMA RequestMoves ==
  ASSUME NEW s, Shaped(s)
  PROVE  /\ \A pc, S, t : Begin(s, pc, S, t) =>
              /\ DOMAIN session' = {s} /\ IsRequest(session'[s])
              /\ session'[s].pc = pc /\ session'[s].row = item /\ session'[s].sel = S
              /\ session'[s].todo = t /\ session'[s].warn = FALSE
         /\ End(s) => DOMAIN session' = {s} /\ IsRequest(session'[s]) /\ session'[s].pc = "idle"
<1>1. ASSUME NEW pc, NEW S, NEW t, Begin(s, pc, S, t)
      PROVE  /\ DOMAIN session' = {s} /\ IsRequest(session'[s])
             /\ session'[s].pc = pc /\ session'[s].row = item /\ session'[s].sel = S
             /\ session'[s].todo = t /\ session'[s].warn = FALSE
  <2>1. session'[s] = [pc |-> pc, row |-> item, sel |-> S, todo |-> t, warn |-> FALSE]
    BY <1>1 DEF Begin, Shaped
  <2>2. DOMAIN session' = {s}
    BY <1>1 DEF Begin, Shaped
  <2>3. QED BY <2>1, <2>2 DEF IsRequest
<1>2. ASSUME End(s)
      PROVE  DOMAIN session' = {s} /\ IsRequest(session'[s]) /\ session'[s].pc = "idle"
  <2>1. session'[s] = Idle /\ DOMAIN session' = {s}
    BY <1>2 DEF End, Shaped
  <2>2. QED BY <2>1 DEF Idle, IsRequest
<1>3. QED BY <1>1, <1>2

\* A request moves on, with what it still has to push and what went wrong.
LEMMA RequestGoesOn ==
  ASSUME NEW s, Shaped(s), NEW pc, NEW t, NEW w,
         \/ session' = [session EXCEPT ![s].pc = pc, ![s].todo = t, ![s].warn = w]
         \/ session' = [session EXCEPT ![s].pc = pc, ![s].warn = w] /\ t = session[s].todo
         \/ session' = [session EXCEPT ![s].pc = pc] /\ t = session[s].todo /\ w = session[s].warn
  PROVE  /\ DOMAIN session' = {s} /\ IsRequest(session'[s])
         /\ session'[s].pc = pc /\ session'[s].row = session[s].row
         /\ session'[s].sel = session[s].sel
         /\ session'[s].todo = t /\ session'[s].warn = w
<1>1. PICK p, r, e, o, a : session[s] = [pc |-> p, row |-> r, sel |-> e, todo |-> o, warn |-> a]
  BY DEF Shaped, IsRequest
<1>2. PICK f : f = [session EXCEPT ![s].pc = pc]
  OBVIOUS
<1>3. f[s] = [pc |-> pc, row |-> r, sel |-> e, todo |-> o, warn |-> a] /\ DOMAIN f = {s}
  BY <1>1, <1>2 DEF Shaped
<1>4. PICK g : g = [f EXCEPT ![s].todo = t]
  OBVIOUS
<1>5. g[s] = [pc |-> pc, row |-> r, sel |-> e, todo |-> t, warn |-> a] /\ DOMAIN g = {s}
  BY <1>3, <1>4
<1>6. \/ session' = [g EXCEPT ![s].warn = w]
      \/ session' = [f EXCEPT ![s].warn = w] /\ t = o
      \/ session' = f /\ t = o /\ w = a
  BY <1>1, <1>2, <1>4
<1>7. session'[s] = [pc |-> pc, row |-> r, sel |-> e, todo |-> t, warn |-> w] /\ DOMAIN session' = {s}
  BY <1>3, <1>5, <1>6
<1>8. QED BY <1>1, <1>7 DEF IsRequest

\* Images reach the catalogue.
LEMMA ImagesSent ==
  ASSUME IsCatalogue(tillin), NEW S, tillin' = WithImages(S)
  PROVE  /\ IsCatalogue(tillin') /\ tillin'.text = tillin.text /\ tillin'.html = tillin.html
         /\ \A i \in Images : tillin'.images[i] = IF i \in S THEN tillin.images[i] + 1
                                                  ELSE tillin.images[i]
<1>1. PICK m, t, h : /\ tillin = [images |-> m, text |-> t, html |-> h]
                        /\ m \in [Images -> Nat]
  BY DEF IsCatalogue
<1>2. PICK n : n = [i \in Images |-> IF i \in S THEN m[i] + 1 ELSE m[i]]
  OBVIOUS
<1>3. tillin' = [images |-> n, text |-> t, html |-> h]
  BY <1>1, <1>2 DEF WithImages
<1>4. n \in [Images -> Nat]
  BY <1>1, <1>2
<1>5. QED BY <1>1, <1>2, <1>3, <1>4 DEF IsCatalogue

\* The copy reaches the catalogue: the values that are not NULL.
LEMMA CopySent ==
  ASSUME IsCatalogue(tillin), NEW r, tillin' = Enriched(r)
  PROVE  /\ IsCatalogue(tillin') /\ tillin'.images = tillin.images
         /\ tillin'.text = IF r.row.text = 0 THEN tillin.text ELSE r.row.text
         /\ tillin'.html = IF r.row.html = 0 THEN tillin.html ELSE r.row.html
<1>1. PICK m, t, h : /\ tillin = [images |-> m, text |-> t, html |-> h]
                        /\ m \in [Images -> Nat]
  BY DEF IsCatalogue
<1>2. PICK x, y : /\ x = IF r.row.text = 0 THEN t ELSE r.row.text
                  /\ y = IF r.row.html = 0 THEN h ELSE r.row.html
  OBVIOUS
<1>3. PICK u : u = [tillin EXCEPT !.text = x]
  OBVIOUS
<1>4. u = [images |-> m, text |-> x, html |-> h]
  BY <1>1, <1>3
<1>5. tillin' = [u EXCEPT !.html = y]
  BY <1>1, <1>2, <1>3 DEF Enriched
<1>6. tillin' = [images |-> m, text |-> x, html |-> y]
  BY <1>4, <1>5
<1>7. QED BY <1>1, <1>2, <1>6 DEF IsCatalogue

\* What a staging leaves on the row: its state and its selection stay, and its entries
\* stay or are those of a source page.
LEMMA StagedRow ==
  ASSUME NEW r, IsRow(r), NEW source, NEW copy, NEW n \in Nat, n <= MaxAssets,
         NEW q \in Staged(r, source, copy, n), asset \in Nat
  PROVE  /\ IsRow(q) /\ q.status = r.status /\ q.keep = r.keep /\ q.warned = r.warned
         /\ IF source THEN q.entries \in PageEntries(n) ELSE q.entries = r.entries
<1>1. PICK st, t, h, e, k, w :
        /\ r = [status |-> st, text |-> t, html |-> h, entries |-> e, keep |-> k, warned |-> w]
        /\ e \in [Images -> Assets \cup {Raw, Absent}]
  BY DEF IsRow
<1>2. PICK f, y, z :
        /\ IF source THEN f \in PageEntries(n) ELSE f = e
        /\ q = [r EXCEPT !.entries = f, !.text = y, !.html = z]
  <2>1. PICK f \in (IF source THEN PageEntries(n) ELSE {r.entries}) : q = Written(r, f, copy)
    BY DEF Staged
  <2>2. PICK y, z : /\ y = (IF copy THEN version + 1 ELSE r.text)
                    /\ z = (IF copy THEN version + 1 ELSE r.html)
    OBVIOUS
  <2>3. q = [r EXCEPT !.entries = f, !.text = y, !.html = z]
    BY <2>1, <2>2 DEF Written
  <2>4. IF source THEN f \in PageEntries(n) ELSE f = e
    BY <1>1, <2>1
  <2>5. QED BY <2>3, <2>4
<1>3. PICK a : a = [r EXCEPT !.entries = f]
  OBVIOUS
<1>4. a = [status |-> st, text |-> t, html |-> h, entries |-> f, keep |-> k, warned |-> w]
  BY <1>1, <1>3
<1>5. PICK c : c = [a EXCEPT !.text = y]
  OBVIOUS
<1>6. c = [status |-> st, text |-> y, html |-> h, entries |-> f, keep |-> k, warned |-> w]
  BY <1>4, <1>5
<1>7. q = [c EXCEPT !.html = z]
  BY <1>2, <1>3, <1>5
<1>8. q = [status |-> st, text |-> y, html |-> z, entries |-> f, keep |-> k, warned |-> w]
  BY <1>6, <1>7
<1>9. f \in [Images -> Assets \cup {Raw, Absent}]
  <2>1. CASE source
    <3>1. (asset + 1)..n \subseteq Assets
      BY Marks DEF Assets
    <3>2. QED BY <1>2, <2>1, <3>1 DEF PageEntries
  <2>2. QED BY <1>1, <1>2, <2>1
<1>10. QED BY <1>1, <1>2, <1>8, <1>9 DEF IsRow

-----------------------------------------------------------------------------
(* The inductive invariant *)

Applying == {"upload", "urls", "copy", "commit"}
Editing == {"restage", "normalize", "revert"}

\* The request under way works on the row as it still is; the file a normalization
\* is writing is new, and no two entries share a file.
Serial(s) ==
  LET r == session[s] IN
  /\ r.pc \in {"idle", "saved"} \cup Editing \cup Applying
  /\ r.pc \in Editing \cup Applying => r.row = item
  /\ r.pc \in Editing => item.status \in Reviewable
  /\ r.pc \in Applying => item.status \in {"approved", "applied"}
  /\ r.pc = "normalize" => /\ r.todo = {asset} /\ asset \in Assets
                           /\ \A i \in Images : item.entries[i] # asset
                           /\ \A i, j \in r.sel : i = j
  /\ r.pc = "urls" => r.todo \subseteq Pushed(r)

Entries ==
  /\ item.status = "pending" => \A i \in Images : item.entries[i] \notin Assets
  /\ \A i \in Images : item.entries[i] \in Assets => item.entries[i] <= asset
  /\ \A i, j \in Images : item.entries[i] \in Assets /\ item.entries[i] = item.entries[j] => i = j

Debts(i) == asked[i] + failures + kills

\* The copies of an image in the gallery, by how far the apply has come.
Counted(s) ==
  \A i \in Images :
    /\ tillin.images[i] <= 1 + Debts(i)
    /\ session[s].pc \notin {"urls", "copy", "commit"} /\ item.status # "applied" =>
         tillin.images[i] <= Debts(i)
    /\ session[s].pc = "upload" /\ i \in session[s].sel => tillin.images[i] <= Debts(i)
    /\ session[s].pc = "urls" /\ i \in session[s].todo => tillin.images[i] <= Debts(i)

\* An entry without its file: reverted right now, or sent, or taken by the studio.
Backed(s) ==
  \A i \in Images : item.entries[i] \in Assets \ closed /\ item.entries[i] \notin files =>
    /\ kills = 0 => tillin.images[i] > 0 \/ (session[s].pc = "revert" /\ i \in session[s].sel)
    /\ failures + kills = 0 /\ item.status \in Reviewable =>
         \/ session[s].pc = "revert" /\ i \in session[s].sel
         \/ session[s].pc \in {"urls", "copy", "commit"}

\* What the catalogue has when nothing went wrong, before and after the commit.
Told(s) ==
  /\ item.status = "applied" /\ ~item.warned =>
       /\ \A i \in item.keep \cap Images : item.entries[i] # Absent => tillin.images[i] > 0
       /\ "copy" \in item.keep => item.text \in {0, tillin.text} /\ item.html \in {0, tillin.html}
  /\ session[s].pc \in {"urls", "copy", "commit"} /\ ~session[s].warn =>
       \A i \in Images : i \in session[s].sel /\ item.entries[i] # Absent =>
         (session[s].pc = "urls" /\ i \in session[s].todo) \/ tillin.images[i] > 0
  /\ session[s].pc = "commit" /\ "copy" \in session[s].sel =>
       item.text \in {0, tillin.text} /\ item.html \in {0, tillin.html}

Inv(s) == Shaped(s) /\ Serial(s) /\ Entries /\ Counted(s) /\ Backed(s) /\ Told(s)

\* The numbers of the invariant.
LEMMA Numbers ==
  ASSUME NEW s, Shaped(s), NEW i \in Images
  PROVE  tillin.images[i] \in Nat /\ asked[i] \in Nat /\ failures \in Nat /\ kills \in Nat
         /\ item.entries[i] \in Assets \cup {Raw, Absent}
BY DEF Shaped, IsCatalogue, IsRow

-----------------------------------------------------------------------------
(* The worker, and the reviewer's immediate requests *)

\* The row moves while no request is under way: entries may only be lost.
LEMMA RowMoves ==
  ASSUME NEW s, Inv(s), session[s].pc \in {"idle", "saved"}, IsRow(item'),
         UNCHANGED <<asset, files, tillin, asked, session, closed, failures, kills>>,
         item.status # "applied", item'.status # "applied",
         \A i \in Images : item'.entries[i] \in Assets => item'.entries[i] = item.entries[i],
         item'.status = "pending" => \A i \in Images : item'.entries[i] \notin Assets,
         item'.status \in Reviewable =>
           item.status \in Reviewable \/ \A i \in Images : item'.entries[i] \notin Assets
  PROVE  Inv(s)'
<1>1. Shaped(s)'
  BY DEF Inv, Shaped
<1>2. Serial(s)'
  BY DEF Inv, Serial, Editing, Applying
<1>3. Entries'
  BY DEF Inv, Entries
<1>4. Counted(s)'
  BY DEF Inv, Counted, Debts
<1>5. Backed(s)'
  BY DEF Inv, Backed
<1>6. Told(s)'
  BY DEF Inv, Told
<1>7. QED BY <1>1, <1>2, <1>3, <1>4, <1>5, <1>6 DEF Inv

\* A staging lands on the row, by the worker or by a request of the reviewer: entries
\* stay or are those of the page, and the assets among these are new, with their files.
LEMMA StagingLands ==
  ASSUME NEW s, Inv(s), IsRow(item'), NEW n \in Nat, asset <= n, n <= MaxAssets, Normalized(n),
         item.status \in {"pending"} \cup Reviewable, item'.status \in Reviewable,
         (item'.entries = item.entries /\ n = asset) \/ item'.entries \in PageEntries(n),
         \/ session[s].pc \in {"idle", "saved"} /\ UNCHANGED session
         \/ session[s].pc = "restage" /\ End(s) /\ item.status \in Reviewable,
         UNCHANGED <<tillin, asked, closed, failures, kills>>
  PROVE  Inv(s)'
<1>0. Shaped(s) /\ Serial(s) /\ Entries /\ Counted(s) /\ Backed(s) /\ Told(s)
  BY DEF Inv
<1>1. /\ DOMAIN session' = {s} /\ IsRequest(session'[s])
      /\ session[s].pc \in {"idle", "saved", "restage"} /\ session'[s].pc \in {"idle", "saved"}
  BY <1>0, RequestMoves DEF Shaped
<1>2. asset \in Nat /\ asset' = n /\ files \subseteq files'
  BY <1>0 DEF Shaped, Normalized
<1>3. \A i \in Images : item'.entries[i] \in (asset + 1)..n => item'.entries[i] \in files'
  BY DEF Normalized
<1>4. ASSUME NEW i \in Images, item'.entries[i] \in Assets
      PROVE  \/ item'.entries[i] = item.entries[i] /\ item'.entries = item.entries
                /\ item.status \in Reviewable
             \/ /\ item'.entries[i] \in (asset + 1)..n /\ item'.entries[i] # Absent
                /\ item'.entries \in PageEntries(n)
  <2>1. CASE item'.entries = item.entries
    BY <1>0, <1>4, <2>1 DEF Entries
  <2>2. CASE item'.entries \in PageEntries(n)
    <3>1. item'.entries[i] \in {Raw, Absent} \cup (asset + 1)..n
      BY <2>2 DEF PageEntries
    <3>2. QED BY <1>4, <2>2, <3>1, Marks
  <2>3. QED BY <2>1, <2>2
<1>5. Shaped(s)'
  BY <1>0, <1>1, <1>2 DEF Shaped
<1>6. Serial(s)'
  BY <1>1 DEF Serial, Editing, Applying
<1>7. Entries'
  <2>1. ASSUME NEW i \in Images, item'.entries[i] \in Assets
        PROVE  item'.entries[i] <= asset'
    <3>1. CASE item'.entries[i] = item.entries[i]
      <4>1. item.entries[i] <= asset /\ item.entries[i] \in Nat
        BY <1>0, <2>1, <3>1, Marks DEF Entries, Assets
      <4>2. QED BY <1>2, <3>1, <4>1
    <3>2. CASE item'.entries[i] \in (asset + 1)..n
      BY <1>2, <3>2
    <3>3. QED BY <1>4, <2>1, <3>1, <3>2
  <2>2. ASSUME NEW i \in Images, NEW j \in Images,
               item'.entries[i] \in Assets, item'.entries[i] = item'.entries[j]
        PROVE  i = j
    <3>1. CASE item'.entries = item.entries
      BY <1>0, <2>2, <3>1 DEF Entries
    <3>2. CASE item'.entries[i] \in (asset + 1)..n /\ item'.entries[i] # Absent
               /\ item'.entries \in PageEntries(n)
      <4>1. item'.entries[i] > asset
        BY <1>2, <3>2
      <4>2. QED BY <2>2, <3>2, <4>1 DEF PageEntries
    <3>3. QED BY <1>4, <2>2, <3>1, <3>2
  <2>3. item'.status # "pending"
    BY DEF Reviewable
  <2>4. QED BY <2>1, <2>2, <2>3 DEF Entries
<1>8. Counted(s)'
  BY <1>0, <1>1 DEF Counted, Debts, Reviewable
<1>9. Backed(s)'
  <2>1. ASSUME NEW i \in Images, item'.entries[i] \in Assets \ closed, item'.entries[i] \notin files'
        PROVE  /\ item.entries[i] \in Assets \ closed /\ item.entries[i] \notin files
               /\ item.status \in Reviewable
    BY <1>2, <1>3, <1>4, <2>1
  <2>2. QED BY <1>0, <1>1, <2>1 DEF Backed
<1>10. Told(s)'
  BY <1>1 DEF Told, Reviewable
<1>11. QED BY <1>5, <1>6, <1>7, <1>8, <1>9, <1>10 DEF Inv

\* A row without entries has no staged image.
LEMMA NothingStaged == \A i \in Images : NoEntries[i] \notin Assets
BY Marks DEF NoEntries

\* The worker, and what the reviewer decides without a remote call.
LEMMA RowStep ==
  ASSUME NEW s, Inv(s), Run \/ RunGivesUp \/ Retry(s) \/ Review(s)
  PROVE  Inv(s)'
<1>1. Shaped(s) /\ IsRow(item)
  BY DEF Inv, Shaped
<1>2. CASE Run
  <2>1. /\ item.status = "pending" /\ UNCHANGED <<tillin, asked, session, closed, failures, kills>>
    BY <1>2 DEF Run
  <2>2. PICK source, copy \in BOOLEAN : \E n \in asset..(IF source THEN MaxAssets ELSE asset) :
          /\ \E q \in Staged(item, source, copy, n) :
               item' = [q EXCEPT !.status = "ready_for_review", !.warned = FALSE]
          /\ Normalized(n)
    BY <1>2 DEF Run
  <2>3. PICK n \in asset..(IF source THEN MaxAssets ELSE asset) :
          /\ \E q \in Staged(item, source, copy, n) :
               item' = [q EXCEPT !.status = "ready_for_review", !.warned = FALSE]
          /\ Normalized(n)
    BY <2>2
  <2>4. PICK q \in Staged(item, source, copy, n) :
          item' = [q EXCEPT !.status = "ready_for_review", !.warned = FALSE]
    BY <2>3
  <2>5. asset \in Nat /\ asset <= MaxAssets /\ MaxAssets \in Nat
    BY Marks DEF Inv, Shaped
  <2>6. n \in Nat /\ asset <= n /\ n <= MaxAssets /\ (source \/ n = asset)
    BY <2>5
  <2>7. IsRow(q) /\ (IF source THEN q.entries \in PageEntries(n) ELSE q.entries = item.entries)
    BY <1>1, <2>5, <2>6, StagedRow
  <2>8. PICK r : r = [q EXCEPT !.status = "ready_for_review"]
    OBVIOUS
  <2>9. IsRow(r) /\ r.status = "ready_for_review" /\ r.entries = q.entries
    BY <2>7, <2>8, ColumnPut
  <2>10. item' = [r EXCEPT !.warned = FALSE]
    BY <2>4, <2>8
  <2>11. IsRow(item') /\ item'.status = "ready_for_review" /\ item'.entries = q.entries
    BY <2>9, <2>10, ColumnPut
  <2>12. session[s].pc \in {"idle", "saved"}
    BY <2>1 DEF Inv, Serial, Reviewable, Editing, Applying
  <2>13. item'.status \in Reviewable /\ item.status \in {"pending"} \cup Reviewable
    BY <2>1, <2>11 DEF Reviewable
  <2>14. (item'.entries = item.entries /\ n = asset) \/ item'.entries \in PageEntries(n)
    BY <2>6, <2>7, <2>11
  <2>15. QED BY <2>1, <2>3, <2>6, <2>11, <2>12, <2>13, <2>14, StagingLands
<1>3. CASE RunGivesUp
  <2>1. /\ item.status = "pending" /\ UNCHANGED <<asset, files, tillin, asked, session, closed, failures, kills>>
        /\ item' = [item EXCEPT !.status = "failed"]
    BY <1>3 DEF RunGivesUp, bounds, studio
  <2>2. IsRow(item') /\ item'.status = "failed" /\ item'.entries = item.entries
    BY <1>1, <2>1, ColumnPut
  <2>3. session[s].pc \in {"idle", "saved"}
    BY <2>1 DEF Inv, Serial, Reviewable, Editing, Applying
  <2>4. QED BY <2>1, <2>2, <2>3, RowMoves DEF Reviewable
<1>4. CASE Retry(s)
  <2>1. /\ item.status \in Retryable /\ UNCHANGED <<asset, files, tillin, asked, session, closed, failures, kills>>
        /\ session[s].pc = "idle"
        /\ item' = [item EXCEPT !.status = "pending", !.text = 0, !.entries = NoEntries, !.warned = FALSE]
    BY <1>4 DEF Retry, bounds, studio, Free
  <2>2. PICK a : a = [item EXCEPT !.status = "pending"]
    OBVIOUS
  <2>3. IsRow(a) /\ a.status = "pending"
    BY <1>1, <2>2, ColumnPut
  <2>4. PICK b : b = [a EXCEPT !.text = 0]
    OBVIOUS
  <2>5. IsRow(b) /\ b.status = "pending"
    BY <2>3, <2>4, ColumnPut
  <2>6. PICK c : c = [b EXCEPT !.entries = NoEntries]
    OBVIOUS
  <2>7. NoEntries \in [Images -> Assets \cup {Raw, Absent}]
    BY DEF NoEntries
  <2>8. IsRow(c) /\ c.status = "pending" /\ c.entries = NoEntries
    BY <2>5, <2>6, <2>7, ColumnPut
  <2>9. item' = [c EXCEPT !.warned = FALSE]
    BY <2>1, <2>2, <2>4, <2>6
  <2>10. IsRow(item') /\ item'.status = "pending" /\ item'.entries = NoEntries
    BY <2>8, <2>9, ColumnPut
  <2>11. QED BY <2>1, <2>10, RowMoves, NothingStaged DEF Reviewable, Retryable
<1>5. CASE Review(s)
  <2>1. /\ UNCHANGED <<asset, files, tillin, asked, session, closed, failures, kills>>
        /\ session[s].pc = "idle"
        /\ \/ item.status = "ready_for_review" /\ item' = [item EXCEPT !.status = "approved"]
           \/ /\ item.status \in {"ready_for_review", "approved", "failed"}
              /\ item' = [item EXCEPT !.status = "rejected"]
    BY <1>5 DEF Review, bounds, studio, Free
  <2>2. /\ item' = [item EXCEPT !.status = "approved"] =>
             IsRow(item') /\ item'.status = "approved" /\ item'.entries = item.entries
        /\ item' = [item EXCEPT !.status = "rejected"] =>
             IsRow(item') /\ item'.status = "rejected" /\ item'.entries = item.entries
    BY <1>1, ColumnPut
  <2>3. QED BY <2>1, <2>2, RowMoves DEF Reviewable
<1>6. QED BY <1>2, <1>3, <1>4, <1>5


-----------------------------------------------------------------------------
(* Edits: a request that calls a remote service before it commits *)

\* A request of the reviewer starts.
LEMMA EditBegins ==
  ASSUME NEW s, Inv(s), LoadRestage(s) \/ LoadNormalize(s) \/ RevertPurges(s)
  PROVE  Inv(s)'
<1>0. Shaped(s) /\ Serial(s) /\ Entries /\ Counted(s) /\ Backed(s) /\ Told(s)
  BY DEF Inv
<1>1. CASE LoadRestage(s)
  <2>1. /\ item.status \in Reviewable /\ session[s].pc = "idle" /\ Begin(s, "restage", {}, {})
        /\ UNCHANGED <<item, asset, files, tillin, asked, closed, failures, kills>>
    BY <1>1 DEF LoadRestage, Free, bounds, studio
  <2>2. /\ DOMAIN session' = {s} /\ IsRequest(session'[s]) /\ session'[s].pc = "restage"
        /\ session'[s].row = item
    BY <1>0, <2>1, RequestMoves
  <2>3. Shaped(s)'
    BY <1>0, <2>1, <2>2 DEF Shaped
  <2>4. Serial(s)' /\ Entries'
    BY <1>0, <2>1, <2>2 DEF Serial, Entries, Editing, Applying
  <2>5. Counted(s)'
    BY <1>0, <2>1, <2>2 DEF Counted, Debts
  <2>6. Backed(s)' /\ Told(s)'
    BY <1>0, <2>1, <2>2 DEF Backed, Told
  <2>7. QED BY <2>3, <2>4, <2>5, <2>6 DEF Inv
<1>2. CASE LoadNormalize(s)
  <2>1. PICK i \in Images :
        /\ item.status \in Reviewable /\ session[s].pc = "idle" /\ Begin(s, "normalize", {i}, {asset + 1})
        /\ asset < MaxAssets /\ asset' = asset + 1
        /\ UNCHANGED <<item, files, tillin, asked, closed, failures, kills>>
    BY <1>2 DEF LoadNormalize, Free, bounds, studio
  <2>2. /\ DOMAIN session' = {s} /\ IsRequest(session'[s]) /\ session'[s].pc = "normalize"
        /\ session'[s].row = item /\ session'[s].todo = {asset'} /\ session'[s].sel = {i}
    BY <1>0, <2>1, RequestMoves
  <2>3. asset \in Nat /\ asset' \in Assets
    BY <1>0, <2>1, Marks DEF Shaped, Assets
  <2>4. Shaped(s)'
    BY <1>0, <2>1, <2>2, <2>3, Marks DEF Shaped
  <2>5. \A j \in Images : item.entries[j] # asset' /\ (item.entries[j] \in Assets => item.entries[j] <= asset')
    <3>1. ASSUME NEW j \in Images
          PROVE  item.entries[j] # asset' /\ (item.entries[j] \in Assets => item.entries[j] <= asset')
      <4>1. CASE item.entries[j] \in Assets
        BY <1>0, <2>1, <2>3, <4>1, Marks DEF Entries, Assets
      <4>2. CASE item.entries[j] \notin Assets
        BY <2>3, <4>2
      <4>3. QED BY <4>1, <4>2
    <3>2. QED BY <3>1
  <2>6. Serial(s)' /\ Entries'
    BY <1>0, <2>1, <2>2, <2>3, <2>5 DEF Serial, Entries, Editing, Applying
  <2>7. Counted(s)'
    BY <1>0, <2>1, <2>2 DEF Counted, Debts
  <2>8. Backed(s)' /\ Told(s)'
    BY <1>0, <2>1, <2>2 DEF Backed, Told
  <2>9. QED BY <2>4, <2>6, <2>7, <2>8 DEF Inv
<1>3. CASE RevertPurges(s)
  <2>1. PICK i \in Images :
        /\ item.status \in Reviewable /\ session[s].pc = "idle" /\ item.entries[i] \in Assets
        /\ files' = files \ {item.entries[i]} /\ Begin(s, "revert", {i}, {})
        /\ UNCHANGED <<item, asset, tillin, asked, closed, failures, kills>>
    BY <1>3 DEF RevertPurges, Free, bounds, studio
  <2>2. /\ DOMAIN session' = {s} /\ IsRequest(session'[s]) /\ session'[s].pc = "revert"
        /\ session'[s].row = item /\ session'[s].sel = {i}
    BY <1>0, <2>1, RequestMoves
  <2>3. Shaped(s)'
    BY <1>0, <2>1, <2>2 DEF Shaped
  <2>4. Serial(s)' /\ Entries'
    BY <1>0, <2>1, <2>2 DEF Serial, Entries, Editing, Applying
  <2>5. Counted(s)'
    BY <1>0, <2>1, <2>2 DEF Counted, Debts
  <2>6. Backed(s)'
    <3>1. \A j \in Images : item.entries[j] \in Assets /\ item.entries[j] \in files
                              /\ item.entries[j] \notin files' => j = i
      BY <1>0, <2>1 DEF Entries
    <3>2. QED BY <1>0, <2>1, <2>2, <3>1 DEF Backed
  <2>7. Told(s)'
    BY <1>0, <2>1, <2>2 DEF Told
  <2>8. QED BY <2>3, <2>4, <2>5, <2>6, <2>7 DEF Inv
<1>4. QED BY <1>1, <1>2, <1>3

\* An edit commits, or ends without: every entry stays, loses its staged image, or is
\* the new image with its file.
LEMMA EditEnds ==
  ASSUME NEW s, Inv(s), session[s].pc \in Editing, End(s), IsRow(item'),
         UNCHANGED <<asset, tillin, asked, closed, failures, kills>>, files \subseteq files',
         item'.status = item.status,
         \A i \in Images :
           \/ item'.entries[i] \notin Assets
           \/ /\ item'.entries[i] = item.entries[i]
              /\ session[s].pc = "revert" => i \notin session[s].sel
           \/ session[s].pc = "normalize" /\ i \in session[s].sel
              /\ item'.entries[i] = asset /\ asset \in files'
  PROVE  Inv(s)'
<1>0. Shaped(s) /\ Serial(s) /\ Entries /\ Counted(s) /\ Backed(s) /\ Told(s)
  BY DEF Inv
<1>1. DOMAIN session' = {s} /\ IsRequest(session'[s]) /\ session'[s].pc = "idle"
  BY <1>0, RequestMoves
<1>2. item.status \in Reviewable /\ asset \in Nat
  BY <1>0 DEF Serial, Shaped
<1>3. Shaped(s)'
  BY <1>0, <1>1 DEF Shaped
<1>4. Serial(s)'
  BY <1>1 DEF Serial, Editing, Applying
<1>5. Entries'
  <2>1. ASSUME NEW i \in Images, item'.entries[i] \in Assets
        PROVE  item'.entries[i] <= asset'
    BY <1>0, <1>2, <2>1 DEF Entries
  <2>2. ASSUME NEW i \in Images, NEW j \in Images,
               item'.entries[i] \in Assets, item'.entries[i] = item'.entries[j]
        PROVE  i = j
    BY <1>0, <2>2 DEF Entries, Serial
  <2>3. item'.status # "pending"
    BY <1>2 DEF Reviewable
  <2>4. QED BY <2>1, <2>2, <2>3 DEF Entries
<1>6. Counted(s)'
  BY <1>0, <1>1, <1>2 DEF Counted, Debts, Reviewable, Editing
<1>7. Backed(s)'
  BY <1>0, <1>1, <1>2 DEF Backed, Editing
<1>8. Told(s)'
  BY <1>1, <1>2 DEF Told, Reviewable
<1>9. QED BY <1>3, <1>4, <1>5, <1>6, <1>7, <1>8 DEF Inv


\* A request of the reviewer commits, or comes back with an error.
LEMMA EditStep ==
  ASSUME NEW s, Inv(s), Edit(s)
  PROVE  Inv(s)'
<1>0. Shaped(s) /\ Serial(s) /\ Entries /\ IsRow(item)
  BY DEF Inv, Shaped
<1>1. CASE CommitRestage(s)
  <2>1. /\ session[s].pc = "restage" /\ End(s)
        /\ UNCHANGED <<tillin, asked, closed, failures, kills>>
    BY <1>1 DEF CommitRestage
  <2>2. asset \in Nat /\ asset <= MaxAssets /\ MaxAssets \in Nat /\ item.status \in Reviewable
    BY <1>0, <2>1, Marks DEF Shaped, Serial, Editing
  <2>3. PICK source \in BOOLEAN, n \in asset..MaxAssets :
          /\ \E q \in Staged(item, source, TRUE, n) : item' = q \/ item' = [q EXCEPT !.warned = FALSE]
          /\ Normalized(n) /\ (source \/ n = asset)
    <3>1. CASE \E n \in asset..MaxAssets :
                 /\ item' \in {[q EXCEPT !.warned = FALSE] : q \in Staged(item, TRUE, TRUE, n)}
                 /\ Normalized(n)
      <4>1. PICK n \in asset..MaxAssets :
              /\ item' \in {[q EXCEPT !.warned = FALSE] : q \in Staged(item, TRUE, TRUE, n)}
              /\ Normalized(n)
        BY <3>1
      <4>2. \E q \in Staged(item, TRUE, TRUE, n) : item' = [q EXCEPT !.warned = FALSE]
        BY <4>1
      <4>3. QED BY <4>1, <4>2
    <3>2. CASE item' \in Staged(item, FALSE, TRUE, asset) /\ Normalized(asset)
      <4>1. asset \in asset..MaxAssets
        BY <2>2
      <4>2. QED BY <3>2, <4>1
    <3>3. QED BY <1>1, <3>1, <3>2 DEF CommitRestage
  <2>4. PICK copy : copy = TRUE
    OBVIOUS
  <2>q. PICK q \in Staged(item, source, copy, n) : item' = q \/ item' = [q EXCEPT !.warned = FALSE]
    BY <2>3, <2>4
  <2>5. n \in Nat /\ asset <= n /\ n <= MaxAssets
    BY <2>2
  <2>6. /\ IsRow(q) /\ q.status = item.status
        /\ IF source THEN q.entries \in PageEntries(n) ELSE q.entries = item.entries
    BY <1>0, <2>2, <2>5, StagedRow
  <2>7. IsRow(item') /\ item'.status = item.status /\ item'.entries = q.entries
    BY <2>q, <2>6, ColumnPut
  <2>8. (item'.entries = item.entries /\ n = asset) \/ item'.entries \in PageEntries(n)
    BY <2>3, <2>6, <2>7
  <2>9. QED BY <2>1, <2>2, <2>3, <2>5, <2>7, <2>8, StagingLands
<1>2. CASE CommitNormalize(s)
  <2>1. /\ session[s].pc = "normalize" /\ End(s) /\ files' = files \cup session[s].todo
        /\ UNCHANGED <<asset, tillin, asked, closed, failures, kills>>
    BY <1>2 DEF CommitNormalize, bounds, studio
  <2>2. session[s].todo = {asset} /\ asset \in Assets /\ session[s].row = item
    BY <1>0, <2>1 DEF Serial
  <2>3. PICK e : e = [i \in Images |-> IF i \in session[s].sel THEN asset ELSE item.entries[i]]
    OBVIOUS
  <2>4. item' = [item EXCEPT !.entries = e]
    BY <1>2, <2>2, <2>3 DEF CommitNormalize
  <2>5. e \in [Images -> Assets \cup {Raw, Absent}]
    BY <1>0, <2>2, <2>3 DEF IsRow
  <2>6. IsRow(item') /\ item'.status = item.status /\ item'.entries = e
    BY <1>0, <2>4, <2>5, ColumnPut
  <2>7. \A i \in Images : IF i \in session[s].sel THEN item'.entries[i] = asset
                          ELSE item'.entries[i] = item.entries[i]
    BY <2>3, <2>6
  <2>8. asset \in files' /\ files \subseteq files'
    BY <2>1, <2>2
  <2>9. QED BY <2>1, <2>6, <2>7, <2>8, EditEnds DEF Editing
<1>3. CASE CommitRevert(s)
  <2>1. /\ session[s].pc = "revert" /\ End(s)
        /\ UNCHANGED <<asset, files, tillin, asked, closed, failures, kills>>
    BY <1>3 DEF CommitRevert, bounds, studio
  <2>2. session[s].row = item
    BY <1>0, <2>1 DEF Serial
  <2>3. PICK e : e = [i \in Images |-> IF i \in session[s].sel THEN Raw ELSE item.entries[i]]
    OBVIOUS
  <2>4. item' = [item EXCEPT !.entries = e]
    BY <1>3, <2>2, <2>3 DEF CommitRevert
  <2>5. e \in [Images -> Assets \cup {Raw, Absent}]
    BY <1>0, <2>3 DEF IsRow
  <2>6. IsRow(item') /\ item'.status = item.status /\ item'.entries = e
    BY <1>0, <2>4, <2>5, ColumnPut
  <2>7. \A i \in Images : IF i \in session[s].sel THEN item'.entries[i] \notin Assets
                          ELSE item'.entries[i] = item.entries[i]
    BY <2>3, <2>6, Marks
  <2>8. QED BY <2>1, <2>6, <2>7, EditEnds DEF Editing
<1>4. CASE EditFails(s)
  <2>1. /\ session[s].pc \in {"normalize", "restage"} /\ End(s)
        /\ UNCHANGED <<item, asset, files, tillin, asked, closed, failures, kills>>
    BY <1>4 DEF EditFails, bounds, studio
  <2>2. QED BY <1>0, <2>1, EditEnds DEF Editing
<1>5. QED BY <1>1, <1>2, <1>3, <1>4, EditBegins DEF Edit


-----------------------------------------------------------------------------
(* The apply *)

\* The catalogue gains images and, from the row itself, its copy.
CatalogueGains ==
  /\ IsCatalogue(tillin')
  /\ \A i \in Images : tillin'.images[i] >= tillin.images[i]
  /\ tillin'.text \in {tillin.text, item.text} /\ (item.text = 0 => tillin'.text = tillin.text)
  /\ tillin'.html \in {tillin.html, item.html} /\ (item.html = 0 => tillin'.html = tillin.html)

\* What the item says of the catalogue stays true while it gains.
LEMMA AppliedStaysTold ==
  ASSUME NEW s, Inv(s), UNCHANGED item, CatalogueGains
  PROVE  item.status = "applied" /\ ~item.warned =>
           /\ \A i \in item.keep \cap Images : item.entries[i] # Absent => tillin'.images[i] > 0
           /\ "copy" \in item.keep => item.text \in {0, tillin'.text} /\ item.html \in {0, tillin'.html}
<1>1. \A i \in Images : tillin.images[i] \in Nat /\ tillin'.images[i] \in Nat
  BY DEF CatalogueGains, IsCatalogue, Inv, Shaped
<1>2. QED BY <1>1 DEF Inv, Told, CatalogueGains

\* An apply starts, of an approved item or again of an applied one.
LEMMA ApplyBegins ==
  ASSUME NEW s, Inv(s), LoadApply(s)
  PROVE  Inv(s)'
<1>0. Shaped(s) /\ Serial(s) /\ Entries /\ Counted(s) /\ Backed(s) /\ Told(s)
  BY DEF Inv
<1>1. PICK S : /\ Begin(s, "upload", S, {})
               /\ \/ item.status = "approved" /\ UNCHANGED asked
                  \/ /\ item.status = "applied"
                     /\ asked' = [i \in Images |-> IF i \in S THEN asked[i] + 1 ELSE asked[i]]
  BY DEF LoadApply
<1>2. session[s].pc = "idle" /\ UNCHANGED <<item, asset, files, tillin, closed, failures, kills>>
  BY DEF LoadApply, Free, bounds, studio
<1>3. /\ DOMAIN session' = {s} /\ IsRequest(session'[s]) /\ session'[s].pc = "upload"
      /\ session'[s].row = item /\ session'[s].sel = S
  BY <1>0, <1>1, RequestMoves
<1>4. \A i \in Images : /\ asked'[i] \in Nat /\ asked'[i] >= asked[i]
                        /\ item.status = "applied" /\ i \in S => asked'[i] = asked[i] + 1
  BY <1>0, <1>1 DEF Shaped
<1>5. asked' \in [Images -> Nat]
  BY <1>0, <1>1 DEF Shaped
<1>6. Shaped(s)'
  BY <1>0, <1>2, <1>3, <1>5 DEF Shaped
<1>7. Serial(s)' /\ Entries'
  BY <1>0, <1>1, <1>2, <1>3 DEF Serial, Entries, Editing, Applying
<1>8. Counted(s)'
  <2>1. ASSUME NEW i \in Images
        PROVE  /\ tillin.images[i] <= 1 + (asked'[i] + failures + kills)
               /\ item.status # "applied" \/ i \in S => tillin.images[i] <= asked'[i] + failures + kills
    <3>1. /\ tillin.images[i] \in Nat /\ asked[i] \in Nat /\ failures \in Nat /\ kills \in Nat
      BY <1>0, Numbers
    <3>2. /\ tillin.images[i] <= 1 + (asked[i] + failures + kills)
          /\ item.status # "applied" => tillin.images[i] <= asked[i] + failures + kills
      BY <1>0, <1>2 DEF Counted, Debts
    <3>3. QED BY <1>1, <1>4, <3>1, <3>2
  <2>2. QED BY <1>2, <1>3, <2>1 DEF Counted, Debts
<1>9. Backed(s)' /\ Told(s)'
  BY <1>0, <1>2, <1>3 DEF Backed, Told
<1>10. QED BY <1>6, <1>7, <1>8, <1>9 DEF Inv

\* The one call that brings images: those it brings were not brought before, and the
\* files it deletes are theirs.
LEMMA UploadStep ==
  ASSUME NEW s, Inv(s), Upload(s)
  PROVE  Inv(s)'
<1>0. Shaped(s) /\ Serial(s) /\ Entries /\ Counted(s) /\ Backed(s) /\ Told(s)
  BY DEF Inv
<1>1. session[s].pc = "upload" /\ UNCHANGED <<item, asset, asked, closed, failures, kills>>
  BY DEF Upload, bounds, studio
<1>2. session[s].row = item /\ item.status \in {"approved", "applied"}
  BY <1>0, <1>1 DEF Serial, Applying
<1>3. PICK P, U, C :
        /\ C \subseteq U /\ U \subseteq P
        /\ P = {i \in Images : i \in session[s].sel /\ item.entries[i] # Absent}
        /\ tillin' = WithImages(C)
        /\ files' = IF C = U THEN files \ ({item.entries[i] : i \in C} \cap Assets) ELSE files
        /\ session' = [session EXCEPT ![s].pc = "urls", ![s].todo = P \ U, ![s].warn = (C # U)]
  <2>1. PICK D \in SUBSET Pushed(session[s]) : \E C \in SUBSET Uploadable(session[s], D) :
          /\ tillin' = WithImages(C)
          /\ files' = IF C = Uploadable(session[s], D) THEN files \ AssetsOf(session[s], C) ELSE files
          /\ session' = [session EXCEPT
                           ![s].pc = "urls",
                           ![s].todo = Pushed(session[s]) \ Uploadable(session[s], D),
                           ![s].warn = (C # Uploadable(session[s], D))]
    BY DEF Upload
  <2>2. PICK C \in SUBSET Uploadable(session[s], D) :
          /\ tillin' = WithImages(C)
          /\ files' = IF C = Uploadable(session[s], D) THEN files \ AssetsOf(session[s], C) ELSE files
          /\ session' = [session EXCEPT
                           ![s].pc = "urls",
                           ![s].todo = Pushed(session[s]) \ Uploadable(session[s], D),
                           ![s].warn = (C # Uploadable(session[s], D))]
    BY <2>1
  <2>3. Pushed(session[s]) = {i \in Images : i \in session[s].sel /\ item.entries[i] # Absent}
    BY <1>2 DEF Pushed
  <2>4. AssetsOf(session[s], C) = {item.entries[i] : i \in C} \cap Assets
    BY <1>2 DEF AssetsOf
  <2>5. Uploadable(session[s], D) \subseteq Pushed(session[s])
    BY DEF Uploadable
  <2>6. QED BY <2>2, <2>3, <2>4, <2>5
<1>4. /\ IsCatalogue(tillin') /\ tillin'.text = tillin.text /\ tillin'.html = tillin.html
      /\ \A i \in Images : tillin'.images[i] = IF i \in C THEN tillin.images[i] + 1
                                               ELSE tillin.images[i]
  BY <1>0, <1>3, ImagesSent DEF Shaped
<1>5. /\ DOMAIN session' = {s} /\ IsRequest(session'[s]) /\ session'[s].pc = "urls"
      /\ session'[s].row = item /\ session'[s].sel = session[s].sel
      /\ session'[s].todo = P \ U /\ session'[s].warn = (C # U)
  <2>1. PICK todo : todo = P \ U
    OBVIOUS
  <2>2. PICK warn : warn = (C # U)
    OBVIOUS
  <2>3. session' = [session EXCEPT ![s].pc = "urls", ![s].todo = todo, ![s].warn = warn]
    BY <1>3, <2>1, <2>2
  <2>4. /\ DOMAIN session' = {s} /\ IsRequest(session'[s]) /\ session'[s].pc = "urls"
        /\ session'[s].row = session[s].row /\ session'[s].sel = session[s].sel
        /\ session'[s].todo = todo /\ session'[s].warn = warn
    BY <1>0, <2>3, RequestGoesOn
  <2>5. QED BY <1>2, <2>1, <2>2, <2>4
<1>6. \A i \in Images : tillin.images[i] \in Nat
  BY <1>0, Numbers
<1>7. Shaped(s)'
  BY <1>0, <1>1, <1>4, <1>5 DEF Shaped
<1>8. Serial(s)' /\ Entries'
  <2>1. Pushed(session'[s]) = P
    BY <1>3, <1>5 DEF Pushed
  <2>2. Pushed(session[s])' = P
    BY <1>3, <1>5 DEF Pushed
  <2>3. QED BY <1>0, <1>1, <1>2, <1>5, <2>2 DEF Serial, Entries, Editing, Applying
<1>9. Counted(s)'
  <2>1. ASSUME NEW i \in Images
        PROVE  /\ tillin'.images[i] <= 1 + Debts(i)
               /\ i \in P \ U => tillin'.images[i] <= Debts(i)
    <3>1. /\ tillin.images[i] \in Nat /\ asked[i] \in Nat /\ failures \in Nat /\ kills \in Nat
      BY <1>0, Numbers
    <3>2. /\ tillin.images[i] <= 1 + Debts(i)
          /\ i \in session[s].sel => tillin.images[i] <= Debts(i)
      BY <1>0, <1>1 DEF Counted
    <3>3. i \in P => i \in session[s].sel
      BY <1>3
    <3>4. (i \in C => i \in P) /\ (i \in P \ U => i \notin C)
      BY <1>3
    <3>5. Debts(i) \in Nat
      BY <3>1 DEF Debts
    <3>6. CASE i \in C
      <4>1. tillin.images[i] <= Debts(i) /\ tillin'.images[i] = tillin.images[i] + 1
        BY <1>4, <3>2, <3>3, <3>4, <3>6
      <4>2. QED BY <3>1, <3>4, <3>5, <3>6, <4>1
    <3>7. CASE i \notin C
      BY <1>4, <3>2, <3>3, <3>7
    <3>8. QED BY <3>6, <3>7
  <2>2. QED BY <1>1, <1>5, <2>1 DEF Counted, Debts
<1>10. Backed(s)'
  <2>1. ASSUME NEW i \in Images, item.entries[i] \in Assets \ closed, item.entries[i] \notin files', kills = 0
        PROVE  tillin'.images[i] > 0
    <3>1. CASE item.entries[i] \notin files
      <4>1. tillin.images[i] > 0
        BY <1>0, <1>1, <2>1, <3>1 DEF Backed
      <4>2. QED BY <1>4, <1>6, <4>1
    <3>2. CASE item.entries[i] \in files
      <4>1. i \in C
        BY <1>0, <1>3, <2>1, <3>2 DEF Entries
      <4>2. QED BY <1>4, <1>6, <4>1
    <3>3. QED BY <3>1, <3>2
  <2>2. QED BY <1>1, <1>5, <2>1 DEF Backed
<1>11. Told(s)'
  <2>1. CatalogueGains
    BY <1>4, <1>6 DEF CatalogueGains
  <2>2. ASSUME NEW i \in Images, i \in session[s].sel, item.entries[i] # Absent, C = U
        PROVE  i \in P \ U \/ tillin'.images[i] > 0
    <3>1. i \in P
      BY <1>3, <2>2
    <3>2. QED BY <1>4, <1>6, <2>2, <3>1
  <2>3. QED BY <1>1, <1>5, <2>1, <2>2, AppliedStaysTold DEF Told
<1>12. QED BY <1>7, <1>8, <1>9, <1>10, <1>11 DEF Inv

\* The images left are pushed by URL: none of them is in the gallery by this apply.
LEMMA UrlsStep ==
  ASSUME NEW s, Inv(s), PushUrls(s)
  PROVE  Inv(s)'
<1>0. Shaped(s) /\ Serial(s) /\ Entries /\ Counted(s) /\ Backed(s) /\ Told(s)
  BY DEF Inv
<1>1. session[s].pc = "urls" /\ UNCHANGED <<item, asset, files, asked, closed, failures, kills>>
  BY DEF PushUrls, bounds, studio
<1>2. session[s].row = item /\ item.status \in {"approved", "applied"}
  BY <1>0, <1>1 DEF Serial, Applying
<1>3. PICK C \in SUBSET session[s].todo :
        /\ tillin' = WithImages(C)
        /\ session' = [session EXCEPT ![s].pc = "copy", ![s].warn = @ \/ C # session[s].todo]
  BY DEF PushUrls
<1>4. /\ IsCatalogue(tillin') /\ tillin'.text = tillin.text /\ tillin'.html = tillin.html
      /\ \A i \in Images : tillin'.images[i] = IF i \in C THEN tillin.images[i] + 1
                                               ELSE tillin.images[i]
  BY <1>0, <1>3, ImagesSent DEF Shaped
<1>5. /\ DOMAIN session' = {s} /\ IsRequest(session'[s]) /\ session'[s].pc = "copy"
      /\ session'[s].row = item /\ session'[s].sel = session[s].sel
      /\ ~session'[s].warn => ~session[s].warn /\ C = session[s].todo
  <2>1. PICK warn : warn = (session[s].warn \/ C # session[s].todo)
    OBVIOUS
  <2>2. session' = [session EXCEPT ![s].pc = "copy", ![s].warn = warn]
    BY <1>3, <2>1
  <2>3. PICK todo : todo = session[s].todo
    OBVIOUS
  <2>4. /\ DOMAIN session' = {s} /\ IsRequest(session'[s]) /\ session'[s].pc = "copy"
        /\ session'[s].row = session[s].row /\ session'[s].sel = session[s].sel
        /\ session'[s].warn = warn
    BY <1>0, <2>2, <2>3, RequestGoesOn
  <2>5. QED BY <1>2, <2>1, <2>4
<1>6. \A i \in Images : tillin.images[i] \in Nat
  BY <1>0, Numbers
<1>7. Shaped(s)'
  BY <1>0, <1>1, <1>4, <1>5 DEF Shaped
<1>8. Serial(s)' /\ Entries'
  BY <1>0, <1>1, <1>2, <1>5 DEF Serial, Entries, Editing, Applying
<1>9. Counted(s)'
  <2>1. ASSUME NEW i \in Images
        PROVE  tillin'.images[i] <= 1 + Debts(i)
    <3>1. /\ tillin.images[i] \in Nat /\ asked[i] \in Nat /\ failures \in Nat /\ kills \in Nat
      BY <1>0, Numbers
    <3>2. /\ tillin.images[i] <= 1 + Debts(i)
          /\ i \in C => tillin.images[i] <= Debts(i)
      BY <1>0, <1>1, <1>3 DEF Counted
    <3>3. Debts(i) \in Nat
      BY <3>1 DEF Debts
    <3>4. CASE i \in C
      <4>1. tillin.images[i] <= Debts(i) /\ tillin'.images[i] = tillin.images[i] + 1
        BY <1>4, <3>2, <3>4
      <4>2. QED BY <3>1, <3>3, <4>1
    <3>5. CASE i \notin C
      BY <1>4, <3>2, <3>5
    <3>6. QED BY <3>4, <3>5
  <2>2. QED BY <1>1, <1>5, <2>1 DEF Counted, Debts
<1>10. Backed(s)'
  <2>1. \A i \in Images : tillin.images[i] > 0 => tillin'.images[i] > 0
    BY <1>4, <1>6
  <2>2. QED BY <1>0, <1>1, <1>5, <2>1 DEF Backed
<1>11. Told(s)'
  <2>1. CatalogueGains
    BY <1>4, <1>6 DEF CatalogueGains
  <2>2. ASSUME NEW i \in Images, i \in session[s].sel, item.entries[i] # Absent, ~session'[s].warn
        PROVE  tillin'.images[i] > 0
    <3>1. i \in C \/ tillin.images[i] > 0
      BY <1>0, <1>1, <1>5, <2>2 DEF Told
    <3>2. QED BY <1>4, <1>6, <3>1
  <2>3. QED BY <1>1, <1>5, <2>1, <2>2, AppliedStaysTold DEF Told
<1>12. QED BY <1>7, <1>8, <1>9, <1>10, <1>11 DEF Inv

\* The copy of the row the apply loaded, which is the row as it is.
LEMMA CopyStep ==
  ASSUME NEW s, Inv(s), WriteCopy(s)
  PROVE  Inv(s)'
<1>0. Shaped(s) /\ Serial(s) /\ Entries /\ Counted(s) /\ Backed(s) /\ Told(s)
  BY DEF Inv
<1>1. session[s].pc = "copy" /\ UNCHANGED <<item, asset, files, asked, closed, failures, kills>>
  BY DEF WriteCopy, bounds, studio
<1>2. session[s].row = item /\ item.status \in {"approved", "applied"}
  BY <1>0, <1>1 DEF Serial, Applying
<1>3. /\ IsCatalogue(tillin') /\ tillin'.images = tillin.images /\ CatalogueGains
      /\ "copy" \in session[s].sel =>
           item.text \in {0, tillin'.text} /\ item.html \in {0, tillin'.html}
  <2>1. \A i \in Images : tillin.images[i] \in Nat
    BY <1>0, Numbers
  <2>2. CASE "copy" \in session[s].sel
    <3>1. tillin' = Enriched(session[s])
      BY <2>2 DEF WriteCopy
    <3>2. /\ IsCatalogue(tillin') /\ tillin'.images = tillin.images
          /\ tillin'.text = IF item.text = 0 THEN tillin.text ELSE item.text
          /\ tillin'.html = IF item.html = 0 THEN tillin.html ELSE item.html
      BY <1>0, <1>2, <3>1, CopySent DEF Shaped
    <3>3. QED BY <2>1, <3>2 DEF CatalogueGains
  <2>3. CASE "copy" \notin session[s].sel
    <3>1. tillin' = tillin
      BY <2>3 DEF WriteCopy
    <3>2. QED BY <1>0, <2>1, <2>3, <3>1 DEF CatalogueGains, Shaped
  <2>4. QED BY <2>2, <2>3
<1>4. /\ DOMAIN session' = {s} /\ IsRequest(session'[s]) /\ session'[s].pc = "commit"
      /\ session'[s].row = item /\ session'[s].sel = session[s].sel
      /\ session'[s].warn = session[s].warn
  <2>1. PICK todo, warn : todo = session[s].todo /\ warn = session[s].warn
    OBVIOUS
  <2>2. session' = [session EXCEPT ![s].pc = "commit"]
    BY DEF WriteCopy
  <2>3. /\ DOMAIN session' = {s} /\ IsRequest(session'[s]) /\ session'[s].pc = "commit"
        /\ session'[s].row = session[s].row /\ session'[s].sel = session[s].sel
        /\ session'[s].todo = todo /\ session'[s].warn = warn
    BY <1>0, <2>1, <2>2, RequestGoesOn
  <2>4. QED BY <1>2, <2>1, <2>3
<1>5. Shaped(s)'
  BY <1>0, <1>1, <1>3, <1>4 DEF Shaped
<1>6. Serial(s)' /\ Entries'
  BY <1>0, <1>1, <1>2, <1>4 DEF Serial, Entries, Editing, Applying
<1>7. Counted(s)' /\ Backed(s)'
  BY <1>0, <1>1, <1>3, <1>4 DEF Counted, Debts, Backed
<1>8. Told(s)'
  BY <1>0, <1>1, <1>3, <1>4, AppliedStaysTold DEF Told
<1>9. QED BY <1>5, <1>6, <1>7, <1>8 DEF Inv

\* The one commit: what was sent is what it records, or it records a warning.
LEMMA CommitStep ==
  ASSUME NEW s, Inv(s), CommitApply(s)
  PROVE  Inv(s)'
<1>0. Shaped(s) /\ Serial(s) /\ Entries /\ Counted(s) /\ Backed(s) /\ Told(s)
  BY DEF Inv
<1>1. /\ session[s].pc = "commit" /\ End(s)
      /\ UNCHANGED <<asset, files, tillin, asked, closed, failures, kills>>
  BY DEF CommitApply, bounds, studio
<1>2. session[s].row = item /\ item.status \in {"approved", "applied"}
  BY <1>0, <1>1 DEF Serial, Applying
<1>3. DOMAIN session' = {s} /\ IsRequest(session'[s]) /\ session'[s].pc = "idle"
  BY <1>0, <1>1, RequestMoves
<1>4. /\ IsRow(item') /\ item'.status = "applied" /\ item'.entries = item.entries
      /\ item'.text = item.text /\ item'.html = item.html
      /\ item'.keep = session[s].sel /\ item'.warned = session[s].warn
  <2>1. PICK a : a = [item EXCEPT !.keep = session[s].sel]
    OBVIOUS
  <2>2. IsRow(a) /\ a.status = item.status /\ a.entries = item.entries
        /\ a.text = item.text /\ a.html = item.html /\ a.keep = session[s].sel
    BY <1>0, <2>1, ColumnPut DEF Shaped
  <2>3. PICK b : b = [a EXCEPT !.warned = session[s].warn]
    OBVIOUS
  <2>4. IsRow(b) /\ b.status = item.status /\ b.entries = item.entries
        /\ b.text = item.text /\ b.html = item.html /\ b.keep = session[s].sel
        /\ b.warned = session[s].warn
    BY <2>2, <2>3, ColumnPut
  <2>5. item' = [b EXCEPT !.status = "applied"]
    <3>1. item' = [item EXCEPT !.keep = session[s].sel, !.warned = session[s].warn, !.status = "applied"]
      BY <1>2 DEF CommitApply
    <3>2. QED BY <2>1, <2>3, <3>1
  <2>6. QED BY <2>4, <2>5, ColumnPut
<1>5. Shaped(s)'
  BY <1>0, <1>1, <1>3, <1>4 DEF Shaped
<1>6. Serial(s)' /\ Entries'
  BY <1>0, <1>1, <1>3, <1>4 DEF Serial, Entries, Editing, Applying
<1>7. Counted(s)'
  BY <1>0, <1>1, <1>3, <1>4 DEF Counted, Debts
<1>8. Backed(s)'
  BY <1>0, <1>1, <1>3, <1>4 DEF Backed, Reviewable
<1>9. Told(s)'
  BY <1>0, <1>1, <1>3, <1>4 DEF Told
<1>10. QED BY <1>5, <1>6, <1>7, <1>8, <1>9 DEF Inv

\* A request ends without its commit, by a call that raises or with its process.  What
\* it brought to the gallery meanwhile is owed to the fault.
LEMMA RequestBreaks ==
  ASSUME NEW s, Inv(s), End(s), UNCHANGED <<item, asset, closed, files, asked>>, CatalogueGains,
         \A i \in Images : tillin'.images[i] <= 1 + Debts(i),
         \/ /\ failures' = failures + 1 /\ kills' = kills
            /\ session[s].pc \in {"upload", "urls", "copy"}
         \/ failures' = failures /\ kills' = kills + 1
  PROVE  Inv(s)'
<1>0. Shaped(s) /\ Serial(s) /\ Entries /\ Counted(s) /\ Backed(s) /\ Told(s)
  BY DEF Inv
<1>1. DOMAIN session' = {s} /\ IsRequest(session'[s]) /\ session'[s].pc = "idle"
  BY <1>0, RequestMoves
<1>2. failures \in Nat /\ kills \in Nat /\ failures' \in Nat /\ kills' \in Nat
  BY <1>0 DEF Shaped
<1>3. Shaped(s)'
  BY <1>0, <1>1, <1>2 DEF Shaped, CatalogueGains
<1>4. Serial(s)' /\ Entries'
  BY <1>0, <1>1 DEF Serial, Entries, Editing, Applying
<1>5. Counted(s)'
  <2>1. ASSUME NEW i \in Images
        PROVE  tillin'.images[i] <= asked[i] + failures' + kills'
    <3>1. tillin'.images[i] \in Nat /\ asked[i] \in Nat
      BY <1>0 DEF CatalogueGains, IsCatalogue, Shaped
    <3>2. tillin'.images[i] <= 1 + (asked[i] + failures + kills)
      BY DEF Debts
    <3>3. QED BY <1>2, <3>1, <3>2
  <2>2. \A i \in Images : tillin'.images[i] \in Nat /\ asked[i] \in Nat
    BY <1>0 DEF CatalogueGains, IsCatalogue, Shaped
  <2>3. QED BY <1>1, <1>2, <2>1, <2>2 DEF Counted, Debts
<1>6. Backed(s)'
  <2>1. failures' + kills' # 0
    <3>1. \A m, n \in Nat : (m + 1) + n # 0 /\ m + (n + 1) # 0
      OBVIOUS
    <3>2. \/ failures' = failures + 1 /\ kills' = kills
          \/ failures' = failures /\ kills' = kills + 1
      OBVIOUS
    <3>3. QED BY <1>2, <3>1, <3>2
  <2>2. ASSUME NEW i \in Images, item.entries[i] \in Assets \ closed, item.entries[i] \notin files, kills' = 0
        PROVE  tillin'.images[i] > 0
    <3>1. kills = 0 /\ session[s].pc # "revert"
      BY <1>2, <2>2
    <3>2. tillin.images[i] > 0
      BY <1>0, <2>2, <3>1 DEF Backed
    <3>3. tillin.images[i] \in Nat /\ tillin'.images[i] \in Nat /\ tillin'.images[i] >= tillin.images[i]
      BY <1>0, Numbers DEF CatalogueGains, IsCatalogue
    <3>4. QED BY <3>2, <3>3
  <2>3. QED BY <1>1, <2>1, <2>2 DEF Backed
<1>7. Told(s)'
  BY <1>1, AppliedStaysTold DEF Told
<1>8. QED BY <1>3, <1>4, <1>5, <1>6, <1>7 DEF Inv

\* A staged file is missing: the apply is refused before it wrote anything.
LEMMA MissingStep ==
  ASSUME NEW s, Inv(s), StagingMissing(s)
  PROVE  Inv(s)'
<1>0. Shaped(s) /\ Serial(s) /\ Entries /\ Counted(s) /\ Backed(s) /\ Told(s)
  BY DEF Inv
<1>1. /\ session[s].pc = "upload" /\ End(s)
      /\ UNCHANGED <<item, asset, files, tillin, asked, closed, failures, kills>>
  BY DEF StagingMissing, bounds, studio
<1>2. DOMAIN session' = {s} /\ IsRequest(session'[s]) /\ session'[s].pc = "idle"
  BY <1>0, <1>1, RequestMoves
<1>3. Shaped(s)' /\ Serial(s)' /\ Entries'
  BY <1>0, <1>1, <1>2 DEF Shaped, Serial, Entries, Editing, Applying
<1>4. Counted(s)' /\ Backed(s)' /\ Told(s)'
  BY <1>0, <1>1, <1>2 DEF Counted, Debts, Backed, Told
<1>5. QED BY <1>3, <1>4 DEF Inv

\* A catalogue that only gains images.
LEMMA ImagesGain ==
  ASSUME NEW s, Inv(s), NEW C, tillin' = WithImages(C)
  PROVE  CatalogueGains
<1>1. IsCatalogue(tillin) /\ \A i \in Images : tillin.images[i] \in Nat
  BY DEF Inv, Shaped, IsCatalogue
<1>2. QED BY <1>1, ImagesSent DEF CatalogueGains

\* The studio takes a file and the entry is its own; a save is a copy it asked for.
LEMMA StudioStep ==
  ASSUME NEW s, Inv(s), Studio(s)
  PROVE  Inv(s)'
<1>0. Shaped(s) /\ Serial(s) /\ Entries /\ Counted(s) /\ Backed(s) /\ Told(s)
  BY DEF Inv
<1>1. CASE Discard(s) \/ SavePurges(s)
  <2>1. PICK S : /\ closed' = closed \cup S /\ files' = files \ S
                 /\ session[s].pc \in {"idle", "saved"} /\ (End(s) \/ UNCHANGED session)
                 /\ UNCHANGED <<item, asset, tillin, asked, failures, kills>>
    <3>1. CASE Discard(s)
      <4>1. PICK a : /\ closed' = closed \cup {a} /\ files' = files \ {a}
                     /\ session[s].pc = "idle" /\ UNCHANGED session
                     /\ UNCHANGED <<item, asset, tillin, asked, failures, kills>>
        BY <3>1 DEF Discard, Free
      <4>2. QED BY <4>1
    <3>2. CASE SavePurges(s)
      <4>1. PICK S : S = session[s].todo
        OBVIOUS
      <4>2. QED BY <3>2, <4>1 DEF SavePurges
    <3>3. QED BY <1>1, <3>1, <3>2
  <2>2. DOMAIN session' = {s} /\ IsRequest(session'[s]) /\ session'[s].pc \in {"idle", "saved"}
    BY <1>0, <2>1, RequestMoves DEF Shaped
  <2>3. Shaped(s)' /\ Serial(s)' /\ Entries'
    BY <1>0, <2>1, <2>2 DEF Shaped, Serial, Entries, Editing, Applying
  <2>4. Counted(s)' /\ Told(s)'
    BY <1>0, <2>1, <2>2 DEF Counted, Debts, Told
  <2>5. \A i \in Images : item.entries[i] \in Assets \ closed' /\ item.entries[i] \notin files' =>
                           item.entries[i] \in Assets \ closed /\ item.entries[i] \notin files
    BY <2>1
  <2>6. Backed(s)'
    BY <1>0, <2>1, <2>2, <2>5 DEF Backed
  <2>7. QED BY <2>3, <2>4, <2>6 DEF Inv
<1>2. CASE SaveUploads(s)
  <2>1. PICK k \in Images, a \in files :
          /\ asked' = [asked EXCEPT ![k] = @ + 1]
          /\ tillin' \in {tillin, WithImages({k})}
          /\ \/ Begin(s, "saved", {k}, {a}) /\ UNCHANGED failures
             \/ failures' = failures + 1 /\ UNCHANGED session
          /\ session[s].pc = "idle" /\ UNCHANGED <<item, asset, closed, files, kills>>
    BY <1>2 DEF SaveUploads, studio, Free
  <2>2. /\ DOMAIN session' = {s} /\ IsRequest(session'[s])
        /\ session'[s].pc \in {"idle", "saved"}
    BY <1>0, <2>1, RequestMoves DEF Shaped
  <2>3. /\ IsCatalogue(tillin') /\ tillin'.text = tillin.text /\ tillin'.html = tillin.html
        /\ \A i \in Images : \/ tillin'.images[i] = tillin.images[i]
                             \/ i = k /\ tillin'.images[i] = tillin.images[i] + 1
    <3>1. CASE tillin' = tillin
      BY <1>0, <3>1 DEF Shaped
    <3>2. CASE tillin' = WithImages({k})
      <4>1. PICK S : S = {k}
        OBVIOUS
      <4>2. QED BY <1>0, <3>2, <4>1, ImagesSent DEF Shaped
    <3>3. QED BY <2>1, <3>1, <3>2
  <2>4. failures' \in Nat /\ failures' >= failures
    BY <1>0, <2>1 DEF Shaped
  <2>5. asked' \in [Images -> Nat]
    BY <1>0, <2>1 DEF Shaped
  <2>6. \A i \in Images : tillin.images[i] \in Nat /\ asked[i] \in Nat /\ failures \in Nat /\ kills \in Nat
    BY <1>0, Numbers
  <2>7. CatalogueGains
    BY <2>3, <2>6 DEF CatalogueGains
  <2>8. Shaped(s)' /\ Serial(s)' /\ Entries'
    BY <1>0, <2>1, <2>2, <2>3, <2>4, <2>5 DEF Shaped, Serial, Entries, Editing, Applying
  <2>9. Counted(s)'
    <3>1. ASSUME NEW i \in Images
          PROVE  /\ tillin'.images[i] <= 1 + (asked'[i] + failures' + kills)
                 /\ item.status # "applied" => tillin'.images[i] <= asked'[i] + failures' + kills
      <4>1. /\ tillin.images[i] <= 1 + (asked[i] + failures + kills)
            /\ item.status # "applied" => tillin.images[i] <= asked[i] + failures + kills
        BY <1>0, <2>1 DEF Counted, Debts
      <4>2. asked'[i] = IF i = k THEN asked[i] + 1 ELSE asked[i]
        BY <1>0, <2>1 DEF Shaped
      <4>3. QED BY <2>3, <2>4, <2>6, <4>1, <4>2
    <3>2. QED BY <2>1, <2>2, <3>1 DEF Counted, Debts
  <2>10. Backed(s)'
    <3>1. ASSUME NEW i \in Images, item.entries[i] \in Assets \ closed, item.entries[i] \notin files
          PROVE  /\ kills = 0 => tillin'.images[i] > 0
                 /\ ~(failures + kills = 0 /\ item.status \in Reviewable)
      BY <1>0, <2>1, <2>3, <2>6, <3>1 DEF Backed
    <3>2. failures' + kills = 0 => failures + kills = 0
      BY <1>0, <2>1 DEF Shaped
    <3>3. QED BY <2>1, <2>2, <3>1, <3>2 DEF Backed
  <2>11. Told(s)'
    BY <2>1, <2>2, <2>7, AppliedStaysTold DEF Told
  <2>12. QED BY <2>8, <2>9, <2>10, <2>11 DEF Inv
<1>3. QED BY <1>1, <1>2 DEF Studio

\* A call that raises, whether or not Tillin took it.
LEMMA CallFailsStep ==
  ASSUME NEW s, Inv(s), CallFails(s)
  PROVE  Inv(s)'
<1>0. Shaped(s) /\ Serial(s) /\ Counted(s)
  BY DEF Inv
<1>1. /\ End(s) /\ failures' = failures + 1
      /\ UNCHANGED <<item, asset, closed, files, asked, kills>>
  BY DEF CallFails, studio
<1>2. ASSUME NEW C, tillin' = WithImages(C), session[s].pc \in {"upload", "urls"},
             \A i \in Images : i \in C => tillin.images[i] <= Debts(i)
      PROVE  CatalogueGains /\ \A i \in Images : tillin'.images[i] <= 1 + Debts(i)
  <2>1. CatalogueGains
    BY <1>2, ImagesGain
  <2>2. \A i \in Images : tillin'.images[i] = IF i \in C THEN tillin.images[i] + 1
                                              ELSE tillin.images[i]
    BY <1>0, <1>2, ImagesSent DEF Shaped
  <2>3. ASSUME NEW i \in Images PROVE tillin'.images[i] <= 1 + Debts(i)
    <3>1. /\ tillin.images[i] \in Nat /\ asked[i] \in Nat /\ failures \in Nat /\ kills \in Nat
      BY <1>0, Numbers
    <3>2. Debts(i) \in Nat
      BY <3>1 DEF Debts
    <3>3. CASE i \in C
      <4>1. tillin.images[i] <= Debts(i) /\ tillin'.images[i] = tillin.images[i] + 1
        BY <1>2, <2>2, <3>3
      <4>2. QED BY <3>1, <3>2, <4>1
    <3>4. CASE i \notin C
      BY <1>0, <2>2, <3>4 DEF Counted
    <3>5. QED BY <3>3, <3>4
  <2>4. QED BY <2>1, <2>3
<1>3. CASE session[s].pc = "upload" /\ \E C \in SUBSET Pushed(session[s]) : tillin' = WithImages(C)
  <2>1. PICK C \in SUBSET Pushed(session[s]) : tillin' = WithImages(C)
    BY <1>3
  <2>2. \A i \in Images : i \in C => tillin.images[i] <= Debts(i)
    BY <1>0, <1>3, <2>1 DEF Counted, Pushed
  <2>3. QED BY <1>1, <1>2, <1>3, <2>1, <2>2, RequestBreaks
<1>4. CASE session[s].pc = "urls" /\ \E C \in SUBSET session[s].todo : tillin' = WithImages(C)
  <2>1. PICK C \in SUBSET session[s].todo : tillin' = WithImages(C)
    BY <1>4
  <2>2. \A i \in Images : i \in C => tillin.images[i] <= Debts(i)
    BY <1>0, <1>4, <2>1 DEF Counted
  <2>3. QED BY <1>1, <1>2, <1>4, <2>1, <2>2, RequestBreaks
<1>5. CASE session[s].pc = "copy" /\ tillin' \in {tillin, Enriched(session[s])}
  <2>1. session[s].row = item
    BY <1>0, <1>5 DEF Serial
  <2>2. \A i \in Images : tillin.images[i] \in Nat /\ tillin.images[i] <= 1 + Debts(i)
    BY <1>0, Numbers DEF Counted
  <2>3. CatalogueGains /\ tillin'.images = tillin.images
    <3>1. CASE tillin' = tillin
      BY <1>0, <2>2, <3>1 DEF CatalogueGains, Shaped
    <3>2. CASE tillin' = Enriched(session[s])
      BY <1>0, <2>1, <2>2, <3>2, CopySent DEF CatalogueGains, Shaped
    <3>3. QED BY <1>5, <3>1, <3>2
  <2>4. \A i \in Images : tillin'.images[i] <= 1 + Debts(i)
    BY <2>2, <2>3
  <2>5. QED BY <1>1, <1>5, <2>3, <2>4, RequestBreaks
<1>6. QED BY <1>3, <1>4, <1>5 DEF CallFails

\* The process dies under a request.
LEMMA KillStep ==
  ASSUME NEW s, Inv(s), Kill(s)
  PROVE  Inv(s)'
<1>1. /\ End(s) /\ kills' = kills + 1
      /\ UNCHANGED <<item, asset, files, tillin, asked, closed, failures>>
  BY DEF Kill, studio
<1>2. \A i \in Images : tillin.images[i] \in Nat /\ tillin.images[i] <= 1 + Debts(i)
  BY Numbers DEF Inv, Counted
<1>3. CatalogueGains
  BY <1>1, <1>2 DEF CatalogueGains, Inv, Shaped
<1>4. \A i \in Images : tillin'.images[i] <= 1 + Debts(i)
  BY <1>1, <1>2
<1>5. QED BY <1>1, <1>3, <1>4, RequestBreaks

-----------------------------------------------------------------------------
(* The theorems *)

\* Requests on the item do not overlap.
OneAtATime == \E s : Sessions = {s}

\* The invariant holds of every reachable state.
LEMMA SerialInvariant ==
  ASSUME NEW s, Sessions = {s}
  PROVE  Spec => []Inv(s)
<1>1. Init => Inv(s)
  <2>1. SUFFICES ASSUME Init PROVE Inv(s)
    OBVIOUS
  <2>2. item = Blank /\ tillin = [images |-> [i \in Images |-> 0], text |-> 0, html |-> 0]
        /\ asked = [i \in Images |-> 0] /\ asset = 0 /\ failures = 0 /\ kills = 0
        /\ session = [z \in Sessions |-> Idle]
    BY <2>1 DEF Init
  <2>3. IsRow(item) /\ item.status = "pending" /\ item.entries = NoEntries
    BY <2>2 DEF Blank, NoEntries, IsRow
  <2>4. IsCatalogue(tillin) /\ \A i \in Images : tillin.images[i] = 0 /\ asked[i] = 0
    BY <2>2 DEF IsCatalogue
  <2>5. DOMAIN session = {s} /\ IsRequest(session[s]) /\ session[s].pc = "idle"
    BY <2>2 DEF Idle, IsRequest
  <2>6. \A i \in Images : item.entries[i] \notin Assets
    BY <2>3, NothingStaged
  <2>7. Shaped(s) /\ Serial(s) /\ Entries
    BY <2>2, <2>3, <2>4, <2>5, <2>6, Marks DEF Shaped, Serial, Entries, Editing, Applying
  <2>8. Counted(s) /\ Backed(s) /\ Told(s)
    BY <2>2, <2>3, <2>4, <2>5, <2>6 DEF Counted, Debts, Backed, Told
  <2>9. QED BY <2>7, <2>8 DEF Inv
<1>2. Inv(s) /\ [Next]_vars => Inv(s)'
  <2>1. SUFFICES ASSUME Inv(s), [Next]_vars PROVE Inv(s)'
    OBVIOUS
  <2>2. CASE UNCHANGED vars
    <3>1. Shaped(s)' /\ Serial(s)' /\ Entries'
      BY <2>1, <2>2 DEF vars, bounds, studio, Inv, Shaped, Serial, Entries, Pushed
    <3>2. Counted(s)' /\ Backed(s)' /\ Told(s)'
      BY <2>1, <2>2 DEF vars, bounds, studio, Inv, Counted, Debts, Backed, Told
    <3>3. QED BY <3>1, <3>2 DEF Inv
  <2>3. CASE Run \/ RunGivesUp \/ Retry(s) \/ Review(s)
    BY <2>1, <2>3, RowStep
  <2>4. CASE Studio(s)
    BY <2>1, <2>4, StudioStep
  <2>5. CASE Edit(s)
    BY <2>1, <2>5, EditStep
  <2>6. CASE Apply(s)
    BY <2>1, <2>6, ApplyBegins, MissingStep, UploadStep, UrlsStep, CopyStep, CommitStep,
       CallFailsStep DEF Apply
  <2>7. CASE Kill(s)
    BY <2>1, <2>7, KillStep
  <2>8. QED BY <2>1, <2>2, <2>3, <2>4, <2>5, <2>6, <2>7 DEF Next
<1>3. QED BY <1>1, <1>2, PTL DEF Spec

\* The gallery gets an image at most once for the approval, once for each re-propagation
\* or studio save and once more for each request that broke off, however many images, stagings and
\* faults there are (upload_images_binary and push_product_images only append).
THEOREM ImagesSentOnce == ASSUME OneAtATime PROVE Spec => []NoDuplicateImage
<1>1. PICK s : Sessions = {s}
  BY DEF OneAtATime
<1>2. Inv(s) => NoDuplicateImage
  <2>1. SUFFICES ASSUME Inv(s), NEW i \in Images
                 PROVE  tillin.images[i] <= 1 + asked[i] + failures + kills
    BY DEF NoDuplicateImage
  <2>2. tillin.images[i] <= 1 + (asked[i] + failures + kills)
    BY <2>1 DEF Inv, Counted, Debts
  <2>3. QED BY <2>1, <2>2, Numbers DEF Inv
<1>3. QED BY <1>1, <1>2, SerialInvariant, PTL

\* An entry under review that is a normalized image has its file, as long as nothing
\* failed and the studio neither discarded nor saved that image: the apply's 409 for a
\* missing file is met for no other reason (no edit takes the file of another entry).
THEOREM EntriesHaveFiles == ASSUME OneAtATime PROVE Spec => []NoDanglingEntry
<1>1. PICK s : Sessions = {s}
  BY DEF OneAtATime
<1>2. Inv(s) => NoDanglingEntry
  BY <1>1 DEF Inv, Backed, NoDanglingEntry, Quiet, Free
<1>3. QED BY <1>1, <1>2, SerialInvariant, PTL

\* Whatever calls fail, the only copy of a normalized image is deleted once the image is
\* in the gallery: the files go only after an upload Tillin reported complete, unless the
\* studio discarded or saved the image.
THEOREM OnlyCopyIsKept == ASSUME OneAtATime PROVE Spec => []NoLostImage
<1>1. PICK s : Sessions = {s}
  BY DEF OneAtATime
<1>2. Inv(s) => NoLostImage
  BY <1>1 DEF Inv, Backed, NoLostImage
<1>3. QED BY <1>1, <1>2, SerialInvariant, PTL

\* An item that is `applied' without a warning has its selected images and its staged
\* copy in the catalogue, whatever failed before.
THEOREM AppliedIsTrue == ASSUME OneAtATime PROVE Spec => []AppliedReached
<1>1. PICK s : Sessions = {s}
  BY DEF OneAtATime
<1>2. Inv(s) => AppliedReached
  BY DEF Inv, Told, AppliedReached
<1>3. QED BY <1>1, <1>2, SerialInvariant, PTL

=============================================================================
