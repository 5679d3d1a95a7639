---------------------------- MODULE TillinProofs ----------------------------
(***************************************************************************)
(* Theorems about Tillin as a shared service, for every set of users,      *)
(* companies, jobs, links, clients and processes, any number of requests   *)
(* and any failures of the calls: whose company a call reads and writes    *)
(* (Tenancy); that a picture of a product is shown by some active row,     *)
(* unless somebody asked to take it out, and that a request nobody         *)
(* disturbed leaves the order it was asked for (ProductGallery); that a    *)
(* drain searches on the sites saved before it (BrandCache); that the      *)
(* images of an item under review follow the requests of its reviewer      *)
(* (ItemGallery); and that the rows sent for a sheet are sold at the       *)
(* ceiling of their rule, sized once, titled without loose separators and  *)
(* told apart by their barcodes (TillinRows).  It ends with what an import *)
(* makes of its documents before anything is sent there (ImportParsing).   *)
(***************************************************************************)
EXTENDS Tenancy, BrandCache, ProductGallery, ItemGallery, TillinRows, ImportParsing, SequenceTheorems,
        FiniteSetTheorems, TLAPS

-----------------------------------------------------------------------------
(* Whose company a call is about *)

\* Only operators move.  The account of a user who has not moved since a login told his
\* company is of that company, and so is that of the upload he has in flight.
AtHome ==
  /\ home \in [Users -> Companies]
  /\ account \in [Users -> Accounts \cup {Missing}]
  /\ jobs \subseteq Accounts \X Users
  /\ moved \subseteq Admins
  /\ \A u \in Users \ moved : account[u] \in {Missing, "default", home[u]}
  /\ puts \subseteq [user : Users, account : Accounts, steady : BOOLEAN]
  /\ \A p \in puts : p.steady /\ p.account \in Companies => home[p.user] = p.account

\* An account given in passing is the default one, and only to a user without any.
LEMMA BackfillAtHome ==
  ASSUME AtHome, NEW u \in Users, Backfill(u), UNCHANGED <<home, moved, puts>>,
         jobs' \subseteq jobs \cup {<<AccountOf(u), u>>}
  PROVE  AtHome'
<1>1. AccountOf(u) \in Accounts /\ (account[u] # Missing => AccountOf(u) = account[u])
      /\ (account[u] = Missing => AccountOf(u) = "default")
  BY DEF AtHome, AccountOf, Accounts
<1>2. account' = [account EXCEPT ![u] = AccountOf(u)]
  BY DEF Backfill
<1>3. account' \in [Users -> Accounts \cup {Missing}]
  BY <1>1, <1>2 DEF AtHome
<1>4. \A v \in Users \ moved : account'[v] \in {Missing, "default", home[v]}
  BY <1>1, <1>2 DEF AtHome
<1>5. jobs' \subseteq Accounts \X Users
  BY <1>1 DEF AtHome
<1>6. QED BY <1>3, <1>4, <1>5 DEF AtHome

\* Every step leaves the client users at home and the uploads right.
LEMMA AtHomeStep ==
  ASSUME AtHome, [Next]_vars
  PROVE  AtHome'
<1>1. ASSUME NEW u \in Users, Login(u) PROVE AtHome'
  <2>1. PICK known \in BOOLEAN :
          /\ account' = [account EXCEPT ![u] = IF known THEN home[u] ELSE account[u]]
          /\ moved' = IF known THEN moved \ {u} ELSE moved
    BY <1>1 DEF Login
  <2>2. UNCHANGED <<home, jobs, puts>>
    BY <1>1 DEF Login, tillin, work
  <2>3. home[u] \in Accounts
    BY DEF AtHome, Accounts
  <2>4. account' \in [Users -> Accounts \cup {Missing}]
    BY <2>1, <2>3 DEF AtHome
  <2>5. \A v \in Users \ moved' : account'[v] \in {Missing, "default", home[v]}
    BY <2>1 DEF AtHome
  <2>6. moved' \subseteq Admins
    BY <2>1 DEF AtHome
  <2>7. QED BY <2>2, <2>4, <2>5, <2>6 DEF AtHome
<1>2. ASSUME NEW u \in Users, LaunchJob(u) \/ SignLink(u) PROVE AtHome'
  BY <1>2, BackfillAtHome DEF LaunchJob, SignLink, tillin
<1>3. ASSUME NEW u \in Admins, NEW c \in Companies, Switch(u, c) PROVE AtHome'
  <2>1. /\ home' = [home EXCEPT ![u] = c] /\ moved' = moved \cup {u} /\ UNCHANGED <<account, jobs>>
        /\ puts' = {IF p.user = u THEN [p EXCEPT !.steady = FALSE] ELSE p : p \in puts}
    BY <1>3 DEF Switch, work
  <2>2. u \in Users
    BY DEF Users
  <2>3. ASSUME NEW q \in puts'
        PROVE  /\ q \in [user : Users, account : Accounts, steady : BOOLEAN]
               /\ q.steady /\ q.account \in Companies => home'[q.user] = q.account
    <3>1. PICK p \in puts : q = IF p.user = u THEN [p EXCEPT !.steady = FALSE] ELSE p
      BY <2>1
    <3>2. p \in [user : Users, account : Accounts, steady : BOOLEAN]
      BY DEF AtHome
    <3>3. CASE p.user # u
      <4>1. q = p /\ home' = [home EXCEPT ![u] = c] /\ home \in [Users -> Companies]
        BY <2>1, <3>1, <3>3 DEF AtHome
      <4>2. /\ home'[p.user] = home[p.user]
            /\ p.steady /\ p.account \in Companies => home[p.user] = p.account
        BY <3>2, <3>3, <4>1 DEF AtHome
      <4>3. QED BY <3>2, <4>1, <4>2
    <3>4. CASE p.user = u
      BY <3>1, <3>2, <3>4
    <3>5. QED BY <3>3, <3>4
  <2>4. \A v \in Users \ moved' : v # u /\ account'[v] \in {Missing, "default", home'[v]}
    BY <2>1, <2>2 DEF AtHome
  <2>5. QED BY <2>1, <2>2, <2>3, <2>4 DEF AtHome
<1>4. ASSUME NEW a \in Accounts, NEW u \in Users, Put(u, a) PROVE AtHome'
  <2>1. PICK steady \in BOOLEAN : steady = (u \notin moved)
    OBVIOUS
  <2>2. PICK p : p = [user |-> u, account |-> a, steady |-> steady]
    OBVIOUS
  <2>3. puts' = {p} /\ AccountOf(u) = a /\ UNCHANGED <<home, account, moved, jobs>>
    BY <1>4, <2>1, <2>2 DEF Put, SameAccount, tillin, identity, work
  <2>4. /\ p \in [user : Users, account : Accounts, steady : BOOLEAN]
        /\ p.user = u /\ p.account = a /\ p.steady = steady
    BY <2>2
  <2>5. ASSUME steady, a \in Companies PROVE home[u] = a
    <3>1. account[u] = a /\ a # "default" /\ a # Missing
      BY <2>3, <2>5, TenancyAssumption DEF TenancyAssumption, AccountOf, Missing
    <3>2. QED BY <2>1, <2>5, <3>1 DEF AtHome
  <2>6. QED BY <2>3, <2>4, <2>5 DEF AtHome
<1>5. CASE UNCHANGED <<home, account, moved>> /\ jobs' \subseteq jobs /\ puts' \subseteq puts
  BY <1>5 DEF AtHome
<1>6. QED
  BY <1>1, <1>2, <1>3, <1>4, <1>5
     DEF Next, vars, Expire, RunJob, ExpireLink, Send, tillin, identity, work

\* Client users stay at home in every behaviour.
LEMMA AtHomeInvariant == Spec => []AtHome
<1>1. Init => AtHome
  BY DEF Init, AtHome
<1>2. QED BY <1>1, AtHomeStep, PTL DEF Spec

\* What a job reads for the account of a company is that company's, with whoever's token,
\* unless its own launcher is an operator, and never as the service.
THEOREM JobsReadTheirCompany == Spec => []JobReadsItsCompany
<1>1. AtHome => JobReadsItsCompany
  <2> SUFFICES ASSUME AtHome, NEW j \in jobs, j[1] \in Companies
               PROVE  LET by == Serving(j[1], j[2])  answer == Answer(j[1], by) IN
                        /\ answer.result # "service"
                        /\ by \cap Admins \subseteq {j[2]}
                        /\ by \cap Admins = {} => answer.company \subseteq {j[1]}
    BY DEF JobReadsItsCompany
  <2> DEFINE by == Serving(j[1], j[2])
  <2>1. j[1] # "default" /\ j[1] # Missing
    BY TenancyAssumption DEF TenancyAssumption, Missing
  <2>2. ASSUME NEW u \in by
        PROVE  /\ u \in Users /\ account[u] = j[1]
               /\ u \in Admins => u = j[2]
    <3>1. j[2] \in Users
      BY DEF AtHome
    <3>2. QED BY <2>2, <3>1 DEF Serving, LauncherUsable, Freshest, Pool
  <2>3. \A u \in by \ Admins : home[u] = j[1]
    BY <2>1, <2>2 DEF AtHome
  <2>4. Answer(j[1], by).result # "service"
    BY <2>1 DEF Answer
  <2>5. by \cap Admins = {} => Answer(j[1], by).company \subseteq {j[1]}
    BY <2>3 DEF Answer
  <2>6. QED BY <2>2, <2>4, <2>5
<1>2. QED BY <1>1, AtHomeInvariant, PTL

\* What goes through an upload link made for the account of a company reaches that company,
\* unless its user has moved in Tillin and not logged in since, or moves during the request
\* (sign_upload, _store, _attach_xano_identity).
THEOREM UploadsReachTheirCompany == Spec => []UploadReachesItsCompany
<1>1. AtHome => UploadReachesItsCompany
  BY DEF AtHome, UploadReachesItsCompany, Answer
<1>2. QED BY <1>1, AtHomeInvariant, PTL

-----------------------------------------------------------------------------
(* No picture is lost *)

\* The gallery is a list of rows, and a request has the fields of a request.
IsRow(r) == r = [picture |-> r.picture, active |-> r.active, position |-> r.position]

IsRequest(q) ==
  q = [pc |-> q.pc, op |-> q.op, ids |-> q.ids, gone |-> q.gone, want |-> q.want,
       alone |-> q.alone]

GalleryShape ==
  /\ \E S : image \in Seq(S)
  /\ \A i \in Ids : IsRow(image[i])
  /\ editor = [e \in Editors |-> editor[e]]
  /\ \A e \in Editors : IsRequest(editor[e])

\* Row k shows the picture of row i.
Shows(k, i) == image[k].picture = image[i].picture

\* The newest row of a picture nobody asked to take out is active.
NewestActive ==
  \A i \in Ids :
    \/ image[i].picture \in removed
    \/ \E k \in Ids : /\ Shows(k, i) /\ image[k].active
                      /\ \A j \in Ids : Shows(j, i) => j <= k

\* A row may go: somebody asked to take its picture out, or a newer row shows it.
MayGo(i) ==
  /\ i \in Ids
  /\ image[i].picture \in removed \/ \E k \in Ids : k > i /\ Shows(k, i)

RequestsKnow ==
  \A e \in Editors :
    /\ editor[e].pc = "deactivate" => \A i \in editor[e].gone : MayGo(i)
    /\ editor[e].pc = "upload" /\ editor[e].op = "rename" =>
         \E i \in Ids : editor[e].gone = {i}

Safe == GalleryShape /\ NewestActive /\ RequestsKnow

\* The ids of the rows are the numbers from 1 to the length of the gallery.
LEMMA IdsAreNumbers ==
  ASSUME GalleryShape
  PROVE  Len(image) \in Nat /\ Ids = 1..Len(image) /\ Ids \subseteq Nat
<1>1. PICK S : image \in Seq(S)
  BY DEF GalleryShape
<1>2. QED BY <1>1, LenProperties DEF Ids

\* An appended row is the newest, and the others are as they were.
LEMMA AppendedRows ==
  ASSUME GalleryShape, NEW p, image' = Appended(p)
  PROVE  /\ Ids' = Ids \cup {Len(image) + 1}
         /\ \A i \in Ids : image'[i] = image[i]
         /\ image'[Len(image) + 1].picture = p /\ image'[Len(image) + 1].active
         /\ image'[Len(image) + 1].position = 1 + Len(image)
         /\ Len(image') = Len(image) + 1
         /\ (\E S : image' \in Seq(S)) /\ (\A i \in Ids' : IsRow(image'[i]))
<1> DEFINE r == [picture |-> p, active |-> TRUE, position |-> 1 + Len(image)]
<1>1. PICK S : image \in Seq(S)
  BY DEF GalleryShape
<1>2. image \in Seq(S \cup {r})
  BY <1>1, SeqMonotonic
<1>3. /\ image' = Append(image, r) /\ image' \in Seq(S \cup {r})
      /\ Len(image') = Len(image) + 1
      /\ \A i \in 1..Len(image) : image'[i] = image[i]
      /\ image'[Len(image) + 1] = r
  BY <1>2 DEF Appended
<1>4. r.picture = p /\ r.active /\ r.position = 1 + Len(image) /\ IsRow(r)
  BY DEF IsRow
<1> HIDE DEF r
<1>5. Ids = 1..Len(image) /\ Len(image) \in Nat
  BY IdsAreNumbers
<1>6. Ids' = 1..(Len(image) + 1)
  BY <1>3, LenProperties DEF Ids
<1>7. \A i \in Ids' : IsRow(image'[i])
  BY <1>3, <1>4, <1>5, <1>6 DEF GalleryShape
<1>8. QED BY <1>3, <1>4, <1>5, <1>6, <1>7

\* Rows rewritten in place are still a list of rows.
LEMMA RewrittenRows ==
  ASSUME GalleryShape, NEW f, image' = f, DOMAIN f = Ids, f = [i \in Ids |-> f[i]]
  PROVE  Ids' = Ids /\ \E S : image' \in Seq(S)
<1>1. Ids = 1..Len(image) /\ Len(image) \in Nat
  BY IdsAreNumbers
<1> DEFINE S == {f[i] : i \in Ids}
<1>2. f \in [1..Len(image) -> S]
  BY <1>1
<1>3. f \in Seq(S)
  BY <1>1, <1>2, SeqDef
<1>4. QED BY <1>3 DEF Ids

\* Deactivation takes rows out of view and changes nothing else of the gallery.
LEMMA DeactivatedRows ==
  ASSUME GalleryShape, NEW G, image' = Deactivated(G)
  PROVE  /\ Ids' = Ids /\ \E S : image' \in Seq(S)
         /\ \A i \in Ids : /\ image'[i].picture = image[i].picture
                           /\ image'[i].active = (image[i].active /\ i \notin G)
                           /\ image'[i].position = image[i].position
                           /\ IsRow(image'[i])
<1>1. /\ DOMAIN Deactivated(G) = Ids
      /\ Deactivated(G) = [i \in Ids |-> Deactivated(G)[i]]
  BY DEF Deactivated
<1>2. \A i \in Ids : image'[i] = [image[i] EXCEPT !.active = image[i].active /\ i \notin G]
  BY DEF Deactivated
<1>3. \A i \in Ids : /\ image'[i].picture = image[i].picture
                     /\ image'[i].active = (image[i].active /\ i \notin G)
                     /\ image'[i].position = image[i].position
                     /\ IsRow(image'[i])
  BY <1>2 DEF GalleryShape, IsRow
<1>4. QED BY <1>1, <1>3, RewrittenRows

\* New positions change nothing else of the gallery.
LEMMA PositionedRows ==
  ASSUME GalleryShape, NEW ids, image' = Positioned(ids)
  PROVE  /\ Ids' = Ids /\ \E S : image' \in Seq(S)
         /\ \A i \in Ids : /\ image'[i].picture = image[i].picture
                           /\ image'[i].active = image[i].active
                           /\ IsRow(image'[i])
<1>1. /\ DOMAIN Positioned(ids) = Ids
      /\ Positioned(ids) = [i \in Ids |-> Positioned(ids)[i]]
  BY DEF Positioned
<1>2. \A i \in Ids : \E n : image'[i] = [image[i] EXCEPT !.position = n] \/ image'[i] = image[i]
  BY DEF Positioned
<1>3. \A i \in Ids : /\ image'[i].picture = image[i].picture
                     /\ image'[i].active = image[i].active
                     /\ IsRow(image'[i])
  BY <1>2 DEF GalleryShape, IsRow
<1>4. QED BY <1>1, <1>3, RewrittenRows

\* What a step may do to the rows.
RowsMove ==
  \/ image' = image
  \/ \E p : image' = Appended(p)
  \/ \E G : image' = Deactivated(G) /\ \A i \in G : MayGo(i)
  \/ \E ids : image' = Positioned(ids)

\* Rows keep their pictures, and whatever may go may still go.
RowsStand ==
  /\ Ids \subseteq Ids' /\ \A i \in Ids : image'[i].picture = image[i].picture
  /\ \E S : image' \in Seq(S)
  /\ \A i \in Ids' : IsRow(image'[i])

\* Whatever a call does to the gallery, every row keeps its picture.
LEMMA RowsMoveStands ==
  ASSUME GalleryShape, RowsMove
  PROVE  RowsStand
<1>1. CASE image' = image
  BY <1>1 DEF RowsStand, GalleryShape, Ids
<1>2. ASSUME NEW p, image' = Appended(p) PROVE RowsStand
  BY <1>2, AppendedRows DEF RowsStand
<1>3. ASSUME NEW G, image' = Deactivated(G) PROVE RowsStand
  BY <1>3, DeactivatedRows DEF RowsStand
<1>4. ASSUME NEW ids, image' = Positioned(ids) PROVE RowsStand
  BY <1>4, PositionedRows DEF RowsStand
<1>5. QED BY <1>1, <1>2, <1>3, <1>4 DEF RowsMove

\* A row that may go still may after any call.
LEMMA MayStillGo ==
  ASSUME RowsStand, removed \subseteq removed', NEW i, MayGo(i)
  PROVE  MayGo(i)'
BY DEF RowsStand, MayGo, Shows

\* A row that may go is never the newest of its picture.
LEMMA NewestStays ==
  ASSUME GalleryShape, NewestActive, RowsMove, removed \subseteq removed'
  PROVE  NewestActive'
<1>1. ASSUME image' = image \/ \E ids : image' = Positioned(ids) PROVE NewestActive'
  <2>1. /\ Ids' = Ids
        /\ \A i \in Ids : /\ image'[i].picture = image[i].picture
                          /\ image'[i].active = image[i].active
    BY <1>1, PositionedRows DEF Ids
  <2>2. QED BY <2>1 DEF NewestActive, Shows
<1>2. ASSUME NEW p, image' = Appended(p) PROVE NewestActive'
  <2>0. PICK new \in Nat : new = Len(image) + 1
    BY IdsAreNumbers
  <2>1. /\ Ids' = Ids \cup {new} /\ \A i \in Ids : image'[i] = image[i]
        /\ image'[new].picture = p /\ image'[new].active
    BY <1>2, <2>0, AppendedRows
  <2>2. \A j \in Ids : j < new
    BY <2>0, IdsAreNumbers
  <2>3. Ids \subseteq Nat
    BY IdsAreNumbers
  <2>4. ASSUME NEW i \in Ids', image'[i].picture \notin removed'
        PROVE  \E k \in Ids' : /\ Shows(k, i)' /\ image'[k].active
                               /\ \A j \in Ids' : Shows(j, i)' => j <= k
    <3>1. CASE image'[i].picture = p
      <4>1. Shows(new, i)' /\ image'[new].active /\ new \in Ids'
        BY <2>1, <3>1 DEF Shows
      <4>2. \A j \in Ids' : j <= new
        BY <2>1, <2>2, <2>3
      <4>3. QED BY <4>1, <4>2
    <3>2. CASE image'[i].picture # p
      <4>1. i \in Ids /\ image[i].picture \notin removed
        BY <2>1, <2>4, <3>2
      <4>2. PICK k \in Ids : /\ Shows(k, i) /\ image[k].active
                             /\ \A j \in Ids : Shows(j, i) => j <= k
        BY <4>1 DEF NewestActive
      <4>3. Shows(k, i)' /\ image'[k].active /\ k \in Ids'
        BY <2>1, <4>1, <4>2 DEF Shows
      <4>4. \A j \in Ids' : Shows(j, i)' => j <= k
        BY <2>1, <3>2, <4>1, <4>2 DEF Shows
      <4>5. QED BY <4>3, <4>4
    <3>3. QED BY <3>1, <3>2
  <2>5. QED BY <2>4 DEF NewestActive
<1>3. ASSUME NEW G, image' = Deactivated(G), \A i \in G : MayGo(i) PROVE NewestActive'
  <2>1. /\ Ids' = Ids
        /\ \A i \in Ids : /\ image'[i].picture = image[i].picture
                          /\ image'[i].active = (image[i].active /\ i \notin G)
    BY <1>3, DeactivatedRows
  <2>2. ASSUME NEW i \in Ids, image[i].picture \notin removed
        PROVE  \E k \in Ids : /\ Shows(k, i)' /\ image'[k].active
                              /\ \A j \in Ids : Shows(j, i)' => j <= k
    <3>1. PICK k \in Ids : /\ Shows(k, i) /\ image[k].active
                           /\ \A j \in Ids : Shows(j, i) => j <= k
      BY <2>2 DEF NewestActive
    <3>2. k \notin G
      <4>1. image[k].picture \notin removed
        BY <2>2, <3>1 DEF Shows
      <4>2. ASSUME k \in G PROVE FALSE
        <5>1. PICK m \in Ids : m > k /\ Shows(m, k)
          BY <1>3, <4>1, <4>2 DEF MayGo
        <5>2. m <= k
          BY <3>1, <5>1 DEF Shows
        <5>3. QED BY <5>1, <5>2, IdsAreNumbers
      <4>3. QED BY <4>2
    <3>3. QED BY <2>1, <3>1, <3>2 DEF Shows
  <2>3. QED BY <2>1, <2>2 DEF NewestActive
<1>4. QED BY <1>1, <1>2, <1>3 DEF RowsMove

\* A field of a request changes, and no other.
LEMMA FieldChange ==
  ASSUME NEW q, IsRequest(q), NEW x
  PROVE  /\ IsRequest([q EXCEPT !.alone = x]) /\ IsRequest([q EXCEPT !.pc = x])
         /\ [q EXCEPT !.alone = x].ids = q.ids /\ [q EXCEPT !.alone = x].alone = x
         /\ [q EXCEPT !.alone = x].pc = q.pc /\ [q EXCEPT !.alone = x].op = q.op
         /\ [q EXCEPT !.alone = x].gone = q.gone
         /\ [q EXCEPT !.pc = x].pc = x
<1>1. PICK p, o, i, g, w, a :
        q = [pc |-> p, op |-> o, ids |-> i, gone |-> g, want |-> w, alone |-> a]
  BY DEF IsRequest
<1>2. [q EXCEPT !.alone = x] = [pc |-> p, op |-> o, ids |-> i, gone |-> g, want |-> w, alone |-> x]
  BY <1>1
<1>3. [q EXCEPT !.pc = x] = [pc |-> x, op |-> o, ids |-> i, gone |-> g, want |-> w, alone |-> a]
  BY <1>1
<1>4. QED BY <1>1, <1>2, <1>3 DEF IsRequest

\* Request o goes on as it was, but for what it knows of the others.
Same(o) ==
  /\ editor'[o].pc = editor[o].pc /\ editor'[o].op = editor[o].op
  /\ editor'[o].gone = editor[o].gone /\ IsRequest(editor'[o])

\* Request e is now what r is, or idle, and the others are as they were.
Becomes(e, r) ==
  /\ editor' = [o \in Editors |-> editor'[o]]
  /\ editor'[e] = r /\ IsRequest(r)
  /\ \A o \in Editors \ {e} : Same(o)

\* Only the request itself changes its step.
LEMMA MovesOne ==
  ASSUME GalleryShape, NEW e \in Editors, NEW r, IsRequest(r),
         Moves(e, r) \/ editor' = [editor EXCEPT ![e] = r]
  PROVE  Becomes(e, r)
<1>1. ASSUME NEW o \in Editors PROVE IsRequest(editor[o])
  BY DEF GalleryShape
<1>2. ASSUME NEW o \in Editors
      PROVE  LET q == [editor[o] EXCEPT !.alone = FALSE] IN
               /\ q.pc = editor[o].pc /\ q.op = editor[o].op /\ q.gone = editor[o].gone
               /\ IsRequest(q)
  BY <1>1, FieldChange
<1>3. CASE Moves(e, r)
  <2>1. editor' = [o \in Editors |-> IF o = e THEN r ELSE [editor[o] EXCEPT !.alone = FALSE]]
    BY <1>3 DEF Moves
  <2>2. editor'[e] = r /\ \A o \in Editors \ {e} : editor'[o] = [editor[o] EXCEPT !.alone = FALSE]
    BY <2>1
  <2>3. editor' = [o \in Editors |-> editor'[o]]
    BY <2>1
  <2>4. QED BY <1>2, <2>2, <2>3 DEF Becomes, Same
<1>4. CASE editor' = [editor EXCEPT ![e] = r]
  <2>1. editor = [o \in Editors |-> editor[o]]
    BY DEF GalleryShape
  <2>2. editor' = [o \in Editors |-> editor'[o]] /\ editor'[e] = r
        /\ \A o \in Editors \ {e} : editor'[o] = editor[o]
    BY <1>4, <2>1
  <2>3. QED BY <1>1, <2>2 DEF Becomes, Same
<1>5. QED BY <1>3, <1>4

\* A step on the rows by a request that then knows what it will deactivate.
LEMMA SafeStep ==
  ASSUME Safe, RowsMove, removed \subseteq removed', NEW e \in Editors, NEW r, Becomes(e, r),
         r.pc = "deactivate" => \A i \in r.gone : MayGo(i)',
         r.pc = "upload" /\ r.op = "rename" => \E i \in Ids : r.gone = {i}
  PROVE  Safe'
<1>1. RowsStand
  BY RowsMoveStands DEF Safe
<1>2. NewestActive'
  BY NewestStays DEF Safe
<1>3. GalleryShape'
  BY <1>1 DEF RowsStand, Becomes, Same, GalleryShape
<1>4. ASSUME NEW o \in Editors
      PROVE  /\ editor'[o].pc = "deactivate" => \A i \in editor'[o].gone : MayGo(i)'
             /\ editor'[o].pc = "upload" /\ editor'[o].op = "rename" =>
                  \E i \in Ids' : editor'[o].gone = {i}
  <2>1. CASE o = e
    <3>1. Ids \subseteq Ids' /\ editor'[o] = r
      BY <1>1, <2>1 DEF RowsStand, Becomes
    <3>2. QED BY <3>1
  <2>2. CASE o # e
    <3>1. /\ editor'[o].pc = editor[o].pc /\ editor'[o].op = editor[o].op
          /\ editor'[o].gone = editor[o].gone
      BY <2>2 DEF Becomes, Same
    <3>2. editor[o].pc = "deactivate" => \A i \in editor[o].gone : MayGo(i)'
      BY <1>1, MayStillGo DEF Safe, RequestsKnow
    <3>3. editor[o].pc = "upload" /\ editor[o].op = "rename" => \E i \in Ids' : editor[o].gone = {i}
      BY <1>1 DEF Safe, RequestsKnow, RowsStand
    <3>4. QED BY <3>1, <3>2, <3>3
  <2>3. QED BY <2>1, <2>2
<1>5. RequestsKnow'
  BY <1>4 DEF RequestsKnow
<1>6. QED BY <1>2, <1>3, <1>5 DEF Safe

\* A request that has ended knows nothing.
LEMMA IdleStep ==
  ASSUME Safe, RowsMove, removed \subseteq removed', NEW e \in Editors,
         Moves(e, Idle) \/ editor' = [editor EXCEPT ![e] = Idle]
  PROVE  Safe'
<1>1. IsRequest(Idle) /\ Idle.pc = "idle"
  BY DEF Idle, IsRequest
<1>2. QED BY <1>1, MovesOne, SafeStep DEF Safe

\* A request accepted: what it will take out is in the gallery and was asked for.
LEMMA AcceptStep ==
  ASSUME Safe, NEW e \in Editors, NEW op, NEW ids, NEW gone, NEW want, NEW first,
         Accept(e, op, ids, gone, want, first), removed \subseteq removed',
         first = "deactivate" => \A i \in gone : image[i].picture \in removed',
         first = "upload" /\ op = "rename" => \E i : gone = {i}
  PROVE  Safe'
<1> DEFINE r == [pc |-> first, op |-> op, ids |-> ids, gone |-> gone, want |-> want,
                 alone |-> first # "position" \/ ToSet(ids) = Active]
<1>1. editor' = [editor EXCEPT ![e] = r] /\ image' = image /\ gone \subseteq Active
  BY DEF Accept
<1>2. IsRequest(r) /\ r.pc = first /\ r.op = op /\ r.gone = gone
  BY DEF IsRequest
<1> HIDE DEF r
<1>3. gone \subseteq Ids /\ Ids' = Ids
  BY <1>1 DEF Active, Ids
<1>4. Becomes(e, r)
  BY <1>1, <1>2, MovesOne DEF Safe
<1>5. r.pc = "deactivate" => \A i \in r.gone : MayGo(i)'
  BY <1>1, <1>2, <1>3 DEF MayGo
<1>6. r.pc = "upload" /\ r.op = "rename" => \E i \in Ids : r.gone = {i}
  BY <1>2, <1>3
<1>7. QED BY <1>1, <1>4, <1>5, <1>6, SafeStep DEF RowsMove

\* Every step of a request keeps the newest rows.
LEMMA SafeNext ==
  ASSUME Safe, [GalleryNext]_galleryVars
  PROVE  Safe'
<1>s. GalleryShape /\ RequestsKnow
  BY DEF Safe
<1>1. ASSUME NEW e \in Editors, Open(e) PROVE Safe'
  <2>1. PICK r : r = [Idle EXCEPT !.pc = "open", !.ids = Listed]
    OBVIOUS
  <2>2. editor' = [editor EXCEPT ![e] = r] /\ UNCHANGED <<image, removed>>
    BY <1>1, <2>1 DEF Open
  <2>3. IsRequest(Idle)
    BY DEF Idle, IsRequest
  <2>4. IsRequest(r) /\ r.pc = "open"
    <3>0. PICK p, o, i, g, w, a :
            Idle = [pc |-> p, op |-> o, ids |-> i, gone |-> g, want |-> w, alone |-> a]
      BY <2>3 DEF IsRequest
    <3>1. [Idle EXCEPT !.pc = "open"]
            = [pc |-> "open", op |-> o, ids |-> i, gone |-> g, want |-> w, alone |-> a]
      BY <3>0
    <3>2. r = [pc |-> "open", op |-> o, ids |-> Listed, gone |-> g, want |-> w, alone |-> a]
      BY <2>1, <3>1
    <3>3. QED BY <3>2 DEF IsRequest
  <2>5. QED BY <1>s, <2>2, <2>4, MovesOne, SafeStep DEF RowsMove
<1>2. ASSUME NEW e \in Editors, Leave(e) \/ Rejected(e) PROVE Safe'
  BY <1>2, IdleStep DEF Leave, Rejected, RowsMove
<1>3. ASSUME NEW e \in Editors, Reorder(e) PROVE Safe'
  <2>1. PICK ids : Accept(e, "reorder", ids, {}, PictureOf(ids), "position")
    BY <1>3 DEF Reorder
  <2>2. removed' = removed
    BY <1>3 DEF Reorder
  <2>3. QED BY <2>1, <2>2, AcceptStep
<1>4. ASSUME NEW e \in Editors, Delete(e) PROVE Safe'
  <2>1. PICK i : /\ Accept(e, "delete", <<>>, {i}, PictureOf(ListedBut({i})), "deactivate")
                 /\ removed' = removed \cup {image[i].picture}
    BY <1>4 DEF Delete
  <2>2. QED BY <2>1, AcceptStep
<1>5. ASSUME NEW e \in Editors, Rename(e) PROVE Safe'
  <2>1. PICK i : Accept(e, "rename", Listed, {i}, PictureOf(Listed), "upload")
    BY <1>5 DEF Rename
  <2>2. removed' = removed
    BY <1>5 DEF Rename
  <2>3. QED BY <2>1, <2>2, AcceptStep
<1>6. ASSUME NEW e \in Editors, Add(e) PROVE Safe'
  <2>1. /\ Accept(e, "add", <<>>, {}, Append(PictureOf(Listed), Len(image) + 1), "upload")
        /\ removed' = removed
    BY <1>6 DEF Add
  <2>2. QED BY <2>1, AcceptStep
<1>7. ASSUME NEW e \in Editors, Arrange(e) PROVE Safe'
  <2>1. PICK order, gone :
          /\ Accept(e, "arrange", order, gone, PictureOf(order),
                    IF gone = {} THEN "position" ELSE "deactivate")
          /\ removed' = removed \cup {image[i].picture : i \in gone}
    BY <1>7 DEF Arrange
  <2>2. QED BY <2>1, AcceptStep
<1>8. ASSUME NEW e \in Editors, Upload(e) PROVE Safe'
  <2> DEFINE r == editor[e]
  <2>1. /\ r.pc = "upload" /\ image' = Appended(PictureSent(r)) /\ removed' = removed
        /\ IF r.op = "rename"
           THEN Moves(e, [r EXCEPT !.pc = "deactivate",
                            !.ids = Replaced(@, CHOOSE i \in r.gone : TRUE, Len(image) + 1)])
           ELSE Moves(e, Idle)
    BY <1>8 DEF Upload, Ends
  <2>2. RowsMove
    BY <2>1 DEF RowsMove
  <2>3. CASE r.op # "rename"
    BY <2>1, <2>2, <2>3, IdleStep
  <2>4. CASE r.op = "rename"
    <3>1. PICK i \in Ids : r.gone = {i}
      BY <1>s, <2>1, <2>4 DEF RequestsKnow
    <3>2. PICK q : Moves(e, q) /\ q = [r EXCEPT !.pc = "deactivate",
                     !.ids = Replaced(@, CHOOSE j \in r.gone : TRUE, Len(image) + 1)]
      BY <2>1, <2>4
    <3>3. IsRequest(q) /\ q.pc = "deactivate" /\ q.gone = {i}
      <4>1. IsRequest(r)
        BY <1>s DEF GalleryShape
      <4>2. PICK p, o, d, g, w, a :
              r = [pc |-> p, op |-> o, ids |-> d, gone |-> g, want |-> w, alone |-> a]
        BY <4>1 DEF IsRequest
      <4>3. [r EXCEPT !.pc = "deactivate"]
              = [pc |-> "deactivate", op |-> o, ids |-> d, gone |-> g, want |-> w, alone |-> a]
        BY <4>2
      <4>4. PICK x : q = [[r EXCEPT !.pc = "deactivate"] EXCEPT !.ids = x]
        BY <3>2
      <4>5. q = [pc |-> "deactivate", op |-> o, ids |-> x, gone |-> g, want |-> w, alone |-> a]
        BY <4>3, <4>4
      <4>6. r.gone = g
        BY <4>2
      <4>7. QED BY <3>1, <4>5, <4>6 DEF IsRequest
    <3>4. MayGo(i)'
      <4>1. PICK new \in Nat : new = Len(image) + 1
        BY <1>s, IdsAreNumbers
      <4>2. PictureSent(r) = image[i].picture
        BY <2>4, <3>1 DEF PictureSent
      <4>3. /\ Ids' = Ids \cup {new} /\ image'[i] = image[i]
            /\ image'[new].picture = image[i].picture
        BY <1>s, <2>1, <4>1, <4>2, AppendedRows
      <4>4. new > i
        BY <1>s, <4>1, IdsAreNumbers
      <4>5. QED BY <4>3, <4>4 DEF MayGo, Shows
    <3>5. Becomes(e, q)
      BY <1>s, <3>2, <3>3, MovesOne
    <3>6. QED BY <2>1, <2>2, <3>3, <3>4, <3>5, SafeStep
  <2>5. QED BY <2>3, <2>4
<1>9. ASSUME NEW e \in Editors, Deactivate(e) PROVE Safe'
  <2> DEFINE r == editor[e]
  <2>1. /\ r.pc = "deactivate" /\ image' = Deactivated(r.gone) /\ removed' = removed
        /\ Moves(e, Idle) \/ Moves(e, [r EXCEPT !.pc = "position"])
    BY <1>9 DEF Deactivate, Ends
  <2>2. RowsMove
    BY <1>s, <2>1 DEF RowsMove, RequestsKnow
  <2>3. CASE Moves(e, Idle)
    BY <2>1, <2>2, <2>3, IdleStep
  <2>4. CASE Moves(e, [r EXCEPT !.pc = "position"])
    <3>1. PICK q : Moves(e, q) /\ q = [r EXCEPT !.pc = "position"]
      BY <2>4
    <3>2. IsRequest(q) /\ q.pc = "position"
      BY <1>s, <3>1 DEF GalleryShape, IsRequest
    <3>3. Becomes(e, q)
      BY <1>s, <3>1, <3>2, MovesOne
    <3>4. QED BY <2>1, <2>2, <3>2, <3>3, SafeStep
  <2>5. QED BY <2>1, <2>3, <2>4
<1>10. ASSUME NEW e \in Editors, Position(e) \/ HalfUploaded(e) \/ Breaks(e) PROVE Safe'
  <2>1. Moves(e, Idle) /\ removed' = removed
    BY <1>10 DEF Position, HalfUploaded, Breaks, Ends
  <2>2. RowsMove
    BY <1>s, <1>10 DEF Position, HalfUploaded, Breaks, RowsMove, RequestsKnow
  <2>3. QED BY <2>1, <2>2, IdleStep
<1>11. CASE UNCHANGED galleryVars
  BY <1>11 DEF galleryVars, Safe, GalleryShape, NewestActive, RequestsKnow, MayGo, Shows, Ids
<1>12. QED
  BY <1>1, <1>2, <1>3, <1>4, <1>5, <1>6, <1>7, <1>8, <1>9, <1>10, <1>11 DEF GalleryNext

\* At the start every picture has its one active row and no request has begun.
LEMMA SafeInit ==
  ASSUME GalleryInit
  PROVE  Safe
<1>1. /\ image = [i \in 1..Opening |-> [picture |-> i, active |-> TRUE, position |-> i]]
      /\ editor = [e \in Editors |-> Idle]
  BY DEF GalleryInit
<1>2. \E S : image \in Seq(S)
  <2>1. PICK S : S = [picture : Nat, active : BOOLEAN, position : Nat]
    OBVIOUS
  <2>2. image \in [1..Opening -> S]
    BY <1>1, <2>1, GalleryAssumption DEF GalleryAssumption
  <2>3. QED BY <2>2, SeqDef, GalleryAssumption DEF GalleryAssumption
<1>3. Ids = 1..Opening /\ \A i \in Ids : IsRow(image[i]) /\ image[i].picture = i /\ image[i].active
  BY <1>1 DEF Ids, IsRow
<1>4. IsRequest(Idle) /\ Idle.pc = "idle"
  BY DEF Idle, IsRequest
<1>5. GalleryShape
  BY <1>1, <1>2, <1>3, <1>4 DEF GalleryShape
<1>6. NewestActive
  BY <1>3 DEF NewestActive, Shows
<1>7. RequestsKnow
  BY <1>1, <1>4 DEF RequestsKnow
<1>8. QED BY <1>5, <1>6, <1>7 DEF Safe

\* However the requests overlap, and wherever they stop, a picture leaves the gallery
\* only when somebody asked to take it out.
THEOREM PicturesAreKept == GallerySpec => []NoPictureLost
<1>1. GalleryInit => Safe
  BY SafeInit
<1>2. Safe /\ [GalleryNext]_galleryVars => Safe'
  BY SafeNext
<1>3. Safe => NoPictureLost
  BY DEF Safe, NewestActive, NoPictureLost, Active, Shows
<1>4. QED BY <1>1, <1>2, <1>3, PTL DEF GallerySpec

-----------------------------------------------------------------------------
(* A finite set in order *)

\* R tells any two elements of A apart, one way only.
Ranks(R, A) ==
  /\ \A i \in A : <<i, i>> \notin R
  /\ \A i, j, k \in A : <<i, j>> \in R /\ <<j, k>> \in R => <<i, k>> \in R
  /\ \A i, j \in A : i # j => <<i, j>> \in R \/ <<j, i>> \in R

\* A list of all of A, each element before those that come after it in R.
Sorted(s, A, R) ==
  /\ s \in [1..Cardinality(A) -> A]
  /\ \A m, n \in 1..Cardinality(A) : m < n => <<s[m], s[n]>> \in R

\* A list that puts all elements of a finite set in order has each of them once.
LEMMA SortedOnce ==
  ASSUME NEW A, IsFiniteSet(A), NEW R, Ranks(R, A), NEW s, Sorted(s, A, R)
  PROVE  /\ Cardinality(A) \in Nat
         /\ \A m, n \in 1..Cardinality(A) : s[m] = s[n] => m = n
         /\ \A i \in A : \E n \in 1..Cardinality(A) : s[n] = i
<1> DEFINE N == 1..Cardinality(A)
<1>1. Cardinality(A) \in Nat
  BY FS_CardinalityType
<1>2. ASSUME NEW m \in N, NEW n \in N, s[m] = s[n] PROVE m = n
  <2>1. ~(m < n) /\ ~(n < m)
    BY <1>2 DEF Sorted, Ranks
  <2>2. QED BY <1>1, <2>1
<1>3. s \in Injection(N, A)
  BY <1>2 DEF Injection, IsInjective, Sorted
<1>4. 1 \in Int /\ Cardinality(A) \in Int
  BY <1>1
<1>5. IsFiniteSet(N) /\ Cardinality(N) = Cardinality(A)
  BY <1>1, <1>4, FS_Interval
<1>6. s \in Surjection(N, A)
  BY <1>3, <1>5, FS_Injection
<1>7. QED BY <1>1, <1>2, <1>6 DEF Surjection

\* As many elements are before the n-th as its rank says.
LEMMA SortedRank ==
  ASSUME NEW A, IsFiniteSet(A), NEW R, Ranks(R, A), NEW s, Sorted(s, A, R),
         NEW n \in 1..Cardinality(A)
  PROVE  Cardinality({j \in A : <<j, s[n]>> \in R}) = n - 1
<1> DEFINE N == 1..Cardinality(A)
           P == {j \in A : <<j, s[n]>> \in R}
           f == [m \in 1..(n - 1) |-> s[m]]
<1>1. /\ Cardinality(A) \in Nat /\ \A i \in A : \E m \in N : s[m] = i
      /\ \A m, k \in N : s[m] = s[k] => m = k
  BY SortedOnce
<1>2. n \in Nat /\ 1..(n - 1) \subseteq N /\ \A m \in 1..(n - 1) : m < n
  BY <1>1
<1>3. \A m \in 1..(n - 1) : f[m] = s[m] /\ f[m] \in P
  BY <1>2 DEF Sorted
<1>4. ASSUME NEW j \in P PROVE \E m \in 1..(n - 1) : f[m] = j
  <2>1. PICK m \in N : s[m] = j
    BY <1>1
  <2>2. m < n
    <3>1. ~(n < m)
      BY <1>4, <2>1 DEF Sorted, Ranks
    <3>2. m # n
      BY <1>4, <2>1 DEF Ranks
    <3>3. QED BY <1>1, <1>2, <3>1, <3>2
  <2>3. m \in 1..(n - 1)
    BY <1>1, <1>2, <2>2
  <2>4. QED BY <2>1, <2>3
<1>5. f \in Bijection(1..(n - 1), P)
  <2>1. f \in [1..(n - 1) -> P]
    BY <1>3
  <2>2. \A m, k \in 1..(n - 1) : f[m] = f[k] => m = k
    BY <1>1, <1>2
  <2>3. QED BY <1>4, <2>1, <2>2 DEF Bijection, Injection, IsInjective, Surjection
<1>6. 1 \in Int /\ n - 1 \in Int /\ n - 1 >= 0
  BY <1>2
<1>7. IsFiniteSet(1..(n - 1)) /\ Cardinality(1..(n - 1)) = n - 1
  BY <1>6, FS_Interval
<1> HIDE DEF P, f
<1>8. ExistsBijection(1..(n - 1), P)
  BY <1>5 DEF ExistsBijection
<1>9. Cardinality(P) = n - 1
  BY <1>7, <1>8, FS_Bijection
<1>10. QED BY <1>9 DEF P

\* There is one list that puts a finite set in order, and InOrder is that list.
LEMMA InOrderIs ==
  ASSUME NEW A, IsFiniteSet(A), NEW R, Ranks(R, A), NEW s, Sorted(s, A, R)
  PROVE  InOrder(A, R) = s
<1> DEFINE N == 1..Cardinality(A)
           at(n) == CHOOSE i \in A : Cardinality({j \in A : <<j, i>> \in R}) = n - 1
<1>1. /\ Cardinality(A) \in Nat /\ \A i \in A : \E m \in N : s[m] = i
  BY SortedOnce
<1>2. \A m \in N : Cardinality({j \in A : <<j, s[m]>> \in R}) = m - 1
  BY SortedRank
<1>3. ASSUME NEW n \in N PROVE at(n) = s[n]
  <2>1. s[n] \in A /\ Cardinality({j \in A : <<j, s[n]>> \in R}) = n - 1
    BY <1>2 DEF Sorted
  <2>2. at(n) \in A /\ Cardinality({j \in A : <<j, at(n)>> \in R}) = n - 1
    BY <2>1
  <2> HIDE DEF at
  <2>3. PICK m \in N : s[m] = at(n)
    BY <1>1, <2>2
  <2>4. m - 1 = n - 1
    BY <1>2, <2>2, <2>3
  <2>5. QED BY <1>1, <2>3, <2>4
<1>4. InOrder(A, R) = [n \in N |-> at(n)]
  BY DEF InOrder
<1> HIDE DEF at
<1>5. s = [n \in N |-> s[n]]
  BY DEF Sorted
<1>6. QED BY <1>3, <1>4, <1>5

\* InOrder puts a finite set in order.
LEMMA InOrderSorts ==
  ASSUME NEW A, IsFiniteSet(A), NEW R, Ranks(R, A)
  PROVE  Sorted(InOrder(A, R), A, R)
<1> DEFINE N == 1..Cardinality(A)
           P(i) == {j \in A : <<j, i>> \in R}
           f == [i \in A |-> Cardinality(P(i)) + 1]
<1>1. ASSUME NEW i \in A
      PROVE  IsFiniteSet(P(i)) /\ Cardinality(P(i)) \in Nat /\ i \notin P(i)
  <2>1. P(i) \in SUBSET A
    OBVIOUS
  <2>2. IsFiniteSet(P(i))
    BY <2>1, FS_Subset
  <2>3. QED BY <2>2, FS_CardinalityType DEF Ranks
<1>2. ASSUME NEW i \in A, NEW j \in A, <<i, j>> \in R
      PROVE  Cardinality(P(i)) < Cardinality(P(j))
  <2>1. P(i) \cup {i} \in SUBSET P(j)
    BY <1>2 DEF Ranks
  <2>2. Cardinality(P(i) \cup {i}) = Cardinality(P(i)) + 1
    BY <1>1, FS_AddElement
  <2>3. Cardinality(P(i) \cup {i}) <= Cardinality(P(j))
    BY <1>1, <2>1, FS_Subset
  <2> HIDE DEF P
  <2>4. QED BY <1>1, <2>2, <2>3
<1>3. Cardinality(A) \in Nat
  BY FS_CardinalityType
<1>4. ASSUME NEW i \in A PROVE Cardinality(P(i)) + 1 \in N
  <2>1. P(i) \cup {i} \in SUBSET A
    OBVIOUS
  <2>2. Cardinality(P(i) \cup {i}) = Cardinality(P(i)) + 1
    BY <1>1, FS_AddElement
  <2>3. Cardinality(P(i) \cup {i}) <= Cardinality(A)
    BY <2>1, FS_Subset
  <2> HIDE DEF P
  <2>4. QED BY <1>1, <1>3, <2>2, <2>3
<1> HIDE DEF P
<1>5. f \in Injection(A, N)
  <2>1. f \in [A -> N]
    BY <1>4
  <2>2. ASSUME NEW i \in A, NEW j \in A, f[i] = f[j] PROVE i = j
    <3>1. Cardinality(P(i)) = Cardinality(P(j))
      BY <1>1, <2>2
    <3>2. <<i, j>> \notin R /\ <<j, i>> \notin R
      BY <1>1, <1>2, <3>1
    <3>3. QED BY <3>2 DEF Ranks
  <2>3. QED BY <2>1, <2>2 DEF Injection, IsInjective
<1>6. 1 \in Int /\ Cardinality(A) \in Int
  BY <1>3
<1>7. IsFiniteSet(N) /\ Cardinality(N) = Cardinality(A)
  BY <1>3, <1>6, FS_Interval
<1>8. f \in Surjection(A, N)
  BY <1>5, <1>7, FS_Injection
<1>9. ASSUME NEW n \in N PROVE \E i \in A : Cardinality(P(i)) = n - 1
  <2>1. PICK i \in A : f[i] = n
    BY <1>8 DEF Surjection
  <2>2. QED BY <1>1, <2>1
<1> DEFINE s == InOrder(A, R)
<1>10. s = [n \in N |-> CHOOSE i \in A : Cardinality(P(i)) = n - 1]
  BY DEF InOrder, P
<1>11. ASSUME NEW n \in N PROVE s[n] \in A /\ Cardinality(P(s[n])) = n - 1
  BY <1>9, <1>10
<1>12. s \in [N -> A]
  BY <1>10, <1>11
<1> HIDE DEF s
<1>13. ASSUME NEW m \in N, NEW n \in N, m < n PROVE <<s[m], s[n]>> \in R
  <2>1. s[m] \in A /\ s[n] \in A /\ Cardinality(P(s[m])) = m - 1 /\ Cardinality(P(s[n])) = n - 1
    BY <1>11
  <2>2. s[m] # s[n]
    BY <1>3, <1>13, <2>1
  <2>3. <<s[n], s[m]>> \notin R
    BY <1>2, <1>3, <1>13, <2>1
  <2>4. QED BY <2>1, <2>2, <2>3 DEF Ranks
<1>14. Sorted(s, A, R)
  BY <1>12, <1>13 DEF Sorted
<1>15. QED BY <1>14 DEF s

-----------------------------------------------------------------------------
(* A request no other one disturbed leaves the order it was asked for *)

\* A list of rows without repetition, and of which rows.
Once(ids) == \A m, n \in DOMAIN ids : ids[m] = ids[n] => m = n
Lists(ids, A) == ids \in Seq(A) /\ Once(ids) /\ ToSet(ids) = A

\* The positions Tillin holds never go beyond the number of rows.
Placed == \A i \in Ids : image[i].position \in 0..Len(image)

\* What a request that nobody disturbed knows of the gallery, from its reading to its
\* last call.
KnowsOrder(q) ==
  q.alone =>
    /\ q.pc = "position" => ToSet(q.ids) = Active /\ q.want = PictureOf(q.ids)
    /\ q.pc = "deactivate" /\ q.op = "delete" => q.want = PictureOf(ListedBut(q.gone))
    /\ q.pc = "deactivate" /\ q.op # "delete" =>
         ToSet(q.ids) = Active \ q.gone /\ q.want = PictureOf(q.ids)
    /\ q.pc = "upload" /\ q.op = "rename" =>
         /\ q.ids = Listed /\ q.want = PictureOf(Listed)
         /\ \E i \in Active : q.gone = {i}
    /\ q.pc = "upload" /\ q.op # "rename" => q.want = Append(PictureOf(Listed), Len(image) + 1)

RequestsInOrder ==
  \A e \in Editors :
    /\ editor[e].ids \in Seq(Ids) /\ Once(editor[e].ids)
    /\ KnowsOrder(editor[e])

InOrderInv == Safe /\ Placed /\ RequestsInOrder /\ OrderAsAsked

\* A list in order is a list of all of the set, each once.
LEMMA SortedLists ==
  ASSUME NEW A, IsFiniteSet(A), NEW R, Ranks(R, A), NEW s, Sorted(s, A, R)
  PROVE  Lists(s, A) /\ Len(s) = Cardinality(A) /\ DOMAIN s = 1..Len(s) /\ Len(s) \in Nat
<1>1. /\ Cardinality(A) \in Nat
      /\ \A m, n \in 1..Cardinality(A) : s[m] = s[n] => m = n
      /\ \A i \in A : \E n \in 1..Cardinality(A) : s[n] = i
  BY SortedOnce
<1>2. s \in [1..Cardinality(A) -> A]
  BY DEF Sorted
<1>3. s \in Seq(A)
  BY <1>1, <1>2, SeqDef
<1>4. DOMAIN s = 1..Cardinality(A) /\ Len(s) = Cardinality(A)
  BY <1>1, <1>2, <1>3, LenProperties
<1>5. ToSet(s) = A
  BY <1>1, <1>2, <1>4 DEF ToSet
<1>6. QED BY <1>1, <1>3, <1>4, <1>5 DEF Lists, Once

\* A list without repetition is as long as the set it lists.
LEMMA ListsLength ==
  ASSUME NEW A, NEW s, Lists(s, A)
  PROVE  /\ IsFiniteSet(A) /\ Cardinality(A) = Len(s) /\ Len(s) \in Nat
         /\ s \in [1..Cardinality(A) -> A]
<1>1. Len(s) \in Nat /\ s \in [1..Len(s) -> A] /\ DOMAIN s = 1..Len(s)
  BY LenProperties DEF Lists
<1>2. s \in Bijection(1..Len(s), A)
  BY <1>1 DEF Lists, Once, ToSet, Bijection, Injection, IsInjective, Surjection
<1>3. 1 \in Int /\ Len(s) \in Int /\ Len(s) >= 0
  BY <1>1
<1>4. IsFiniteSet(1..Len(s)) /\ Cardinality(1..Len(s)) = Len(s)
  BY <1>1, <1>3, FS_Interval
<1>5. ExistsBijection(1..Len(s), A)
  BY <1>2 DEF ExistsBijection
<1>6. IsFiniteSet(A) /\ Cardinality(A) = Len(s)
  BY <1>4, <1>5, FS_Bijection
<1>7. QED BY <1>1, <1>6

\* Position and id tell the rows apart.
LEMMA RowsRanked ==
  GalleryShape /\ Placed =>
    /\ IsFiniteSet(Ids) /\ Cardinality(Ids) = Len(image)
    /\ Ranks(Order, Ids)
<1> SUFFICES ASSUME GalleryShape, Placed
             PROVE  /\ IsFiniteSet(Ids) /\ Cardinality(Ids) = Len(image)
                    /\ Ranks(Order, Ids)
  OBVIOUS
<1>1. Len(image) \in Nat /\ Ids = 1..Len(image) /\ Ids \subseteq Nat
  BY IdsAreNumbers
<1>2. 1 \in Int /\ Len(image) \in Int /\ Len(image) >= 0
  BY <1>1
<1>3. IsFiniteSet(Ids) /\ Cardinality(Ids) = Len(image)
  BY <1>1, <1>2, FS_Interval
<1>4. \A i \in Ids : image[i].position \in Nat
  BY <1>1 DEF Placed
<1>5. \A i, j \in Ids : <<i, j>> \in Order <=> Before(i, j)
  BY DEF Order
<1>6. \A i \in Ids : <<i, i>> \notin Order
  BY <1>1, <1>4, <1>5 DEF Before
<1>7. \A i, j, k \in Ids : <<i, j>> \in Order /\ <<j, k>> \in Order => <<i, k>> \in Order
  BY <1>1, <1>4, <1>5 DEF Before
<1>8. \A i, j \in Ids : i # j => <<i, j>> \in Order \/ <<j, i>> \in Order
  BY <1>1, <1>4, <1>5 DEF Before
<1>9. Ranks(Order, Ids)
  BY <1>6, <1>7, <1>8 DEF Ranks
<1>10. QED BY <1>3, <1>9

\* The gallery shows each active image once, in order, and so do its parts.
LEMMA ListedInOrder ==
  ASSUME GalleryShape, Placed, NEW S
  PROVE  /\ IsFiniteSet(Active \ S) /\ Ranks(Order, Active \ S)
         /\ Sorted(ListedBut(S), Active \ S, Order) /\ Lists(ListedBut(S), Active \ S)
<1>1. IsFiniteSet(Ids) /\ Ranks(Order, Ids)
  BY RowsRanked
<1>2. Active \ S \in SUBSET Ids
  BY DEF Active
<1>3. IsFiniteSet(Active \ S)
  BY <1>1, <1>2, FS_Subset
<1>4. Ranks(Order, Active \ S)
  BY <1>1, <1>2 DEF Ranks
<1>5. Sorted(ListedBut(S), Active \ S, Order)
  BY <1>3, <1>4, InOrderSorts DEF ListedBut
<1>6. QED BY <1>3, <1>4, <1>5, SortedLists

LEMMA ListedAll == Listed = ListedBut({})
<1>1. Active \ {} = Active
  OBVIOUS
<1>2. QED BY <1>1 DEF Listed, ListedBut

\* A list of rows without repetition is no longer than the gallery.
LEMMA ShortList ==
  ASSUME GalleryShape, Placed, NEW ids \in Seq(Ids), Once(ids)
  PROVE  Len(ids) \in Nat /\ Len(ids) <= Len(image) /\ DOMAIN ids = 1..Len(ids)
<1>1. ids \in [1..Len(ids) -> Ids] /\ DOMAIN ids = 1..Len(ids) /\ Len(ids) \in Nat
  BY LenProperties
<1>2. ToSet(ids) \in SUBSET Ids
  BY <1>1 DEF ToSet
<1>3. ids \in [1..Len(ids) -> ToSet(ids)]
  BY <1>1 DEF ToSet
<1>4. ids \in Seq(ToSet(ids))
  BY <1>1, <1>3, SeqDef
<1>5. Lists(ids, ToSet(ids))
  BY <1>4 DEF Lists
<1>6. Cardinality(ToSet(ids)) = Len(ids)
  BY <1>5, ListsLength
<1>7. IsFiniteSet(Ids) /\ Cardinality(Ids) = Len(image)
  BY RowsRanked
<1>8. Cardinality(ToSet(ids)) <= Cardinality(Ids)
  BY <1>2, <1>7, FS_Subset
<1>9. QED BY <1>1, <1>6, <1>7, <1>8

-----------------------------------------------------------------------------
(* What each call does to the order *)

\* The rows and their positions after a call of set_product_image_positions.
LEMMA PositionsSet ==
  ASSUME GalleryShape, NEW ids, Once(ids), image' = Positioned(ids), NEW i \in Ids
  PROVE  IF i \in ToSet(ids)
         THEN \E n \in DOMAIN ids : ids[n] = i /\ image'[i].position = n
         ELSE image'[i].position = image[i].position
<1>1. CASE i \in ToSet(ids)
  <2>1. PICK n \in DOMAIN ids : ids[n] = i
    BY <1>1 DEF ToSet
  <2>2. (CHOOSE m \in DOMAIN ids : ids[m] = i) = n
    BY <2>1 DEF Once
  <2>3. image'[i] = [image[i] EXCEPT !.position = n]
    BY <1>1, <2>2 DEF Positioned
  <2>4. image'[i].position = n
    BY <2>3 DEF GalleryShape, IsRow
  <2>5. QED BY <1>1, <2>1, <2>4
<1>2. CASE i \notin ToSet(ids)
  <2>1. image'[i] = image[i]
    BY <1>2 DEF Positioned
  <2>2. QED BY <1>2, <2>1
<1>3. QED BY <1>1, <1>2

\* The calls of add_product_images, deactivate_product_images and
\* set_product_image_positions, or none, and what they leave of the positions.
OrderedMove ==
  \/ image' = image
  \/ \E p : image' = Appended(p)
  \/ \E G : image' = Deactivated(G)
  \/ \E ids : image' = Positioned(ids) /\ ids \in Seq(Ids) /\ Once(ids)

LEMMA PlacedStep ==
  ASSUME GalleryShape, Placed, OrderedMove
  PROVE  Placed'
<1>0. Len(image) \in Nat /\ Ids = 1..Len(image)
  BY IdsAreNumbers
<1>1. CASE image' = image
  BY <1>1 DEF Placed, Ids
<1>2. ASSUME NEW p, image' = Appended(p) PROVE Placed'
  <2>1. /\ Ids' = Ids \cup {Len(image) + 1} /\ \A i \in Ids : image'[i] = image[i]
        /\ image'[Len(image) + 1].position = 1 + Len(image) /\ Len(image') = Len(image) + 1
    BY <1>2, AppendedRows
  <2>2. QED BY <1>0, <2>1 DEF Placed
<1>3. ASSUME Ids' = Ids, \E S : image' \in Seq(S)
      PROVE  Len(image') = Len(image)
  <2>1. PICK S : image' \in Seq(S)
    BY <1>3
  <2>2. Len(image') \in Nat /\ Ids' = 1..Len(image')
    BY <2>1, LenProperties DEF Ids
  <2>3. QED BY <1>0, <1>3, <2>2
<1>4. ASSUME NEW G, image' = Deactivated(G) PROVE Placed'
  <2>1. Ids' = Ids /\ (\E S : image' \in Seq(S)) /\ \A i \in Ids : image'[i].position = image[i].position
    BY <1>4, DeactivatedRows
  <2>2. QED BY <1>3, <2>1 DEF Placed
<1>5. ASSUME NEW ids \in Seq(Ids), Once(ids), image' = Positioned(ids) PROVE Placed'
  <2>1. Ids' = Ids /\ \E S : image' \in Seq(S)
    BY <1>5, PositionedRows
  <2>2. Len(ids) \in Nat /\ Len(ids) <= Len(image) /\ DOMAIN ids = 1..Len(ids)
    BY <1>5, ShortList
  <2>3. ASSUME NEW i \in Ids PROVE image'[i].position \in 0..Len(image)
    <3>1. image'[i].position \in DOMAIN ids \/ image'[i].position = image[i].position
      BY <1>5, PositionsSet
    <3>2. QED BY <1>0, <2>2, <3>1 DEF Placed
  <2>4. QED BY <1>3, <2>1, <2>3 DEF Placed
<1>6. QED BY <1>1, <1>2, <1>4, <1>5 DEF OrderedMove

\* Positions given in a list of the active images become the order of the gallery.
LEMMA PositionedInOrder ==
  ASSUME GalleryShape, Placed, NEW ids \in Seq(Ids), Once(ids), ToSet(ids) = Active,
         image' = Positioned(ids), GalleryShape', Placed'
  PROVE  Listed' = ids
<1>1. (GalleryShape /\ Placed => Ranks(Order, Ids))'
  BY RowsRanked, PTL
<1>2. /\ Ids' = Ids /\ \A i \in Ids : image'[i].active = image[i].active
  BY PositionedRows
<1>3. Active' = Active /\ Active \subseteq Ids
  BY <1>2 DEF Active
<1>4. Ranks(Order', Active)
  BY <1>1, <1>2, <1>3 DEF Ranks
<1>5. Len(ids) \in Nat /\ DOMAIN ids = 1..Len(ids) /\ ids \in [1..Len(ids) -> Ids]
  BY LenProperties
<1>6. Lists(ids, Active)
  <2>1. ids \in [1..Len(ids) -> Active]
    BY <1>5 DEF ToSet
  <2>2. QED BY <1>5, <2>1, SeqDef DEF Lists
<1>7. IsFiniteSet(Active) /\ Cardinality(Active) = Len(ids)
  BY <1>6, ListsLength
<1>8. ASSUME NEW n \in DOMAIN ids PROVE ids[n] \in Ids /\ image'[ids[n]].position = n
  <2>1. ids[n] \in Ids /\ ids[n] \in ToSet(ids)
    BY <1>5 DEF ToSet
  <2>2. PICK m \in DOMAIN ids : ids[m] = ids[n] /\ image'[ids[n]].position = m
    BY <2>1, PositionsSet
  <2>3. QED BY <2>1, <2>2 DEF Once
<1>9. ASSUME NEW m \in 1..Len(ids), NEW n \in 1..Len(ids), m < n
      PROVE  <<ids[m], ids[n]>> \in Order'
  BY <1>2, <1>5, <1>8, <1>9 DEF Order, Before
<1>10. Sorted(ids, Active, Order')
  BY <1>6, <1>7, <1>9, ListsLength DEF Sorted
<1>11. InOrder(Active, Order') = ids
  BY <1>4, <1>7, <1>10, InOrderIs
<1>12. QED BY <1>3, <1>11 DEF Listed

\* What is taken out leaves the others as they were.
LEMMA DeactivatedInOrder ==
  ASSUME GalleryShape, NEW G, image' = Deactivated(G)
  PROVE  Active' = Active \ G /\ Listed' = ListedBut(G)
<1>1. /\ Ids' = Ids
      /\ \A i \in Ids : /\ image'[i].active = (image[i].active /\ i \notin G)
                        /\ image'[i].position = image[i].position
  BY DeactivatedRows
<1>2. Active' = Active \ G
  BY <1>1 DEF Active
<1>3. Order' = Order
  BY <1>1 DEF Order, Before
<1>4. QED BY <1>2, <1>3 DEF Listed, ListedBut

\* A new image is shown, after all the others.
LEMMA AppendedInOrder ==
  ASSUME GalleryShape, Placed, NEW p, image' = Appended(p), GalleryShape', Placed'
  PROVE  /\ Active' = Active \cup {Len(image) + 1} /\ Len(image) + 1 \notin Ids
         /\ Listed' = Append(Listed, Len(image) + 1)
<1>0. PICK new : new = Len(image) + 1
  OBVIOUS
<1>1. Len(image) \in Nat /\ Ids = 1..Len(image) /\ new \in Nat /\ new \notin Ids
  BY <1>0, IdsAreNumbers
<1>2. /\ Ids' = Ids \cup {new} /\ \A i \in Ids : image'[i] = image[i]
      /\ image'[new].active /\ image'[new].position = new
  BY <1>0, <1>1, AppendedRows
<1>3. Active' = Active \cup {new}
  BY <1>1, <1>2 DEF Active
<1>4. /\ IsFiniteSet(Active) /\ Sorted(Listed, Active, Order) /\ Lists(Listed, Active)
  <2>1. Active \ {} = Active
    OBVIOUS
  <2>2. QED BY <2>1, ListedInOrder, ListedAll
<1>5. Cardinality(Active) = Len(Listed) /\ Len(Listed) \in Nat
      /\ Listed \in [1..Len(Listed) -> Active]
  BY <1>4, ListsLength
<1>6. IsFiniteSet(Active') /\ Cardinality(Active') = Len(Listed) + 1
  <2>1. new \notin Active
    BY <1>1 DEF Active
  <2>2. QED BY <1>3, <1>4, <1>5, <2>1, FS_AddElement
<1>7. (GalleryShape /\ Placed => Ranks(Order, Ids))'
  BY RowsRanked, PTL
<1>8. Ranks(Order', Active')
  BY <1>2, <1>3, <1>7 DEF Ranks, Active
<1> DEFINE s == Append(Listed, new)
<1>9. /\ s \in [1..Len(Listed) + 1 -> Active'] /\ s[Len(Listed) + 1] = new
      /\ \A n \in 1..Len(Listed) : s[n] = Listed[n]
  <2>1. Listed \in Seq(Active')
    BY <1>3, <1>4, SeqMonotonic DEF Lists
  <2>2. new \in Active'
    BY <1>3
  <2>3. /\ s \in Seq(Active') /\ Len(s) = Len(Listed) + 1
        /\ \A n \in 1..Len(Listed) : s[n] = Listed[n] /\ s[Len(Listed) + 1] = new
    BY <2>1, <2>2, AppendProperties
  <2>4. s \in [1..Len(s) -> Active']
    BY <2>3, LenProperties
  <2>5. s[Len(Listed) + 1] = new
    BY <1>5, <2>1, <2>2, AppendProperties
  <2>6. QED BY <2>3, <2>4, <2>5
<1>10. ASSUME NEW m \in 1..(Len(Listed) + 1), NEW n \in 1..(Len(Listed) + 1), m < n
       PROVE  <<s[m], s[n]>> \in Order'
  <2>1. m \in 1..Len(Listed) /\ s[m] = Listed[m] /\ s[m] \in Active
    BY <1>5, <1>9, <1>10
  <2>2. CASE n = Len(Listed) + 1
    <3>1. s[m] \in Ids /\ image'[s[m]].position <= Len(image) /\ image'[s[m]].position \in Nat
      BY <1>1, <1>2, <2>1 DEF Placed, Active
    <3>2. s[n] = new /\ image'[new].position = new /\ image'[s[m]].position < new
      BY <1>0, <1>1, <1>2, <1>9, <2>2, <3>1
    <3>3. QED BY <1>2, <3>1, <3>2 DEF Order, Before
  <2>3. CASE n # Len(Listed) + 1
    <3>1. n \in 1..Len(Listed) /\ s[n] = Listed[n] /\ s[n] \in Active
      BY <1>5, <1>9, <2>3
    <3>2. <<s[m], s[n]>> \in Order
      BY <1>4, <1>5, <1>10, <2>1, <3>1 DEF Sorted
    <3>3. s[m] \in Ids /\ s[n] \in Ids
      BY <2>1, <3>1 DEF Active
    <3>4. image'[s[m]] = image[s[m]] /\ image'[s[n]] = image[s[n]]
      BY <1>2, <3>3
    <3>5. QED BY <1>2, <3>2, <3>3, <3>4 DEF Order, Before
  <2>4. QED BY <2>2, <2>3
<1> HIDE DEF s
<1>11. Sorted(s, Active', Order')
  BY <1>6, <1>9, <1>10 DEF Sorted
<1>12. InOrder(Active', Order') = s
  BY <1>6, <1>8, <1>11, InOrderIs
<1>13. Listed' = s
  BY <1>12 DEF Listed
<1>14. QED BY <1>0, <1>1, <1>3, <1>13 DEF s

-----------------------------------------------------------------------------
(* What the requests know, step by step *)

\* Rows that keep their pictures are listed by the same pictures.
LEMMA PicturesStand ==
  ASSUME NEW ids \in Seq(Ids), \A i \in Ids : image'[i].picture = image[i].picture
  PROVE  PictureOf(ids)' = PictureOf(ids)
<1>1. \A n \in DOMAIN ids : ids[n] \in Ids
  BY LenProperties
<1>2. QED BY <1>1 DEF PictureOf

\* The pictures in the order of the gallery after a step, by rows that had them before.
LEMMA ShownAfter ==
  ASSUME NEW ids \in Seq(Ids), \A i \in Ids : image'[i].picture = image[i].picture,
         Listed' = ids
  PROVE  PictureOf(Listed)' = PictureOf(ids)
<1>1. PictureOf(Listed)' = PictureOf(ids)'
  BY DEF PictureOf
<1>2. QED BY <1>1, PicturesStand

\* As long as no call goes through, a request knows what it knew.
LEMMA KnowsStands ==
  ASSUME image' = image
  PROVE  /\ \A q : KnowsOrder(q) => KnowsOrder(q)'
         /\ Listed' = Listed
<1>1. Ids' = Ids /\ Active' = Active
  BY DEF Ids, Active
<1>2. Order' = Order
  BY <1>1 DEF Order, Before
<1>3. Listed' = Listed
  BY <1>1, <1>2 DEF Listed
<1>4. ASSUME NEW S PROVE ListedBut(S)' = ListedBut(S)
  BY <1>1, <1>2 DEF ListedBut
<1>5. ASSUME NEW q, KnowsOrder(q) PROVE KnowsOrder(q)'
  <2>1. ListedBut(q.gone)' = ListedBut(q.gone)
    BY <1>4
  <2>2. PictureOf(q.ids)' = PictureOf(q.ids) /\ PictureOf(Listed)' = PictureOf(Listed)
    BY <1>3 DEF PictureOf
  <2>3. PictureOf(ListedBut(q.gone))' = PictureOf(ListedBut(q.gone))
    BY <2>1 DEF PictureOf
  <2>4. QED BY <1>1, <1>3, <1>5, <2>2, <2>3 DEF KnowsOrder
<1>6. QED BY <1>3, <1>5

\* The request that moves knows the order of the gallery; the others know no more than
\* they did.
LEMMA OrderStep ==
  ASSUME InOrderInv, Safe', OrderedMove, RowsStand, NEW e \in Editors, NEW r, IsRequest(r),
         \/ Moves(e, r)
         \/ image' = image /\ editor' = [editor EXCEPT ![e] = r],
         r.ids \in Seq(Ids'), Once(r.ids), KnowsOrder(r)', OrderAsAsked'
  PROVE  InOrderInv'
<1>1. GalleryShape /\ Placed /\ RequestsInOrder
  BY DEF InOrderInv, Safe
<1>2. Placed'
  BY <1>1, PlacedStep
<1>3. Ids \subseteq Ids'
  BY DEF RowsStand
<1>4. \A s \in Seq(Ids) : s \in Seq(Ids')
  BY <1>3, SeqMonotonic
<1>5. ASSUME NEW o \in Editors
      PROVE  /\ editor'[o].ids \in Seq(Ids') /\ Once(editor'[o].ids)
             /\ KnowsOrder(editor[o])'
  <2>1. editor[o].ids \in Seq(Ids) /\ Once(editor[o].ids) /\ KnowsOrder(editor[o])
        /\ IsRequest(editor[o])
    BY <1>1 DEF RequestsInOrder, GalleryShape
  <2>2. CASE Moves(e, r)
    <3>1. editor'[o] = IF o = e THEN r ELSE [editor[o] EXCEPT !.alone = FALSE]
      BY <2>2 DEF Moves
    <3>2. CASE o = e
      <4>1. editor'[o] = r
        BY <3>1, <3>2
      <4>2. QED BY <4>1 DEF KnowsOrder
    <3>3. CASE o # e
      <4>1. editor'[o].ids = editor[o].ids /\ editor'[o].alone = FALSE
        BY <2>1, <3>1, <3>3, FieldChange
      <4>2. KnowsOrder(editor[o])'
        BY <4>1 DEF KnowsOrder
      <4>3. QED BY <1>4, <2>1, <4>1, <4>2
    <3>4. QED BY <3>2, <3>3
  <2>3. CASE image' = image /\ editor' = [editor EXCEPT ![e] = r]
    <3>1. editor'[o] = IF o = e THEN r ELSE editor[o]
      BY <1>1, <2>3 DEF GalleryShape
    <3>2. CASE o = e
      <4>1. editor'[o] = r
        BY <3>1, <3>2
      <4>2. QED BY <4>1 DEF KnowsOrder
    <3>3. CASE o # e
      <4>0. PICK q : q = editor[o]
        OBVIOUS
      <4>1. editor'[o] = q /\ KnowsOrder(q)
        BY <2>1, <3>1, <3>3, <4>0
      <4>2. KnowsOrder(q)'
        BY <2>3, <4>1, KnowsStands
      <4>3. KnowsOrder(editor[o])'
        BY <4>1, <4>2 DEF KnowsOrder
      <4>4. QED BY <1>4, <2>1, <4>0, <4>1, <4>3
    <3>4. QED BY <3>2, <3>3
  <2>4. QED BY <2>2, <2>3
<1>6. RequestsInOrder'
  BY <1>5 DEF RequestsInOrder
<1>7. QED BY <1>2, <1>6 DEF InOrderInv

\* A request that has ended knows nothing.
LEMMA OrderIdle ==
  ASSUME InOrderInv, Safe', OrderedMove, RowsStand, NEW e \in Editors,
         \/ Moves(e, Idle)
         \/ image' = image /\ editor' = [editor EXCEPT ![e] = Idle],
         OrderAsAsked'
  PROVE  InOrderInv'
<1>1. PICK r : r = Idle
  OBVIOUS
<1>2. IsRequest(r) /\ r.pc = "idle" /\ r.ids = <<>>
  BY <1>1 DEF Idle, IsRequest
<1>3. r.ids \in Seq(Ids') /\ Once(r.ids)
  BY <1>2, EmptySeq DEF Once
<1>4. KnowsOrder(r)'
  BY <1>2 DEF KnowsOrder
<1>5. QED BY <1>1, <1>2, <1>3, <1>4, OrderStep

\* While no call goes through, the last order stands.
LEMMA LastStands ==
  ASSUME OrderAsAsked, image' = image, last' = last
  PROVE  OrderAsAsked'
<1>1. Listed' = Listed
  BY KnowsStands
<1>2. QED BY <1>1 DEF OrderAsAsked, PictureOf

\* A request accepted knows the gallery as it was read, if it is to know it at all.
LEMMA AcceptOrder ==
  ASSUME InOrderInv, Safe', NEW e \in Editors,
         NEW op, NEW ids, NEW gone, NEW want, NEW first,
         Accept(e, op, ids, gone, want, first),
         ids \in Seq(Ids), Once(ids),
         first = "position" => want = PictureOf(ids),
         first = "deactivate" /\ op = "delete" => want = PictureOf(ListedBut(gone)),
         first = "deactivate" /\ op # "delete" =>
           ToSet(ids) = Active \ gone /\ want = PictureOf(ids),
         first = "upload" /\ op = "rename" =>
           ids = Listed /\ want = PictureOf(Listed) /\ \E i \in Active : gone = {i},
         first = "upload" /\ op # "rename" => want = Append(PictureOf(Listed), Len(image) + 1)
  PROVE  InOrderInv'
<1>1. PICK r : r = [pc |-> first, op |-> op, ids |-> ids, gone |-> gone, want |-> want,
                    alone |-> first # "position" \/ ToSet(ids) = Active]
  OBVIOUS
<1>2. /\ r.pc = first /\ r.op = op /\ r.ids = ids /\ r.gone = gone /\ r.want = want
      /\ r.alone = (first # "position" \/ ToSet(ids) = Active) /\ IsRequest(r)
  BY <1>1 DEF IsRequest
<1>3. editor' = [editor EXCEPT ![e] = r] /\ image' = image /\ last' = last
  BY <1>1 DEF Accept
<1>4. KnowsOrder(r)
  BY <1>2 DEF KnowsOrder
<1>5. KnowsOrder(r)'
  BY <1>3, <1>4, KnowsStands
<1>6. RowsStand /\ OrderedMove /\ Ids' = Ids
  BY <1>3, RowsMoveStands DEF RowsMove, OrderedMove, InOrderInv, Safe, Ids
<1>7. OrderAsAsked'
  BY <1>3, LastStands DEF InOrderInv
<1>8. QED BY <1>2, <1>3, <1>5, <1>6, <1>7, OrderStep

\* What a page asks for has each of the images it has seen at most once.
LEMMA AskedOnce ==
  ASSUME NEW S, NEW ids \in Seq(S), Once(ids), NEW s \in Asked(ids)
  PROVE  s \in Seq(S) /\ Once(s)
<1>1. Len(ids) \in Nat /\ ids \in [1..Len(ids) -> S] /\ DOMAIN ids = 1..Len(ids)
  BY LenProperties
<1>2. CASE s = ids
  BY <1>2
<1>3. CASE s = Reverse(ids)
  <2>1. s = [n \in 1..Len(ids) |-> ids[(Len(ids) - n) + 1]]
    BY <1>3 DEF Reverse
  <2>2. \A n \in 1..Len(ids) : (Len(ids) - n) + 1 \in 1..Len(ids)
    BY <1>1
  <2>3. s \in [1..Len(ids) -> S]
    BY <1>1, <2>1, <2>2
  <2>4. ASSUME NEW m \in 1..Len(ids), NEW n \in 1..Len(ids), s[m] = s[n] PROVE m = n
    <3>1. ids[(Len(ids) - m) + 1] = ids[(Len(ids) - n) + 1]
      BY <2>1, <2>4
    <3>2. (Len(ids) - m) + 1 = (Len(ids) - n) + 1
      BY <1>1, <2>2, <3>1 DEF Once
    <3>3. QED BY <1>1, <3>2
  <2>5. QED BY <1>1, <2>3, <2>4, SeqDef DEF Once
<1>4. ASSUME NEW n \in DOMAIN ids, s = <<ids[n]>> PROVE s \in Seq(S) /\ Once(s)
  <2>1. ids[n] \in S
    BY <1>1
  <2>2. QED BY <1>4, <2>1 DEF Once
<1>5. QED BY <1>2, <1>3, <1>4 DEF Asked

\* Two lists of different images make one.
LEMMA JoinedLists ==
  ASSUME NEW S, NEW s \in Seq(S), NEW t \in Seq(S), Once(s), Once(t),
         ToSet(s) \cap ToSet(t) = {}
  PROVE  s \o t \in Seq(S) /\ Once(s \o t)
<1>1. /\ Len(s) \in Nat /\ DOMAIN s = 1..Len(s)
      /\ Len(t) \in Nat /\ DOMAIN t = 1..Len(t)
  BY LenProperties
<1>2. /\ s \o t \in Seq(S) /\ Len(s \o t) = Len(s) + Len(t)
      /\ \A i \in 1..(Len(s) + Len(t)) :
           (s \o t)[i] = IF i <= Len(s) THEN s[i] ELSE t[i - Len(s)]
  BY ConcatProperties
<1>3. DOMAIN (s \o t) = 1..(Len(s) + Len(t))
  BY <1>2, LenProperties
<1>4. ASSUME NEW i \in 1..(Len(s) + Len(t)), i > Len(s)
      PROVE  i - Len(s) \in DOMAIN t /\ (s \o t)[i] = t[i - Len(s)] /\ (s \o t)[i] \in ToSet(t)
  <2>1. i - Len(s) \in DOMAIN t /\ (s \o t)[i] = t[i - Len(s)]
    BY <1>1, <1>2, <1>4
  <2>2. QED BY <2>1 DEF ToSet
<1>5. ASSUME NEW i \in 1..(Len(s) + Len(t)), i <= Len(s)
      PROVE  i \in DOMAIN s /\ (s \o t)[i] = s[i] /\ (s \o t)[i] \in ToSet(s)
  <2>1. i \in DOMAIN s /\ (s \o t)[i] = s[i]
    BY <1>1, <1>2, <1>5
  <2>2. QED BY <2>1 DEF ToSet
<1>6. ASSUME NEW m \in 1..(Len(s) + Len(t)), NEW n \in 1..(Len(s) + Len(t)),
             (s \o t)[m] = (s \o t)[n]
      PROVE  m = n
  <2>1. CASE m <= Len(s) /\ n <= Len(s)
    BY <1>5, <1>6, <2>1 DEF Once
  <2>2. CASE m > Len(s) /\ n > Len(s)
    <3>1. m - Len(s) = n - Len(s)
      BY <1>4, <1>6, <2>2 DEF Once
    <3>2. QED BY <1>1, <3>1
  <2>3. CASE m <= Len(s) /\ n > Len(s)
    BY <1>4, <1>5, <1>6, <2>3
  <2>4. CASE m > Len(s) /\ n <= Len(s)
    BY <1>4, <1>5, <1>6, <2>4
  <2>5. QED BY <1>1, <2>1, <2>2, <2>3, <2>4
<1>7. QED BY <1>2, <1>3, <1>6 DEF Once

\* The image a rename replaces is where the old one was, and no image is there twice.
LEMMA ReplacedOnce ==
  ASSUME NEW S, NEW ids, NEW i, NEW new, NEW s,
         ids \in Seq(S), Once(ids), i \in S, new \notin S, s = Replaced(ids, i, new)
  PROVE  /\ s \in Seq(S \cup {new}) /\ Once(s) /\ DOMAIN s = DOMAIN ids
         /\ \A n \in DOMAIN ids : s[n] = IF ids[n] = i THEN new ELSE ids[n]
         /\ i \in ToSet(ids) => ToSet(s) = (ToSet(ids) \cup {new}) \ {i}
<1>1. Len(ids) \in Nat /\ ids \in [1..Len(ids) -> S] /\ DOMAIN ids = 1..Len(ids)
  BY LenProperties
<1>2. DOMAIN s = DOMAIN ids /\ \A n \in DOMAIN ids : s[n] = IF ids[n] = i THEN new ELSE ids[n]
  BY DEF Replaced
<1>3. s \in [1..Len(ids) -> S \cup {new}]
  BY <1>1 DEF Replaced
<1>4. s \in Seq(S \cup {new})
  BY <1>1, <1>3, SeqDef
<1>5. Once(s)
  BY <1>1, <1>2 DEF Once
<1>6. ASSUME i \in ToSet(ids) PROVE ToSet(s) = (ToSet(ids) \cup {new}) \ {i}
  <2>1. PICK k \in DOMAIN ids : ids[k] = i
    BY <1>6 DEF ToSet
  <2>2. s[k] = new /\ new # i
    BY <1>2, <2>1
  <2>3. ASSUME NEW j \in ToSet(s) PROVE j \in (ToSet(ids) \cup {new}) \ {i}
    <3>1. PICK n \in DOMAIN ids : s[n] = j
      BY <1>2, <2>3 DEF ToSet
    <3>2. QED BY <1>2, <2>2, <3>1 DEF ToSet
  <2>4. ASSUME NEW j \in ToSet(ids), j # i PROVE j \in ToSet(s)
    <3>1. PICK n \in DOMAIN ids : ids[n] = j
      BY DEF ToSet
    <3>2. s[n] = j
      BY <1>2, <2>4, <3>1
    <3>3. QED BY <1>2, <3>1, <3>2 DEF ToSet
  <2>5. new \in ToSet(s)
    BY <1>2, <2>1, <2>2 DEF ToSet
  <2>6. QED BY <2>3, <2>4, <2>5
<1>7. QED BY <1>2, <1>4, <1>5, <1>6

\* What the new image of a request is put in the place of, and who sees it.
LEMMA OrderUpload ==
  ASSUME InOrderInv, Safe', NEW e \in Editors, Upload(e)
  PROVE  InOrderInv'
<1>s. Safe /\ GalleryShape /\ Placed /\ RequestsInOrder /\ RequestsKnow
  BY DEF InOrderInv, Safe
<1>0. PICK r : r = editor[e]
  OBVIOUS
<1>1. /\ r.pc = "upload" /\ image' = Appended(PictureSent(r)) /\ removed' = removed
      /\ r.ids \in Seq(Ids) /\ Once(r.ids) /\ KnowsOrder(r) /\ IsRequest(r)
  BY <1>s, <1>0 DEF Upload, RequestsInOrder, GalleryShape
<1>2. OrderedMove /\ RowsStand
  BY <1>s, <1>1, RowsMoveStands DEF OrderedMove, RowsMove
<1>3. GalleryShape' /\ Placed'
  BY <1>s, <1>2, PlacedStep DEF Safe
<1>4. PICK new \in Nat : new = Len(image) + 1
  BY <1>s, IdsAreNumbers
<1>5. /\ Active' = Active \cup {new} /\ new \notin Ids /\ Listed' = Append(Listed, new)
      /\ Ids' = Ids \cup {new} /\ \A i \in Ids : image'[i] = image[i]
      /\ image'[new].picture = PictureSent(r)
  BY <1>s, <1>1, <1>3, <1>4, AppendedInOrder, AppendedRows
<1>6. CASE r.op = "rename"
  <2>1. PICK i \in Ids : r.gone = {i}
    BY <1>s, <1>0, <1>1, <1>6 DEF RequestsKnow
  <2>2. (CHOOSE j \in r.gone : TRUE) = i
    BY <2>1
  <2>3. PICK q : /\ Moves(e, q)
                 /\ q = [r EXCEPT !.pc = "deactivate", !.ids = Replaced(r.ids, i, new)]
    BY <1>0, <1>4, <1>6, <2>2 DEF Upload
  <2>4. last' = Nothing
    BY <1>0, <1>6 DEF Upload
  <2>5. PICK s : s = Replaced(r.ids, i, new)
    OBVIOUS
  <2>6. /\ IsRequest(q) /\ q.pc = "deactivate" /\ q.op = r.op /\ q.gone = r.gone
        /\ q.want = r.want /\ q.alone = r.alone /\ q.ids = s
    <3>1. PICK p, o, d, g, w, a :
            r = [pc |-> p, op |-> o, ids |-> d, gone |-> g, want |-> w, alone |-> a]
      BY <1>1 DEF IsRequest
    <3>2. [r EXCEPT !.pc = "deactivate"]
            = [pc |-> "deactivate", op |-> o, ids |-> d, gone |-> g, want |-> w, alone |-> a]
      BY <3>1
    <3>3. q = [pc |-> "deactivate", op |-> o, ids |-> s, gone |-> g, want |-> w, alone |-> a]
      BY <2>3, <2>5, <3>2
    <3>4. QED BY <3>1, <3>3 DEF IsRequest
  <2>7. /\ s \in Seq(Ids \cup {new}) /\ Once(s) /\ DOMAIN s = DOMAIN r.ids
        /\ \A n \in DOMAIN r.ids : s[n] = IF r.ids[n] = i THEN new ELSE r.ids[n]
        /\ i \in ToSet(r.ids) => ToSet(s) = (ToSet(r.ids) \cup {new}) \ {i}
    <3>1. PICK ids, S : ids = r.ids /\ S = Ids
      OBVIOUS
    <3>2. /\ ids \in Seq(S) /\ Once(ids) /\ s = Replaced(ids, i, new)
          /\ new \notin S /\ i \in S
      BY <1>1, <1>5, <2>5, <3>1
    <3>3. /\ s \in Seq(S \cup {new}) /\ Once(s) /\ DOMAIN s = DOMAIN ids
          /\ \A n \in DOMAIN ids : s[n] = IF ids[n] = i THEN new ELSE ids[n]
          /\ i \in ToSet(ids) => ToSet(s) = (ToSet(ids) \cup {new}) \ {i}
      BY <3>2, ReplacedOnce
    <3>4. QED BY <3>1, <3>3
  <2>8. ASSUME r.alone PROVE ToSet(s) = Active' \ {i} /\ r.want = PictureOf(s)'
    <3>1. r.ids = Listed /\ r.want = PictureOf(Listed) /\ i \in Active
      BY <1>1, <1>6, <2>1, <2>8 DEF KnowsOrder
    <3>2. ToSet(Listed) = Active
      <4>1. Active \ {} = Active
        OBVIOUS
      <4>2. QED BY <1>s, <4>1, ListedInOrder, ListedAll DEF Lists
    <3>3. ToSet(s) = Active' \ {i}
      BY <1>5, <2>7, <3>1, <3>2 DEF Active
    <3>4. PictureSent(r) = image[i].picture
      BY <1>6, <2>2 DEF PictureSent
    <3>5. ASSUME NEW n \in DOMAIN s PROVE image'[s[n]].picture = image[r.ids[n]].picture
      <4>1. r.ids[n] \in Ids
        BY <1>1, <2>7, LenProperties
      <4>2. QED BY <1>5, <2>7, <3>4, <4>1
    <3>6. PictureOf(s)' = PictureOf(r.ids)
      BY <2>7, <3>5 DEF PictureOf
    <3>7. QED BY <3>1, <3>3, <3>6
  <2>9. KnowsOrder(q)'
    BY <1>6, <2>1, <2>6, <2>8 DEF KnowsOrder
  <2>10. OrderAsAsked'
    BY <2>4 DEF OrderAsAsked, Nothing
  <2>11. QED BY <1>2, <1>5, <2>3, <2>6, <2>7, <2>9, <2>10, OrderStep
<1>7. CASE r.op # "rename"
  <2>1. Moves(e, Idle) /\ last' = [want |-> r.want, sure |-> r.alone]
    BY <1>0, <1>7 DEF Upload, Ends
  <2>2. ASSUME r.alone PROVE PictureOf(Listed)' = r.want
    <3>1. r.want = Append(PictureOf(Listed), new)
      BY <1>1, <1>4, <1>7, <2>2 DEF KnowsOrder
    <3>2. image'[new].picture = new
      BY <1>4, <1>5, <1>7 DEF PictureSent
    <3>3. Listed \in Seq(Ids)
      <4>1. Active \ {} = Active /\ Active \subseteq Ids
        BY DEF Active
      <4>2. Listed \in Seq(Active)
        BY <1>s, <4>1, ListedInOrder, ListedAll DEF Lists
      <4>3. QED BY <4>1, <4>2, SeqMonotonic
    <3>4. PICK ids \in Seq(Ids) : ids = Listed
      BY <3>3
    <3>5. /\ Len(ids) \in Nat /\ ids \in [1..Len(ids) -> Ids] /\ DOMAIN ids = 1..Len(ids)
      BY LenProperties
    <3>6. PictureOf(ids) = [n \in 1..Len(ids) |-> image[ids[n]].picture]
      BY <3>5 DEF PictureOf
    <3>7. PICK P : P = {image[i].picture : i \in Ids} \cup {new}
      OBVIOUS
    <3>8. PictureOf(ids) \in [1..Len(ids) -> P]
      BY <3>5, <3>6, <3>7
    <3>9. PictureOf(ids) \in Seq(P) /\ Len(PictureOf(ids)) = Len(ids)
      BY <3>5, <3>8, SeqDef, LenProperties
    <3>10. PICK w : w = Append(PictureOf(ids), new)
      OBVIOUS
    <3>11. /\ w \in Seq(P) /\ Len(w) = Len(ids) + 1 /\ w[Len(ids) + 1] = new
           /\ \A n \in 1..Len(ids) : w[n] = image[ids[n]].picture
      BY <3>5, <3>6, <3>7, <3>9, <3>10, AppendProperties
    <3>12. w = [n \in 1..(Len(ids) + 1) |-> w[n]]
      BY <3>11, LenProperties
    <3>13. PICK l : l = Append(ids, new)
      OBVIOUS
    <3>14. /\ l \in Seq(Ids \cup {new}) /\ Len(l) = Len(ids) + 1 /\ l[Len(ids) + 1] = new
           /\ \A n \in 1..Len(ids) : l[n] = ids[n]
      <4>1. ids \in Seq(Ids \cup {new})
        BY SeqMonotonic
      <4>2. QED BY <3>5, <3>13, <4>1, AppendProperties
    <3>15. DOMAIN l = 1..(Len(ids) + 1)
      BY <3>14, LenProperties
    <3>16. ASSUME NEW n \in 1..(Len(ids) + 1) PROVE image'[l[n]].picture = w[n]
      <4>1. CASE n \in 1..Len(ids)
        BY <1>5, <3>5, <3>11, <3>14, <4>1
      <4>2. CASE n = Len(ids) + 1
        BY <3>2, <3>11, <3>14, <4>2
      <4>3. QED BY <3>5, <4>1, <4>2
    <3>17. Listed' = l
      BY <1>5, <3>4, <3>13
    <3>18. PictureOf(Listed)' = [n \in 1..(Len(ids) + 1) |-> image'[l[n]].picture]
      BY <3>15, <3>17 DEF PictureOf
    <3>19. QED BY <3>1, <3>4, <3>10, <3>12, <3>16, <3>18
  <2>3. OrderAsAsked'
    BY <2>1, <2>2 DEF OrderAsAsked
  <2>4. QED BY <1>2, <2>1, <2>3, OrderIdle
<1>8. QED BY <1>6, <1>7

\* Every step of a request keeps what the requests know.
LEMMA OrderNext ==
  ASSUME InOrderInv, Safe', [GalleryNext]_galleryVars
  PROVE  InOrderInv'
<1>s. Safe /\ GalleryShape /\ Placed /\ RequestsInOrder /\ RequestsKnow /\ OrderAsAsked
  BY DEF InOrderInv, Safe
<1>l. /\ Lists(Listed, Active) /\ Listed \in Seq(Ids) /\ Once(Listed)
      /\ \A S : Lists(ListedBut(S), Active \ S)
  <2>1. Active \ {} = Active /\ Active \subseteq Ids
    BY DEF Active
  <2>2. \A S : Lists(ListedBut(S), Active \ S)
    BY <1>s, ListedInOrder
  <2>3. Lists(Listed, Active)
    BY <2>1, <2>2, ListedAll
  <2>4. QED BY <2>1, <2>2, <2>3, SeqMonotonic DEF Lists
<1>o. ASSUME NEW e \in Editors
      PROVE  editor[e].ids \in Seq(Ids) /\ Once(editor[e].ids) /\ KnowsOrder(editor[e])
             /\ IsRequest(editor[e])
  BY <1>s DEF RequestsInOrder, GalleryShape
<1>u. ASSUME image' = image
      PROVE  OrderedMove /\ RowsStand /\ Ids' = Ids
  BY <1>s, <1>u, RowsMoveStands DEF OrderedMove, RowsMove, Ids
<1>1. ASSUME NEW e \in Editors, Open(e) PROVE InOrderInv'
  <2>1. PICK r : r = [Idle EXCEPT !.pc = "open", !.ids = Listed]
    OBVIOUS
  <2>2. editor' = [editor EXCEPT ![e] = r] /\ UNCHANGED <<image, last>>
    BY <1>1, <2>1 DEF Open
  <2>3. IsRequest(r) /\ r.pc = "open" /\ r.ids = Listed
    <3>0. IsRequest(Idle)
      BY DEF Idle, IsRequest
    <3>1. PICK p, o, i, g, w, a :
            Idle = [pc |-> p, op |-> o, ids |-> i, gone |-> g, want |-> w, alone |-> a]
      BY <3>0 DEF IsRequest
    <3>2. [Idle EXCEPT !.pc = "open"]
            = [pc |-> "open", op |-> o, ids |-> i, gone |-> g, want |-> w, alone |-> a]
      BY <3>1
    <3>3. r = [pc |-> "open", op |-> o, ids |-> Listed, gone |-> g, want |-> w, alone |-> a]
      BY <2>1, <3>2
    <3>4. QED BY <3>3 DEF IsRequest
  <2>4. KnowsOrder(r)'
    BY <2>3 DEF KnowsOrder
  <2>5. OrderAsAsked'
    BY <1>s, <2>2, LastStands
  <2>6. QED BY <1>l, <1>u, <2>2, <2>3, <2>4, <2>5, OrderStep
<1>2. ASSUME NEW e \in Editors, Leave(e) \/ Rejected(e) PROVE InOrderInv'
  <2>1. editor' = [editor EXCEPT ![e] = Idle] /\ UNCHANGED <<image, last>>
    BY <1>2 DEF Leave, Rejected
  <2>2. QED BY <1>s, <1>u, <2>1, LastStands, OrderIdle
<1>3. ASSUME NEW e \in Editors, Reorder(e) PROVE InOrderInv'
  <2>1. PICK ids \in Asked(editor[e].ids) :
          Accept(e, "reorder", ids, {}, PictureOf(ids), "position")
    BY <1>3 DEF Reorder
  <2>2. ids \in Seq(Ids) /\ Once(ids)
    BY <1>o, AskedOnce
  <2>3. QED BY <2>1, <2>2, AcceptOrder
<1>4. ASSUME NEW e \in Editors, Delete(e) PROVE InOrderInv'
  <2>1. PICK ids, gone, want : /\ Accept(e, "delete", ids, gone, want, "deactivate")
                               /\ ids = <<>> /\ want = PictureOf(ListedBut(gone))
    BY <1>4 DEF Delete
  <2>2. ids \in Seq(Ids) /\ Once(ids)
    BY <2>1, EmptySeq DEF Once
  <2>3. QED BY <2>1, <2>2, AcceptOrder
<1>5. ASSUME NEW e \in Editors, Rename(e) PROVE InOrderInv'
  <2>1. PICK i : Accept(e, "rename", Listed, {i}, PictureOf(Listed), "upload")
    BY <1>5 DEF Rename
  <2>2. i \in Active
    BY <2>1 DEF Accept
  <2>3. QED BY <1>l, <2>1, <2>2, AcceptOrder
<1>6. ASSUME NEW e \in Editors, Add(e) PROVE InOrderInv'
  <2>1. PICK ids, want : /\ Accept(e, "add", ids, {}, want, "upload") /\ ids = <<>>
                         /\ want = Append(PictureOf(Listed), Len(image) + 1)
    BY <1>6 DEF Add
  <2>2. ids \in Seq(Ids) /\ Once(ids)
    BY <2>1, EmptySeq DEF Once
  <2>3. QED BY <2>1, <2>2, AcceptOrder
<1>7. ASSUME NEW e \in Editors, Arrange(e) PROVE InOrderInv'
  <2>0. PICK wanted \in Asked(editor[e].ids), remove_others \in BOOLEAN :
          LET others == ListedBut(ToSet(wanted))
              gone   == IF remove_others THEN ToSet(others) ELSE {}
              order  == IF remove_others THEN wanted ELSE wanted \o others
          IN  Accept(e, "arrange", order, gone, PictureOf(order),
                     IF gone = {} THEN "position" ELSE "deactivate")
    BY <1>7 DEF Arrange
  <2>1. PICK others, order, gone :
          /\ others = ListedBut(ToSet(wanted))
          /\ gone = IF remove_others THEN ToSet(others) ELSE {}
          /\ order = IF remove_others THEN wanted ELSE wanted \o others
          /\ Accept(e, "arrange", order, gone, PictureOf(order),
                    IF gone = {} THEN "position" ELSE "deactivate")
    BY <2>0
  <2>2. wanted \in Seq(Ids) /\ Once(wanted)
    BY <1>o, AskedOnce
  <2>3. others \in Seq(Ids) /\ Once(others) /\ ToSet(others) = Active \ ToSet(wanted)
    <3>1. Lists(others, Active \ ToSet(wanted)) /\ Active \ ToSet(wanted) \subseteq Ids
      BY <1>l, <2>1 DEF Active
    <3>2. QED BY <3>1, SeqMonotonic DEF Lists
  <2>4. order \in Seq(Ids) /\ Once(order)
    <3>1. wanted \o others \in Seq(Ids) /\ Once(wanted \o others)
      BY <2>2, <2>3, JoinedLists
    <3>2. QED BY <2>1, <2>2, <3>1
  <2>5. gone # {} => ToSet(order) = Active \ gone
    <3>1. ToSet(order) \subseteq Active
      BY <2>1 DEF Accept
    <3>2. QED BY <2>1, <2>3, <3>1
  <2>6. QED BY <2>1, <2>4, <2>5, AcceptOrder
<1>8. ASSUME NEW e \in Editors, Upload(e) PROVE InOrderInv'
  BY <1>8, OrderUpload
<1>9. ASSUME NEW e \in Editors, Deactivate(e) PROVE InOrderInv'
  <2>0. PICK r : r = editor[e]
    OBVIOUS
  <2>1. r.pc = "deactivate" /\ image' = Deactivated(r.gone) /\ removed' = removed
        /\ IsRequest(r) /\ r.ids \in Seq(Ids) /\ Once(r.ids) /\ KnowsOrder(r)
    BY <1>9, <1>o, <2>0 DEF Deactivate
  <2>2. OrderedMove /\ RowsStand
    <3>1. RowsMove
      BY <1>s, <2>0, <2>1 DEF RowsMove, RequestsKnow
    <3>2. QED BY <1>s, <2>1, <3>1, RowsMoveStands DEF OrderedMove
  <2>3. /\ Active' = Active \ r.gone /\ Listed' = ListedBut(r.gone) /\ Ids' = Ids
        /\ \A i \in Ids : image'[i].picture = image[i].picture
    BY <1>s, <2>1, DeactivatedInOrder, DeactivatedRows
  <2>4. CASE r.op = "delete"
    <3>1. Moves(e, Idle) /\ last' = [want |-> r.want, sure |-> r.alone]
      BY <1>9, <2>0, <2>4 DEF Deactivate, Ends
    <3>2. ASSUME r.alone PROVE PictureOf(Listed)' = r.want
      <4>1. r.want = PictureOf(ListedBut(r.gone))
        BY <2>1, <2>4, <3>2 DEF KnowsOrder
      <4>2. PICK ids : ids = ListedBut(r.gone)
        OBVIOUS
      <4>3. ids \in Seq(Ids)
        <5>1. Lists(ids, Active \ r.gone) /\ Active \ r.gone \subseteq Ids
          BY <1>l, <4>2 DEF Active
        <5>2. QED BY <5>1, SeqMonotonic DEF Lists
      <4>4. PictureOf(Listed)' = PictureOf(ids)
        BY <2>3, <4>2, <4>3, ShownAfter
      <4>5. QED BY <4>1, <4>2, <4>4
    <3>3. OrderAsAsked'
      BY <3>1, <3>2 DEF OrderAsAsked
    <3>4. QED BY <2>2, <3>1, <3>3, OrderIdle
  <2>5. CASE r.op # "delete"
    <3>1. last' = Nothing /\ \E q : Moves(e, q) /\ q = [r EXCEPT !.pc = "position"]
      BY <1>9, <2>0, <2>5 DEF Deactivate
    <3>2. PICK q : Moves(e, q) /\ q = [r EXCEPT !.pc = "position"]
      BY <3>1
    <3>3. /\ IsRequest(q) /\ q.pc = "position" /\ q.ids = r.ids /\ q.want = r.want
          /\ q.alone = r.alone
      BY <2>1, <3>2 DEF IsRequest
    <3>4. PictureOf(r.ids)' = PictureOf(r.ids)
      BY <2>1, <2>3, PicturesStand
    <3>5. ASSUME r.alone PROVE ToSet(r.ids) = Active' /\ r.want = PictureOf(r.ids)
      BY <2>1, <2>3, <2>5, <3>5 DEF KnowsOrder
    <3>6. KnowsOrder(q)'
      <4>1. PictureOf(q.ids)' = PictureOf(r.ids)
        BY <3>3, <3>4
      <4>2. QED BY <3>3, <3>5, <4>1 DEF KnowsOrder
    <3>7. OrderAsAsked'
      BY <3>1 DEF OrderAsAsked, Nothing
    <3>8. QED BY <2>1, <2>2, <2>3, <3>2, <3>3, <3>6, <3>7, OrderStep
  <2>6. QED BY <2>4, <2>5
<1>10. ASSUME NEW e \in Editors, Position(e) PROVE InOrderInv'
  <2>0. PICK r : r = editor[e]
    OBVIOUS
  <2>1. /\ r.pc = "position" /\ image' = Positioned(r.ids) /\ Moves(e, Idle)
        /\ last' = [want |-> r.want, sure |-> r.alone]
        /\ r.ids \in Seq(Ids) /\ Once(r.ids) /\ KnowsOrder(r)
    BY <1>10, <1>o, <2>0 DEF Position, Ends
  <2>2. OrderedMove /\ RowsStand
    BY <1>s, <2>1, RowsMoveStands DEF OrderedMove, RowsMove
  <2>3. GalleryShape' /\ Placed'
    BY <1>s, <2>2, PlacedStep DEF Safe
  <2>4. ASSUME r.alone PROVE PictureOf(Listed)' = r.want
    <3>1. ToSet(r.ids) = Active /\ r.want = PictureOf(r.ids)
      BY <2>1, <2>4 DEF KnowsOrder
    <3>2. PICK ids \in Seq(Ids) : ids = r.ids
      BY <2>1
    <3>3. Listed' = ids
      BY <1>s, <2>1, <2>3, <3>1, <3>2, PositionedInOrder
    <3>4. \A i \in Ids : image'[i].picture = image[i].picture
      BY <1>s, <2>1, PositionedRows
    <3>5. PictureOf(Listed)' = PictureOf(ids)
      BY <3>3, <3>4, ShownAfter
    <3>6. QED BY <3>1, <3>2, <3>5
  <2>5. OrderAsAsked'
    BY <2>1, <2>4 DEF OrderAsAsked
  <2>6. QED BY <2>1, <2>2, <2>5, OrderIdle
<1>11. ASSUME NEW e \in Editors, HalfUploaded(e) \/ Breaks(e) PROVE InOrderInv'
  <2>1. Moves(e, Idle) /\ last' = Nothing
    BY <1>11 DEF HalfUploaded, Breaks
  <2>2. OrderedMove
    BY <1>11, <1>o DEF HalfUploaded, Breaks, OrderedMove
  <2>3. RowsStand
    <3>1. RowsMove
      BY <1>s, <1>11 DEF HalfUploaded, Breaks, RowsMove, RequestsKnow
    <3>2. QED BY <1>s, <3>1, RowsMoveStands
  <2>4. OrderAsAsked'
    BY <2>1 DEF OrderAsAsked, Nothing
  <2>5. QED BY <2>1, <2>2, <2>3, <2>4, OrderIdle
<1>12. CASE UNCHANGED galleryVars
  <2>1. image' = image /\ editor' = editor /\ last' = last
    BY <1>12 DEF galleryVars
  <2>2. Placed' /\ OrderAsAsked' /\ Ids' = Ids
    BY <1>s, <1>u, <2>1, PlacedStep, LastStands
  <2>3. ASSUME NEW e \in Editors PROVE KnowsOrder(editor[e])'
    <3>1. PICK q : q = editor[e] /\ KnowsOrder(q)
      BY <1>o
    <3>2. KnowsOrder(q)' /\ editor'[e] = q
      BY <2>1, <3>1, KnowsStands
    <3>3. QED BY <3>2 DEF KnowsOrder
  <2>4. RequestsInOrder'
    BY <1>o, <2>1, <2>2, <2>3 DEF RequestsInOrder
  <2>5. QED BY <2>2, <2>4 DEF InOrderInv
<1>13. QED
  BY <1>1, <1>2, <1>3, <1>4, <1>5, <1>6, <1>7, <1>8, <1>9, <1>10, <1>11, <1>12
     DEF GalleryNext

\* A request no other one disturbed leaves the pictures in the order it was asked for,
\* once each, whatever the other requests did before and after it.
THEOREM GalleryAsAsked == GallerySpec => []OrderAsAsked
<1>1. GalleryInit => InOrderInv
  <2> SUFFICES ASSUME GalleryInit PROVE InOrderInv
    OBVIOUS
  <2>1. /\ image = [i \in 1..Opening |-> [picture |-> i, active |-> TRUE, position |-> i]]
        /\ editor = [e \in Editors |-> Idle] /\ last = Nothing
    BY DEF GalleryInit
  <2>2. Safe
    BY SafeInit
  <2>3. Ids = 1..Opening /\ Len(image) = Opening /\ Opening \in Nat
    <3>1. Ids = 1..Opening /\ Opening \in Nat
      BY <2>1, GalleryAssumption DEF Ids, GalleryAssumption
    <3>2. Len(image) \in Nat /\ Ids = 1..Len(image)
      BY <2>2, IdsAreNumbers DEF Safe
    <3>3. QED BY <3>1, <3>2
  <2>4. Placed
    BY <2>1, <2>3 DEF Placed
  <2>5. PICK q : q = Idle
    OBVIOUS
  <2>6. q.ids \in Seq(Ids) /\ Once(q.ids) /\ KnowsOrder(q)
    <3>1. q.ids = <<>> /\ q.pc = "idle"
      BY <2>5 DEF Idle
    <3>2. KnowsOrder(q)
      BY <3>1 DEF KnowsOrder
    <3>3. q.ids \in Seq(Ids) /\ Once(q.ids)
      BY <3>1, EmptySeq DEF Once
    <3>4. QED BY <3>2, <3>3
  <2>9. RequestsInOrder
    BY <2>1, <2>5, <2>6 DEF RequestsInOrder
  <2>7. OrderAsAsked
    BY <2>1 DEF OrderAsAsked, Nothing
  <2>10. QED BY <2>2, <2>4, <2>7, <2>9 DEF InOrderInv
<1>2. InOrderInv /\ [GalleryNext]_galleryVars => InOrderInv'
  BY SafeNext, OrderNext DEF InOrderInv
<1>3. InOrderInv => OrderAsAsked
  BY DEF InOrderInv
<1>4. QED BY <1>1, <1>2, <1>3, PTL DEF GallerySpec

-----------------------------------------------------------------------------
(* A drain sees the sites saved before it *)

Maps == [known : Nat, age : {"new", "old", "expired"}, failed : BOOLEAN]
TaskStates ==
  [pc : {"idle", "posted", "drain", "read", "loading"}, process : Processes \cup {"none"},
   client : Clients \cup {"none"}, due : Nat, got : Nat, excused : BOOLEAN]

IsMap(m, newest) == m \in Maps /\ m.known <= newest

IsTask(r, newest, told) ==
  /\ r \in TaskStates /\ r.due <= told /\ r.got <= newest
  /\ r.pc = "loading" => r.client \in Clients /\ ProcessOf[r.client] = r.process

SitesShape ==
  /\ site \in Nat /\ saved \in Nat /\ saved <= site
  /\ map \in [Clients -> Maps] /\ \A c \in Clients : IsMap(map[c], site)
  /\ task \in [Tasks -> TaskStates] /\ \A t \in Tasks : IsTask(task[t], site, saved)

\* What a task is owed is in every map of its process that still serves, and in every load
\* under way there, which would put its map back.
Owed(r) == IF r.excused THEN 0 ELSE r.due

Served ==
  \A t \in Tasks :
    /\ \A c \in Clients : ProcessOf[c] = task[t].process /\ map[c].age # "expired" =>
                            map[c].known >= Owed(task[t])
    /\ \A o \in Tasks : task[o].pc = "loading" /\ task[o].process = task[t].process =>
                          task[o].got >= Owed(task[t])
    /\ task[t].pc = "read" => task[t].got >= Owed(task[t])

SitesInv == SitesShape /\ Served

\* An empty map and an idle task owe nothing.
LEMMA NothingOwed ==
  /\ SitesShape => IsMap(NoMap, site) /\ IsTask(NoTask, site, saved)
  /\ NoMap.age = "expired" /\ NoTask.due = 0 /\ Owed(NoTask) = 0 /\ NoTask.pc = "idle"
BY DEF NoMap, NoTask, IsMap, IsTask, SitesShape, Maps, TaskStates, Owed

\* What a task is owed was acknowledged.
LEMMA OwedKnown ==
  ASSUME NEW r, NEW newest \in Nat, NEW told \in Nat, IsTask(r, newest, told)
  PROVE  Owed(r) \in Nat /\ Owed(r) <= told /\ Owed(r) <= r.due /\ r.due \in Nat /\ r.got \in Nat
BY DEF IsTask, TaskStates, Owed

\* A task changes, the maps do not, and what is owed to it and by it is still served.
LEMMA TaskChanges ==
  ASSUME SitesInv, NEW t \in Tasks, NEW r, task' = [task EXCEPT ![t] = r],
         UNCHANGED <<saved, map>>, site' \in Nat, site <= site', IsTask(r, site', saved'),
         Owed(r) = 0 \/ (Owed(r) = Owed(task[t]) /\ r.process = task[t].process),
         r.pc = "loading" => \A o \in Tasks : task[o].process = r.process => r.got >= Owed(task[o]),
         r.pc \in {"loading", "read"} => r.got >= Owed(r)
  PROVE  SitesInv'
<1>1. \A o \in Tasks : task'[o] = IF o = t THEN r ELSE task[o]
  BY DEF SitesInv, SitesShape
<1>2. \A o \in Tasks : Owed(task'[o]) = IF o = t THEN Owed(r) ELSE Owed(task[o])
  BY <1>1
<1>3. SitesShape'
  BY <1>1 DEF SitesInv, SitesShape, IsTask, IsMap, TaskStates, Maps
<1>4. /\ \A c \in Clients : map[c].known \in Nat
      /\ \A o \in Tasks : Owed(task[o]) \in Nat /\ task[o].got \in Nat
      /\ Owed(r) \in Nat /\ r.got \in Nat
  BY OwedKnown DEF SitesInv, SitesShape, IsMap, Maps
<1>5. ASSUME NEW o \in Tasks
      PROVE  /\ \A c \in Clients : ProcessOf[c] = task'[o].process /\ map[c].age # "expired" =>
                                     map[c].known >= Owed(task'[o])
             /\ \A q \in Tasks : task'[q].pc = "loading" /\ task'[q].process = task'[o].process =>
                                   task'[q].got >= Owed(task'[o])
             /\ task'[o].pc = "read" => task'[o].got >= Owed(task'[o])
  <2>1. CASE o = t
    BY <1>1, <1>2, <1>4, <2>1 DEF SitesInv, Served
  <2>2. CASE o # t
    BY <1>1, <1>2, <1>4, <2>2 DEF SitesInv, Served
  <2>3. QED BY <2>1, <2>2
<1>6. Served'
  BY <1>5 DEF Served, Owed
<1>7. QED BY <1>3, <1>6 DEF SitesInv

\* What a task becomes when it starts, and at its next step.
Posted(p, n) == [NoTask EXCEPT !.pc = "posted", !.process = p, !.got = n]
Reading(p) == [NoTask EXCEPT !.pc = "drain", !.process = p]
Draining(p, n, e) == [NoTask EXCEPT !.pc = "drain", !.process = p, !.due = n, !.excused = e]
Goes(r, to, n) == [r EXCEPT !.pc = to, !.got = n]
GoesTo(r, to, c, n) == [r EXCEPT !.pc = to, !.client = c, !.got = n]

\* An idle task.
LEMMA NoTaskYet == NoTask \in TaskStates /\ NoTask.due = 0 /\ NoTask.got = 0 /\ ~NoTask.excused
BY DEF NoTask, TaskStates

\* A save under way is owed nothing.
LEMMA TaskPosted ==
  ASSUME NEW p \in Processes, NEW n \in Nat
  PROVE  /\ Posted(p, n) \in TaskStates /\ Posted(p, n).pc = "posted" /\ Posted(p, n).got = n
         /\ Posted(p, n).due = 0 /\ Owed(Posted(p, n)) = 0
BY NoTaskYet DEF TaskStates, Owed, Posted

\* Nor is a reader that is no drain.
LEMMA TaskReading ==
  ASSUME NEW p \in Processes
  PROVE  /\ Reading(p) \in TaskStates /\ Reading(p).pc = "drain" /\ Reading(p).got = 0
         /\ Reading(p).due = 0 /\ Owed(Reading(p)) = 0
BY NoTaskYet DEF TaskStates, Owed, Reading

\* A drain is owed what was acknowledged, unless it is excused.
LEMMA TaskDraining ==
  ASSUME NEW p \in Processes, NEW n \in Nat, NEW e \in BOOLEAN
  PROVE  /\ Draining(p, n, e) \in TaskStates /\ Draining(p, n, e).pc = "drain"
         /\ Draining(p, n, e).got = 0 /\ Draining(p, n, e).due = n /\ Draining(p, n, e).process = p
         /\ Owed(Draining(p, n, e)) = IF e THEN 0 ELSE n
BY NoTaskYet DEF TaskStates, Owed, Draining

\* A task that takes a map, or leaves it, is owed what it was owed.
LEMMA TaskGoes ==
  ASSUME NEW r \in TaskStates, NEW to \in {"drain", "read"}, NEW n \in Nat
  PROVE  /\ Goes(r, to, n) \in TaskStates /\ Goes(r, to, n).pc = to /\ Goes(r, to, n).got = n
         /\ Goes(r, to, n).due = r.due /\ Goes(r, to, n).process = r.process
         /\ Owed(Goes(r, to, n)) = Owed(r)
BY DEF TaskStates, Owed, Goes

\* And so is one that starts to load.
LEMMA TaskGoesTo ==
  ASSUME NEW r \in TaskStates, NEW n \in Nat, NEW c \in Clients
  PROVE  /\ GoesTo(r, "loading", c, n) \in TaskStates /\ GoesTo(r, "loading", c, n).pc = "loading"
         /\ GoesTo(r, "loading", c, n).got = n /\ GoesTo(r, "loading", c, n).client = c
         /\ GoesTo(r, "loading", c, n).due = r.due /\ GoesTo(r, "loading", c, n).process = r.process
         /\ Owed(GoesTo(r, "loading", c, n)) = Owed(r)
BY DEF TaskStates, Owed, GoesTo

\* A save, up to Tillin or lost; a reader that starts; the end of a read.
LEMMA QuietTask ==
  ASSUME SitesInv, NEW t \in Tasks,
         \/ \E p \in Processes : Post(t, p) \/ StartReader(t, p)
         \/ PostLost(t) \/ NextRead(t)
  PROVE  SitesInv'
<1>1. /\ IsTask(task[t], site, saved) /\ IsTask(NoTask, site, saved)
      /\ site \in Nat /\ saved \in Nat /\ Owed(task[t]) \in Nat
  BY NothingOwed, OwedKnown DEF SitesInv, SitesShape
<1>3. ASSUME NEW p \in Processes, Post(t, p) PROVE SitesInv'
  <2>1. PICK r : r = Posted(p, site + 1)
    OBVIOUS
  <2>2. task' = [task EXCEPT ![t] = r] /\ UNCHANGED <<saved, map>> /\ site' = site + 1
    BY <1>3, <2>1 DEF Post, Posted
  <2>3. r \in TaskStates /\ r.pc = "posted" /\ r.got = site + 1 /\ r.due = 0 /\ Owed(r) = 0
    BY <1>1, <2>1, TaskPosted
  <2>4. IsTask(r, site', saved')
    BY <1>1, <2>2, <2>3 DEF IsTask
  <2>5. site' \in Nat /\ site <= site'
    BY <1>1, <2>2
  <2>6. r.pc # "loading" /\ r.pc # "read"
    BY <2>3
  <2>7. QED BY <2>2, <2>3, <2>4, <2>5, <2>6, TaskChanges
<1>4. CASE task' = [task EXCEPT ![t] = NoTask] /\ UNCHANGED <<site, saved, map>>
  <2>1. IsTask(NoTask, site', saved') /\ Owed(NoTask) = 0 /\ NoTask.pc # "loading" /\ NoTask.pc # "read"
    BY <1>1, <1>4, NothingOwed
  <2>2. site' \in Nat /\ site <= site'
    BY <1>1, <1>4
  <2>3. QED BY <1>4, <2>1, <2>2, TaskChanges
<1>5. ASSUME NEW p \in Processes, StartReader(t, p) PROVE SitesInv'
  <2>1. PICK r : r = Reading(p)
    OBVIOUS
  <2>2. task' = [task EXCEPT ![t] = r] /\ UNCHANGED <<saved, map, site>>
    BY <1>5, <2>1 DEF StartReader, Reading
  <2>3. r \in TaskStates /\ r.pc = "drain" /\ r.got = 0 /\ r.due = 0 /\ Owed(r) = 0
    BY <1>1, <2>1, TaskReading
  <2>4. IsTask(r, site', saved')
    BY <1>1, <2>2, <2>3 DEF IsTask
  <2>5. site' \in Nat /\ site <= site' /\ r.pc # "loading" /\ r.pc # "read"
    BY <1>1, <2>2, <2>3
  <2>6. QED BY <2>2, <2>3, <2>4, <2>5, TaskChanges
<1>6. CASE NextRead(t) /\ task' = [task EXCEPT ![t].pc = "drain", ![t].got = 0]
  <2>1. PICK r : r = Goes(task[t], "drain", 0)
    OBVIOUS
  <2>2. task' = [task EXCEPT ![t] = r] /\ UNCHANGED <<saved, map, site>>
    BY <1>6, <2>1 DEF NextRead, SitesInv, SitesShape, Goes
  <2>3. /\ r \in TaskStates /\ r.pc = "drain" /\ r.got = 0 /\ r.due = task[t].due
        /\ r.process = task[t].process /\ Owed(r) = Owed(task[t])
    <3>1. task[t] \in TaskStates /\ 0 \in Nat /\ "drain" \in {"drain", "read"}
      BY <1>1 DEF IsTask
    <3>2. QED BY <2>1, <3>1, TaskGoes
  <2>4. IsTask(r, site', saved')
    BY <1>1, <2>2, <2>3 DEF IsTask
  <2>5. site' \in Nat /\ site <= site' /\ r.pc # "loading" /\ r.pc # "read"
    BY <1>1, <2>2, <2>3
  <2>6. QED BY <2>2, <2>3, <2>4, <2>5, TaskChanges
<1>7. QED BY <1>3, <1>4, <1>5, <1>6 DEF NextRead, PostLost

\* A read takes a map that serves, or asks Tillin for the sites of now.
LEMMA ReadStep ==
  ASSUME SitesInv, NEW t \in Tasks, NEW c \in Clients, NEW need, Read(t, c, need)
  PROVE  SitesInv'
<1>1. /\ IsTask(task[t], site, saved) /\ map[c].known \in Nat /\ map[c].known <= site
      /\ site \in Nat /\ saved \in Nat /\ saved <= site
      /\ \A o \in Tasks : Owed(task[o]) \in Nat /\ Owed(task[o]) <= saved
  BY OwedKnown DEF SitesInv, SitesShape, IsMap, Maps
<1>2. UNCHANGED <<saved, map, site>> /\ ProcessOf[c] = task[t].process
  BY DEF Read
<1>3. CASE Current(c, need)
  <2>1. PICK r : r = Goes(task[t], "read", map[c].known)
    OBVIOUS
  <2>2. task' = [task EXCEPT ![t] = r]
    BY <1>3, <2>1 DEF Read, Goes
  <2>3. /\ r \in TaskStates /\ r.pc = "read" /\ r.got = map[c].known /\ r.due = task[t].due
        /\ r.process = task[t].process /\ Owed(r) = Owed(task[t])
    BY <1>1, <2>1, TaskGoes DEF IsTask
  <2>4. map[c].known >= Owed(task[t])
    BY <1>2, <1>3 DEF Current, SitesInv, Served
  <2>5. IsTask(r, site', saved')
    BY <1>1, <1>2, <2>3 DEF IsTask
  <2>6. site' \in Nat /\ site <= site' /\ r.pc # "loading" /\ r.got >= Owed(r)
    BY <1>1, <1>2, <2>3, <2>4
  <2>7. QED BY <1>2, <2>2, <2>3, <2>5, <2>6, TaskChanges
<1>4. CASE ~Current(c, need)
  <2>1. PICK r : r = GoesTo(task[t], "loading", c, site)
    OBVIOUS
  <2>2. task' = [task EXCEPT ![t] = r]
    BY <1>4, <2>1 DEF Read, GoesTo
  <2>3. /\ r \in TaskStates /\ r.pc = "loading" /\ r.got = site /\ r.due = task[t].due /\ r.client = c
        /\ r.process = task[t].process /\ Owed(r) = Owed(task[t])
    BY <1>1, <2>1, TaskGoesTo DEF IsTask
  <2>4. IsTask(r, site', saved')
    BY <1>1, <1>2, <2>3 DEF IsTask
  <2>5. r.got >= Owed(r) /\ \A o \in Tasks : r.got >= Owed(task[o])
    BY <1>1, <2>3
  <2>6. site' \in Nat /\ site <= site'
    BY <1>1, <1>2
  <2>7. QED BY <1>2, <2>2, <2>3, <2>4, <2>5, <2>6, TaskChanges
<1>5. QED BY <1>3, <1>4

\* The maps change, and one task with them: the maps that serve hold what is owed.
LEMMA MapsChange ==
  ASSUME SitesInv, NEW t \in Tasks, NEW r, task' = [task EXCEPT ![t] = r], site' = site,
         saved' \in Nat, saved <= saved', saved' <= site, IsTask(r, site, saved'),
         map' \in [Clients -> Maps], \A c \in Clients : map'[c].known <= site,
         \A c \in Clients, o \in Tasks \ {t} :
           map'[c].age # "expired" /\ ProcessOf[c] = task[o].process => map'[c].known >= Owed(task[o]),
         \A c \in Clients :
           map'[c].age # "expired" /\ ProcessOf[c] = r.process => map'[c].known >= Owed(r),
         \A o \in Tasks : task[o].pc = "loading" /\ task[o].process = r.process => task[o].got >= Owed(r),
         r.pc # "loading", r.pc = "read" => r.got >= Owed(r)
  PROVE  SitesInv'
<1>1. \A o \in Tasks : task'[o] = IF o = t THEN r ELSE task[o]
  BY DEF SitesInv, SitesShape
<1>2. \A o \in Tasks : Owed(task'[o]) = IF o = t THEN Owed(r) ELSE Owed(task[o])
  BY <1>1
<1>3. SitesShape'
  BY <1>1 DEF SitesInv, SitesShape, IsTask, IsMap, TaskStates
<1>4. ASSUME NEW o \in Tasks
      PROVE  /\ \A c \in Clients : ProcessOf[c] = task'[o].process /\ map'[c].age # "expired" =>
                                     map'[c].known >= Owed(task'[o])
             /\ \A q \in Tasks : task'[q].pc = "loading" /\ task'[q].process = task'[o].process =>
                                   task'[q].got >= Owed(task'[o])
             /\ task'[o].pc = "read" => task'[o].got >= Owed(task'[o])
  <2>1. CASE o = t
    BY <1>1, <1>2, <2>1
  <2>2. CASE o # t
    BY <1>1, <1>2, <2>2 DEF SitesInv, Served
  <2>3. QED BY <2>1, <2>2
<1>5. Served'
  BY <1>4 DEF Served, Owed
<1>6. QED BY <1>3, <1>5 DEF SitesInv

\* Emptying the maps of a process: those that serve are the others, as they were.
LEMMA MapsEmptied ==
  ASSUME SitesInv, NEW p
  PROVE  /\ Emptied(p) \in [Clients -> Maps]
         /\ \A c \in Clients : Emptied(p)[c].known <= site
         /\ \A c \in Clients : Emptied(p)[c].age # "expired" => ProcessOf[c] # p /\ Emptied(p)[c] = map[c]
<1>1. IsMap(NoMap, site) /\ NoMap.age = "expired"
  BY NothingOwed DEF SitesInv
<1>2. \A c \in Clients : Emptied(p)[c] = IF ProcessOf[c] = p THEN NoMap ELSE map[c]
  BY DEF Emptied
<1>3. Emptied(p) \in [Clients -> Maps]
  BY <1>1 DEF Emptied, SitesInv, SitesShape, IsMap
<1>4. QED BY <1>1, <1>2, <1>3 DEF SitesInv, SitesShape, IsMap

\* A save is acknowledged: no map of its process serves, the others owe what they owed.
LEMMA AcknowledgeStep == ASSUME SitesInv, NEW t \in Tasks, Acknowledge(t) PROVE SitesInv'
<1>1. /\ IsTask(task[t], site, saved) /\ IsTask(NoTask, site, saved) /\ Owed(NoTask) = 0
      /\ site \in Nat /\ saved \in Nat /\ saved <= site /\ NoTask.pc = "idle"
      /\ \A o \in Tasks : task[o].got \in Nat
      /\ \A c \in Clients : map[c].known \in Nat
  BY NothingOwed, OwedKnown DEF SitesInv, SitesShape, IsMap, Maps
<1>2. task[t].got \in Nat /\ task[t].got <= site
  BY <1>1 DEF IsTask, TaskStates
<1>3. /\ saved' \in Nat /\ saved <= saved' /\ saved' <= site /\ site' = site
      /\ task' = [task EXCEPT ![t] = NoTask] /\ map' = Emptied(task[t].process)
  BY <1>1, <1>2 DEF Acknowledge
<1>4. IsTask(NoTask, site, saved')
  BY <1>1, <1>3 DEF IsTask, TaskStates
<1>5. /\ map' \in [Clients -> Maps] /\ \A c \in Clients : map'[c].known <= site
      /\ \A c \in Clients : map'[c].age # "expired" => map'[c] = map[c]
  BY <1>3, MapsEmptied
<1>6. \A c \in Clients, o \in Tasks :
        map'[c].age # "expired" /\ ProcessOf[c] = task[o].process => map'[c].known >= Owed(task[o])
  BY <1>5 DEF SitesInv, Served
<1>7. /\ \A c \in Clients : map'[c].known >= Owed(NoTask)
      /\ \A o \in Tasks : task[o].got >= Owed(NoTask)
  <2>1. \A c \in Clients : map'[c].known \in Nat
    BY <1>5 DEF Maps
  <2>2. QED BY <1>1, <2>1
<1>8. NoTask.pc # "loading" /\ NoTask.pc # "read"
  BY <1>1
<1>9. QED BY <1>3, <1>4, <1>5, <1>6, <1>7, <1>8, MapsChange

\* A drain starts: no map of its process serves, and it is owed what was acknowledged unless
\* a load under way there is older.
LEMMA StartDrainStep ==
  ASSUME SitesInv, NEW t \in Tasks, NEW p \in Processes, StartDrain(t, p)
  PROVE  SitesInv'
<1> DEFINE e == \E o \in Tasks : task[o].pc = "loading" /\ task[o].process = p /\ task[o].got < saved
<1>1. /\ site \in Nat /\ saved \in Nat /\ saved <= site /\ e \in BOOLEAN
      /\ \A o \in Tasks : task[o].got \in Nat
  BY OwedKnown DEF SitesInv, SitesShape
<1>2. PICK r : r = Draining(p, saved, e)
  OBVIOUS
<1>3. /\ task' = [task EXCEPT ![t] = r] /\ map' = Emptied(p)
      /\ site' = site /\ saved' = saved
  BY <1>2 DEF StartDrain, Draining
<1> HIDE DEF e
<1>4. /\ r \in TaskStates /\ r.pc = "drain" /\ r.got = 0 /\ r.due = saved /\ r.process = p
      /\ Owed(r) = IF e THEN 0 ELSE saved
  BY <1>1, <1>2, TaskDraining
<1>5. IsTask(r, site, saved') /\ saved' \in Nat /\ saved <= saved' /\ saved' <= site
  BY <1>1, <1>3, <1>4 DEF IsTask
<1>6. /\ map' \in [Clients -> Maps] /\ \A c \in Clients : map'[c].known <= site
      /\ \A c \in Clients : map'[c].age # "expired" => ProcessOf[c] # p /\ map'[c] = map[c]
  BY <1>3, MapsEmptied
<1>7. \A c \in Clients, o \in Tasks :
        map'[c].age # "expired" /\ ProcessOf[c] = task[o].process => map'[c].known >= Owed(task[o])
  BY <1>6 DEF SitesInv, Served
<1>8. \A c \in Clients :
        map'[c].age # "expired" /\ ProcessOf[c] = r.process => map'[c].known >= Owed(r)
  BY <1>4, <1>6
<1>9. \A o \in Tasks : task[o].pc = "loading" /\ task[o].process = r.process => task[o].got >= Owed(r)
  BY <1>1, <1>4 DEF e
<1>10. r.pc # "loading" /\ r.pc # "read"
  BY <1>4
<1>11. QED BY <1>3, <1>5, <1>6, <1>7, <1>8, <1>9, <1>10, MapsChange

\* A load ends: what it puts in the map is what every task of the process is owed, at least.
LEMMA LoadedStep == ASSUME SitesInv, NEW t \in Tasks, Loaded(t) PROVE SitesInv'
<1> DEFINE c == task[t].client
           m == [known |-> task[t].got, age |-> "new", failed |-> FALSE]
<1>1. /\ IsTask(task[t], site, saved) /\ site \in Nat /\ saved \in Nat /\ saved <= site
      /\ task[t].pc = "loading" /\ task[t] \in TaskStates
      /\ \A o \in Tasks : Owed(task[o]) \in Nat
  BY OwedKnown DEF SitesInv, SitesShape, Loaded, IsTask
<1>2. /\ c \in Clients /\ ProcessOf[c] = task[t].process /\ task[t].got \in Nat /\ task[t].got <= site
      /\ m \in Maps /\ m.known = task[t].got
  BY <1>1 DEF IsTask, TaskStates, Maps
<1>3. PICK r : r = [task[t] EXCEPT !.pc = "read", !.client = "none"]
  OBVIOUS
<1>4. /\ r \in TaskStates /\ r.pc = "read" /\ r.got = task[t].got /\ r.due = task[t].due
      /\ r.process = task[t].process /\ Owed(r) = Owed(task[t])
  BY <1>1, <1>3 DEF TaskStates, Owed
<1>5. /\ task' = [task EXCEPT ![t] = r] /\ map' = [map EXCEPT ![c] = m]
      /\ site' = site /\ saved' = saved
  BY <1>3 DEF Loaded
<1>6. IsTask(r, site, saved') /\ saved' \in Nat /\ saved <= saved' /\ saved' <= site
  BY <1>1, <1>4, <1>5 DEF IsTask
<1>7. /\ map' \in [Clients -> Maps]
      /\ \A d \in Clients : map'[d] = IF d = c THEN m ELSE map[d]
  BY <1>2, <1>5 DEF SitesInv, SitesShape
<1>8. \A d \in Clients : map'[d].known <= site
  BY <1>2, <1>7 DEF SitesInv, SitesShape, IsMap
<1>9. \A o \in Tasks : task[o].process = task[t].process => task[t].got >= Owed(task[o])
  BY <1>1 DEF SitesInv, Served
<1>10. \A d \in Clients, o \in Tasks :
         map'[d].age # "expired" /\ ProcessOf[d] = task[o].process => map'[d].known >= Owed(task[o])
  <2>1. SUFFICES ASSUME NEW d \in Clients, NEW o \in Tasks, map'[d].age # "expired",
                        ProcessOf[d] = task[o].process
                 PROVE  map'[d].known >= Owed(task[o])
    OBVIOUS
  <2>2. CASE d = c
    BY <1>2, <1>7, <1>9, <2>1, <2>2
  <2>3. CASE d # c
    BY <1>7, <2>1, <2>3 DEF SitesInv, Served
  <2>4. QED BY <2>2, <2>3
<1>11. \A d \in Clients :
         map'[d].age # "expired" /\ ProcessOf[d] = r.process => map'[d].known >= Owed(r)
  BY <1>4, <1>10
<1>12. \A o \in Tasks : task[o].pc = "loading" /\ task[o].process = r.process => task[o].got >= Owed(r)
  BY <1>4 DEF SitesInv, Served
<1>13. r.pc # "loading" /\ r.got >= Owed(r)
  BY <1>4, <1>9
<1>14. QED BY <1>5, <1>6, <1>7, <1>8, <1>10, <1>11, <1>12, <1>13, MapsChange

\* A load fails: every task of the process that is owed something is excused, so the old map
\* may serve again.
LEMMA LoadFailsStep == ASSUME SitesInv, NEW t \in Tasks, LoadFails(t) PROVE SitesInv'
<1> DEFINE c == task[t].client
<1>1. /\ \A o \in Tasks : /\ IsTask(task[o], site, saved) /\ task[o] \in TaskStates
                          /\ task[o].due \in Nat /\ task[o].got \in Nat /\ Owed(task[o]) \in Nat
      /\ site \in Nat /\ saved \in Nat /\ saved <= site
      /\ task[t].pc = "loading"
  BY OwedKnown DEF SitesInv, SitesShape, LoadFails, IsTask
<1>2. c \in Clients /\ ProcessOf[c] = task[t].process /\ site' = site /\ saved' = saved
  BY <1>1 DEF IsTask, LoadFails
<1>3. /\ map[c] \in Maps /\ map[c].known \in Nat /\ map[c].known <= site
  BY <1>2 DEF SitesInv, SitesShape, IsMap, Maps
<1>4. /\ map' \in [Clients -> Maps]
      /\ \A d \in Clients : map'[d].known = map[d].known /\ (d # c => map'[d] = map[d])
  BY <1>2, <1>3 DEF LoadFails, SitesInv, SitesShape, Maps
<1>5. ASSUME NEW o \in Tasks
      PROVE  /\ task'[o] \in TaskStates /\ IsTask(task'[o], site, saved)
             /\ task'[o].process = task[o].process
             /\ Owed(task'[o]) \in Nat /\ Owed(task'[o]) <= Owed(task[o])
             /\ task[o].process = task[t].process => Owed(task'[o]) = 0
             /\ task'[o].pc = "loading" => task[o].pc = "loading" /\ task'[o].got = task[o].got
             /\ o # t => task'[o].pc = task[o].pc /\ task'[o].got = task[o].got
             /\ task'[o].got \in Nat
  <2>1. PICK x : x = (task[o].excused \/ (task[o].due > 0 /\ task[o].process = ProcessOf[c]))
    OBVIOUS
  <2>2. PICK r : r = [task[o] EXCEPT !.excused = x]
    OBVIOUS
  <2>3. task'[o] = IF o = t THEN [r EXCEPT !.pc = "read", !.client = "none", !.got = map[c].known] ELSE r
    BY <2>1, <2>2 DEF LoadFails
  <2>4. x \in BOOLEAN
    BY <1>1, <2>1 DEF TaskStates
  <2>5. /\ r \in TaskStates /\ r.process = task[o].process /\ r.due = task[o].due
        /\ r.got = task[o].got /\ r.pc = task[o].pc /\ r.client = task[o].client /\ r.excused = x
    BY <1>1, <2>2, <2>4 DEF TaskStates
  <2>6. /\ IsTask(r, site, saved) /\ Owed(r) \in Nat /\ Owed(r) <= Owed(task[o])
        /\ task[o].process = task[t].process => Owed(r) = 0
    <3>1. IsTask(r, site, saved)
      BY <1>1, <2>5 DEF IsTask
    <3>2. Owed(r) = IF x THEN 0 ELSE task[o].due
      BY <2>5 DEF Owed
    <3>3. CASE x
      BY <1>1, <3>1, <3>2, <3>3
    <3>4. CASE ~x
      <4>1. ~task[o].excused /\ ~(task[o].due > 0 /\ task[o].process = ProcessOf[c])
        BY <2>1, <3>4
      <4>2. Owed(task[o]) = task[o].due /\ Owed(r) = task[o].due
        BY <3>2, <3>4, <4>1 DEF Owed
      <4>3. task[o].process = task[t].process => task[o].due = 0
        BY <1>1, <1>2, <4>1
      <4>4. QED BY <1>1, <3>1, <4>2, <4>3
    <3>5. QED BY <2>4, <3>3, <3>4
  <2>7. CASE o # t
    BY <1>1, <2>3, <2>5, <2>6, <2>7
  <2>8. CASE o = t
    <3>1. task'[o] = [r EXCEPT !.pc = "read", !.client = "none", !.got = map[c].known]
      BY <2>3, <2>8
    <3>2. /\ task'[o] \in TaskStates /\ task'[o].process = r.process /\ task'[o].due = r.due
          /\ task'[o].got = map[c].known /\ task'[o].pc = "read" /\ Owed(task'[o]) = Owed(r)
      BY <1>3, <2>5, <3>1 DEF TaskStates, Owed
    <3>3. IsTask(task'[o], site, saved)
      BY <1>1, <1>3, <2>5, <3>2 DEF IsTask
    <3>4. QED BY <1>3, <2>5, <2>6, <2>8, <3>2, <3>3
  <2>9. QED BY <2>7, <2>8
<1>6. SitesShape'
  <2>1. task' \in [Tasks -> TaskStates]
    BY <1>5 DEF LoadFails
  <2>2. \A d \in Clients : IsMap(map'[d], site')
    BY <1>2, <1>3, <1>4 DEF IsMap, SitesInv, SitesShape
  <2>3. QED BY <1>1, <1>2, <1>4, <1>5, <2>1, <2>2 DEF SitesShape
<1>7. ASSUME NEW o \in Tasks
      PROVE  /\ \A d \in Clients : ProcessOf[d] = task'[o].process /\ map'[d].age # "expired" =>
                                     map'[d].known >= Owed(task'[o])
             /\ \A q \in Tasks : task'[q].pc = "loading" /\ task'[q].process = task'[o].process =>
                                   task'[q].got >= Owed(task'[o])
             /\ task'[o].pc = "read" => task'[o].got >= Owed(task'[o])
  <2>1. \A d \in Clients : map'[d].known \in Nat
    BY <1>4 DEF Maps
  <2>2. CASE task[o].process = task[t].process
    BY <1>5, <2>1, <2>2
  <2>3. CASE task[o].process # task[t].process
    <3>1. ASSUME NEW d \in Clients, ProcessOf[d] = task'[o].process, map'[d].age # "expired"
          PROVE  map'[d].known >= Owed(task'[o])
      <4>1. d # c /\ map'[d] = map[d] /\ ProcessOf[d] = task[o].process
        BY <1>2, <1>4, <1>5, <2>3, <3>1
      <4>2. map[d].known >= Owed(task[o])
        BY <3>1, <4>1 DEF SitesInv, Served
      <4>3. QED BY <1>1, <1>5, <2>1, <4>1, <4>2
    <3>2. ASSUME NEW q \in Tasks, task'[q].pc = "loading", task'[q].process = task'[o].process
          PROVE  task'[q].got >= Owed(task'[o])
      <4>1. task[q].pc = "loading" /\ task[q].process = task[o].process /\ task'[q].got = task[q].got
        BY <1>5, <3>2
      <4>2. task[q].got >= Owed(task[o])
        BY <4>1 DEF SitesInv, Served
      <4>3. QED BY <1>1, <1>5, <4>1, <4>2
    <3>3. ASSUME task'[o].pc = "read"
          PROVE  task'[o].got >= Owed(task'[o])
      <4>1. o # t /\ task[o].pc = "read" /\ task'[o].got = task[o].got
        BY <1>5, <2>3, <3>3
      <4>2. task[o].got >= Owed(task[o])
        BY <4>1 DEF SitesInv, Served
      <4>3. QED BY <1>1, <1>5, <4>1, <4>2
    <3>4. QED BY <3>1, <3>2, <3>3
  <2>4. QED BY <2>2, <2>3
<1>8. Served'
  BY <1>7 DEF Served, Owed
<1>9. QED BY <1>6, <1>8 DEF SitesInv

\* Time passes for a map: it says what it said, or stops to serve.
LEMMA AgeStep == ASSUME SitesInv, NEW c \in Clients, Age(c) PROVE SitesInv'
<1>1. UNCHANGED <<site, saved, task>> /\ map[c].age # "expired"
  BY DEF Age
<1>2. /\ map' \in [Clients -> Maps]
      /\ \A d \in Clients : /\ map'[d].known = map[d].known
                            /\ map'[d].age # "expired" => map[d].age # "expired"
  BY DEF Age, SitesInv, SitesShape, Maps
<1>3. SitesShape'
  BY <1>1, <1>2 DEF SitesInv, SitesShape, IsMap, IsTask, TaskStates
<1>4. Served'
  BY <1>1, <1>2 DEF SitesInv, Served, Owed
<1>5. QED BY <1>3, <1>4 DEF SitesInv

\* Every step keeps the invariant.
LEMMA SitesStep == SitesInv /\ [SitesNext]_sitesVars => SitesInv'
<1>1. SUFFICES ASSUME SitesInv, [SitesNext]_sitesVars PROVE SitesInv'
  OBVIOUS
<1>2. CASE UNCHANGED sitesVars
  BY <1>1, <1>2 DEF sitesVars, SitesInv, SitesShape, Served, IsMap, IsTask, TaskStates, Owed
<1>3. ASSUME NEW t \in Tasks, NEW p \in Processes, Post(t, p) \/ StartDrain(t, p) \/ StartReader(t, p)
      PROVE  SitesInv'
  BY <1>1, <1>3, QuietTask, StartDrainStep
<1>4. ASSUME NEW t \in Tasks, Acknowledge(t) \/ PostLost(t) \/ Loaded(t) \/ LoadFails(t) \/ NextRead(t)
      PROVE  SitesInv'
  BY <1>1, <1>4, AcknowledgeStep, LoadedStep, LoadFailsStep, QuietTask
<1>5. ASSUME NEW t \in Tasks, NEW c \in Clients, NEW need \in BOOLEAN, Read(t, c, need)
      PROVE  SitesInv'
  BY <1>1, <1>5, ReadStep
<1>6. ASSUME NEW c \in Clients, Age(c) PROVE SitesInv'
  BY <1>1, <1>6, AgeStep
<1>7. QED BY <1>1, <1>2, <1>3, <1>4, <1>5, <1>6 DEF SitesNext

\* Nothing saved, nothing owed.
LEMMA SitesBegin == SitesInit => SitesInv
<1>1. SUFFICES ASSUME SitesInit PROVE SitesInv
  OBVIOUS
<1>2. IsTask(NoTask, 0, 0) /\ IsMap(NoMap, 0)
  BY DEF IsTask, IsMap, NoTask, NoMap, TaskStates, Maps
<1>3. /\ site = 0 /\ saved = 0 /\ map \in [Clients -> Maps] /\ task \in [Tasks -> TaskStates]
      /\ \A c \in Clients : map[c] = NoMap
      /\ \A t \in Tasks : task[t] = NoTask
  BY <1>1, <1>2 DEF SitesInit, IsTask, IsMap
<1>4. SitesShape
  BY <1>2, <1>3 DEF SitesShape
<1>5. Served
  BY <1>3, <1>4, NothingOwed DEF Served
<1>6. QED BY <1>4, <1>5 DEF SitesInv

\* SitesSeen, for any number of processes, clients and requests, and any failures: a drain
\* searches on the sites acknowledged before it started, unless it is excused by a load that
\* was under way in its process when it started or that failed there since (_brand_map,
\* invalidate_brand_caches, process_pending).
THEOREM SitesAreSeen == SitesSpec => []SitesSeen
<1>1. SitesInv => SitesSeen
  BY DEF SitesInv, Served, SitesSeen, Owed
<1>2. QED BY <1>1, SitesBegin, SitesStep, PTL DEF SitesSpec

-----------------------------------------------------------------------------
(* The gallery of an item *)

\* t is what s has at the places S, each place once.
TakenFrom(t, s, S) ==
  \E f \in [DOMAIN t -> S] :
    /\ \A k \in DOMAIN t : t[k] = s[f[k]]
    /\ \A k, l \in DOMAIN t : f[k] = f[l] => k = l
    /\ \A i \in S : \E k \in DOMAIN t : f[k] = i

\* Places have an order.
LEMMA UpwardPlaces ==
  ASSUME NEW n \in Nat, NEW S \in SUBSET (1..n)
  PROVE  /\ IsFiniteSet(S)
         /\ Sorted(Upward(S), S, {p \in S \X S : p[1] < p[2]})
         /\ Ranks({p \in S \X S : p[1] < p[2]}, S)
<1>1. 1 \in Int /\ n \in Int
  OBVIOUS
<1>2. IsFiniteSet(1..n)
  BY <1>1, FS_Interval
<1>3. IsFiniteSet(S)
  BY <1>2, FS_Subset
<1> DEFINE R == {p \in S \X S : p[1] < p[2]}
<1>4. \A i, j \in S : <<i, j>> \in R <=> i < j
  OBVIOUS
<1>5. \A i \in S : i \in Int
  OBVIOUS
<1> HIDE DEF R
<1>6. Ranks(R, S)
  BY <1>4, <1>5 DEF Ranks
<1>7. Sorted(InOrder(S, R), S, R)
  BY <1>3, <1>6, InOrderSorts
<1>8. QED BY <1>3, <1>6, <1>7 DEF Upward, R

\* At takes what is at the places it is given.
LEMMA AtTakes ==
  ASSUME NEW T, NEW s \in Seq(T), NEW S \in SUBSET DOMAIN s
  PROVE  At(s, S) \in Seq(T) /\ TakenFrom(At(s, S), s, S)
<1> DEFINE R == {p \in S \X S : p[1] < p[2]}
           f == Upward(S)
           N == 1..Cardinality(S)
<1>1. Len(s) \in Nat /\ DOMAIN s = 1..Len(s) /\ \A i \in DOMAIN s : s[i] \in T
  BY LenProperties, ElementOfSeq
<1>2. IsFiniteSet(S) /\ Sorted(f, S, R) /\ Ranks(R, S)
  BY <1>1, UpwardPlaces
<1> HIDE DEF R, f
<1>3. /\ Cardinality(S) \in Nat
      /\ \A m, n \in N : f[m] = f[n] => m = n
      /\ \A i \in S : \E n \in N : f[n] = i
  BY <1>2, SortedOnce
<1>4. f \in [N -> S]
  BY <1>2 DEF Sorted
<1>5. At(s, S) = [n \in N |-> s[f[n]]]
  BY DEF At, f
<1>6. At(s, S) \in [N -> T]
  BY <1>1, <1>4, <1>5
<1>7. At(s, S) \in Seq(T)
  BY <1>3, <1>6, IsASeq
<1>8. DOMAIN At(s, S) = N /\ \A n \in N : At(s, S)[n] = s[f[n]]
  BY <1>5
<1>9. TakenFrom(At(s, S), s, S)
  BY <1>3, <1>4, <1>8 DEF TakenFrom
<1>10. QED BY <1>7, <1>9

Entry ==
  [image : Images, file : Nat, color : PageColors \cup {None}, page : SourcePages \cup {None}]

\* No image twice, and no file twice.
Apart(es) == \A i, j \in DOMAIN es : es[i].image = es[j].image => i = j
OwnFiles(es) == \A i, j \in DOMAIN es : es[i].file = es[j].file /\ es[i].file # 0 => i = j

\* Two entries stand for one image when they are of the same image.
LEMMA SameIdentity ==
  \A e, f : Identities(e) \cap Identities(f) = {} <=> e.image # f.image
<1> SUFFICES ASSUME NEW e, NEW f
             PROVE  Identities(e) \cap Identities(f) = {} <=> e.image # f.image
  OBVIOUS
<1>1. CASE e.image = f.image
  <2>1. <<e.image, 0>> \in Identities(e) /\ <<e.image, 0>> \in Identities(f)
    BY <1>1 DEF Identities
  <2>2. QED BY <1>1, <2>1
<1>2. CASE e.image # f.image
  <2>1. \A u \in Identities(e) : u[1] = e.image
    BY DEF Identities
  <2>2. \A u \in Identities(f) : u[1] = f.image
    BY DEF Identities
  <2>3. QED BY <1>2, <2>1, <2>2
<1>3. QED BY <1>1, <1>2

\* An image without a file is known when an entry is of it.
LEMMA KnownImage ==
  ASSUME NEW es, NEW i PROVE <<i, 0>> \in Known(es) <=> \E k \in DOMAIN es : es[k].image = i
<1>1. \A k \in DOMAIN es : <<i, 0>> \in Identities(es[k]) <=> es[k].image = i
  BY DEF Identities
<1>2. QED BY <1>1 DEF Known

\* What is taken from a list of entries without repetition.
LEMMA EntriesTaken ==
  ASSUME NEW es \in Seq(Entry), NEW S \in SUBSET DOMAIN es, NEW t, t = At(es, S)
  PROVE  /\ t \in Seq(Entry)
         /\ Apart(es) => Apart(t)
         /\ OwnFiles(es) => OwnFiles(t)
         /\ \A k \in DOMAIN t : \E i \in S : t[k] = es[i]
         /\ \A i \in S : \E k \in DOMAIN t : t[k] = es[i]
<1>1. t \in Seq(Entry) /\ TakenFrom(t, es, S)
  BY AtTakes
<1>2. PICK f \in [DOMAIN t -> S] :
        /\ \A k \in DOMAIN t : t[k] = es[f[k]]
        /\ \A k, l \in DOMAIN t : f[k] = f[l] => k = l
        /\ \A i \in S : \E k \in DOMAIN t : f[k] = i
  BY <1>1 DEF TakenFrom
<1>3. \A k \in DOMAIN t : f[k] \in S /\ f[k] \in DOMAIN es
  BY <1>2
<1>4. Apart(es) => Apart(t)
  BY <1>2, <1>3 DEF Apart
<1>5. OwnFiles(es) => OwnFiles(t)
  BY <1>2, <1>3 DEF OwnFiles
<1>6. QED BY <1>1, <1>2, <1>3, <1>4, <1>5

\* Two lists one after the other.
LEMMA TwoLists ==
  ASSUME NEW T, NEW s \in Seq(T), NEW t \in Seq(T), NEW j, j = s \o t
  PROVE  /\ j \in Seq(T)
         /\ \A k \in DOMAIN j : \/ k \in DOMAIN s /\ j[k] = s[k]
                                \/ k - Len(s) \in DOMAIN t /\ j[k] = t[k - Len(s)] /\ k \notin DOMAIN s
         /\ \A k \in DOMAIN s : k \in DOMAIN j /\ j[k] = s[k]
         /\ \A k \in DOMAIN t : Len(s) + k \in DOMAIN j /\ j[Len(s) + k] = t[k]
         /\ DOMAIN j \subseteq Nat /\ Len(s) \in Nat
<1>1. /\ Len(s) \in Nat /\ DOMAIN s = 1..Len(s)
      /\ Len(t) \in Nat /\ DOMAIN t = 1..Len(t)
  BY LenProperties
<1>2. /\ j \in Seq(T) /\ Len(j) = Len(s) + Len(t)
      /\ \A i \in 1..(Len(s) + Len(t)) : j[i] = IF i <= Len(s) THEN s[i] ELSE t[i - Len(s)]
  BY ConcatProperties
<1>3. DOMAIN j = 1..(Len(s) + Len(t))
  BY <1>2, LenProperties
<1>4. ASSUME NEW k \in DOMAIN j
      PROVE  \/ k \in DOMAIN s /\ j[k] = s[k]
             \/ k - Len(s) \in DOMAIN t /\ j[k] = t[k - Len(s)] /\ k \notin DOMAIN s
  BY <1>1, <1>2, <1>3
<1>5. ASSUME NEW k \in DOMAIN s PROVE k \in DOMAIN j /\ j[k] = s[k]
  BY <1>1, <1>2, <1>3
<1>6. ASSUME NEW k \in DOMAIN t PROVE Len(s) + k \in DOMAIN j /\ j[Len(s) + k] = t[k]
  <2>1. /\ Len(s) + k \in 1..(Len(s) + Len(t)) /\ ~(Len(s) + k <= Len(s))
        /\ Len(s) + k - Len(s) = k
    BY <1>1
  <2>2. QED BY <1>2, <1>3, <2>1
<1>7. QED BY <1>1, <1>2, <1>3, <1>4, <1>5, <1>6

LEMMA EntriesJoined ==
  ASSUME NEW s \in Seq(Entry), NEW t \in Seq(Entry), NEW j, j = s \o t,
         Apart(s), Apart(t), OwnFiles(s), OwnFiles(t),
         \A k \in DOMAIN s, l \in DOMAIN t :
           s[k].image # t[l].image /\ (s[k].file = t[l].file => s[k].file = 0)
  PROVE  j \in Seq(Entry) /\ Apart(j) /\ OwnFiles(j)
<1>1. /\ j \in Seq(Entry)
      /\ \A k \in DOMAIN j : \/ k \in DOMAIN s /\ j[k] = s[k]
                             \/ k - Len(s) \in DOMAIN t /\ j[k] = t[k - Len(s)] /\ k \notin DOMAIN s
      /\ DOMAIN j \subseteq Nat /\ Len(s) \in Nat
  BY TwoLists
<1>2. ASSUME NEW k \in DOMAIN j, NEW l \in DOMAIN j, k - Len(s) = l - Len(s) PROVE k = l
  BY <1>1, <1>2
<1>3. Apart(j)
  BY <1>1, <1>2 DEF Apart
<1>4. OwnFiles(j)
  BY <1>1, <1>2 DEF OwnFiles
<1>5. QED BY <1>1, <1>3, <1>4

\* The urls and the files of two lists.
Unites(j, s, t) ==
  /\ Urls(j) = Urls(s) \cup Urls(t) /\ Files(j) = Files(s) \cup Files(t)
  /\ Range(j) = Range(s) \cup Range(t)

LEMMA UrlsJoined ==
  ASSUME NEW T, NEW s \in Seq(T), NEW t \in Seq(T)
  PROVE  Unites(s \o t, s, t)
<1> PICK j : j = s \o t
  OBVIOUS
<1>1. /\ \A k \in DOMAIN j : \/ k \in DOMAIN s /\ j[k] = s[k]
                             \/ k - Len(s) \in DOMAIN t /\ j[k] = t[k - Len(s)]
      /\ \A k \in DOMAIN s : k \in DOMAIN j /\ j[k] = s[k]
      /\ \A k \in DOMAIN t : Len(s) + k \in DOMAIN j /\ j[Len(s) + k] = t[k]
  BY TwoLists
<1>2. ASSUME NEW k \in DOMAIN j PROVE j[k] \in Range(s) \cup Range(t)
  BY <1>1 DEF Range
<1>3. ASSUME NEW k \in DOMAIN s PROVE s[k] \in Range(j)
  BY <1>1 DEF Range
<1>4. ASSUME NEW k \in DOMAIN t PROVE t[k] \in Range(j)
  BY <1>1 DEF Range
<1>5. Range(j) = Range(s) \cup Range(t)
  <2>1. \A x \in Range(j) : x \in Range(s) \cup Range(t)
    BY <1>2 DEF Range
  <2>2. \A x \in Range(s) : x \in Range(j)
    BY <1>3 DEF Range
  <2>3. \A x \in Range(t) : x \in Range(j)
    BY <1>4 DEF Range
  <2>4. QED BY <2>1, <2>2, <2>3
<1>6. \A es : Urls(es) = {Url(e) : e \in Range(es)}
  BY DEF Urls, Range
<1>7. \A es : Files(es) = {e.file : e \in Range(es)} \ {0}
  BY DEF Files, Range
<1>8. Urls(j) = Urls(s) \cup Urls(t)
  BY <1>5, <1>6
<1>9. Files(j) = Files(s) \cup Files(t)
  BY <1>5, <1>7
<1>10. QED BY <1>5, <1>8, <1>9 DEF Unites

\* A list of images without repetition.
Images1(g) == g \in Seq(Images) /\ IsInjective(g)

LEMMA ImagesTaken ==
  ASSUME NEW g, Images1(g), NEW S \in SUBSET DOMAIN g, NEW t, t = At(g, S)
  PROVE  Images1(t) /\ \A k \in DOMAIN t : \E i \in S : t[k] = g[i]
<1>1. t \in Seq(Images) /\ TakenFrom(t, g, S)
  BY AtTakes DEF Images1
<1>2. PICK f \in [DOMAIN t -> S] :
        /\ \A k \in DOMAIN t : t[k] = g[f[k]]
        /\ \A k, l \in DOMAIN t : f[k] = f[l] => k = l
  BY <1>1 DEF TakenFrom
<1>3. \A k \in DOMAIN t : f[k] \in S /\ f[k] \in DOMAIN g
  BY <1>2
<1>4. QED BY <1>1, <1>2, <1>3 DEF Images1, IsInjective

LEMMA RawEntries ==
  ASSUME NEW g, Images1(g), NEW c \in PageColors \cup {None}, NEW p \in SourcePages \cup {None},
         NEW r, r = Raw(g, c, p)
  PROVE  /\ r \in Seq(Entry) /\ Apart(r) /\ OwnFiles(r)
         /\ DOMAIN r = DOMAIN g
         /\ \A k \in DOMAIN r : r[k] = [image |-> g[k], file |-> 0, color |-> c, page |-> p]
<1>1. Len(g) \in Nat /\ DOMAIN g = 1..Len(g) /\ \A k \in DOMAIN g : g[k] \in Images
  BY LenProperties, ElementOfSeq DEF Images1
<1>2. /\ DOMAIN r = DOMAIN g
      /\ \A k \in DOMAIN r : r[k] = [image |-> g[k], file |-> 0, color |-> c, page |-> p]
  BY DEF Raw
<1>3. r \in [1..Len(g) -> Entry]
  BY <1>1 DEF Raw, Entry
<1>4. r \in Seq(Entry)
  BY <1>1, <1>3
<1>5. Apart(r)
  BY <1>2 DEF Apart, Images1, IsInjective
<1>6. OwnFiles(r)
  BY <1>2 DEF OwnFiles
<1>7. QED BY <1>2, <1>4, <1>5, <1>6

Source == [url : SourcePages, color : PageColors]
Stored == {s \in [partial : BOOLEAN, urls : Seq(Images \X Nat)] : ~s.partial => s.urls = <<>>}
ItemRow ==
  [main : SourcePages \cup {None}, color : PageColors \cup {None}, sources : Seq(Source),
   entries : Seq(Entry), selected : Stored]

\* An entry has the color of its page.
Colored(es, color, sources) ==
  \A e \in Range(es) : IF e.page = None THEN e.color = color
                       ELSE [url |-> e.page, color |-> e.color] \in Range(sources)
OnePageEach(ss) == \A i, j \in DOMAIN ss : ss[i].url = ss[j].url => i = j

\* A row of which EntriesSound is true.
RowSound(row) ==
  /\ row \in ItemRow /\ Apart(row.entries)
  /\ Colored(row.entries, row.color, row.sources)
  /\ OnePageEach(row.sources) /\ row.main \notin {s.url : s \in Range(row.sources)}

\* A selection of which SelectionSound is true.
Points(selected, es) == Range(selected.urls) \subseteq Urls(es) /\ IsInjective(selected.urls)

LEMMA PagesAreUrls == \A row : OtherPages(row) = {s.url : s \in Range(row.sources)}
BY DEF OtherPages, Range

LEMMA UrlsOf ==
  \A es : /\ Urls(es) = {Url(e) : e \in Range(es)}
          /\ Files(es) = {e.file : e \in Range(es)} \ {0}
BY DEF Urls, Files, Range

\* The other pages without one of them.
LEMMA OthersAre ==
  ASSUME NEW row, RowSound(row), NEW p, NEW t, t = Others(row, p)
  PROVE  /\ t \in Seq(Source) /\ OnePageEach(t)
         /\ \A s : s \in Range(t) <=> s \in Range(row.sources) /\ s.url # p
<1> DEFINE ss == row.sources
           S == {i \in DOMAIN ss : ss[i].url # p}
<1>1. ss \in Seq(Source) /\ S \in SUBSET DOMAIN ss /\ t = At(ss, S)
  BY DEF RowSound, ItemRow, Others
<1> HIDE DEF ss
<1>2. t \in Seq(Source) /\ TakenFrom(t, ss, S)
  BY <1>1, AtTakes
<1>3. PICK f \in [DOMAIN t -> S] :
        /\ \A k \in DOMAIN t : t[k] = ss[f[k]]
        /\ \A k, l \in DOMAIN t : f[k] = f[l] => k = l
        /\ \A i \in S : \E k \in DOMAIN t : f[k] = i
  BY <1>2 DEF TakenFrom
<1>4. \A k \in DOMAIN t : f[k] \in S
  BY <1>3
<1>5. OnePageEach(ss)
  BY DEF RowSound, ss
<1>6. OnePageEach(t)
  BY <1>3, <1>4, <1>5 DEF OnePageEach
<1>7. \A s : s \in Range(t) <=> s \in Range(ss) /\ s.url # p
  <2>1. ASSUME NEW k \in DOMAIN t PROVE t[k] \in Range(ss) /\ t[k].url # p
    BY <1>3, <1>4 DEF Range
  <2>2. ASSUME NEW i \in DOMAIN ss, ss[i].url # p PROVE ss[i] \in Range(t)
    BY <1>3, <2>2 DEF Range
  <2>3. QED BY <2>1, <2>2 DEF Range
<1>8. QED BY <1>2, <1>6, <1>7 DEF ss

\* The entries of a page and the others.
Parted(es, p, kept, gone) ==
  /\ kept \in Seq(Entry) /\ Apart(kept)
  /\ OwnFiles(es) => OwnFiles(kept) /\ Files(kept) \cap Files(gone) = {}
  /\ \A e : e \in Range(kept) <=> e \in Range(es) /\ e.page # p
  /\ \A e : e \in Range(gone) <=> e \in Range(es) /\ e.page = p

LEMMA EntriesParted ==
  ASSUME NEW row, RowSound(row), NEW p
  PROVE  Parted(row.entries, p, NotOfPage(row.entries, p), OfPage(row.entries, p))
<1> DEFINE es == row.entries
           K == {i \in DOMAIN es : es[i].page # p}
           G == {i \in DOMAIN es : es[i].page = p}
<1> PICK kept : kept = NotOfPage(es, p)
  OBVIOUS
<1> PICK gone : gone = OfPage(es, p)
  OBVIOUS
<1>1. es \in Seq(Entry) /\ Apart(es) /\ K \in SUBSET DOMAIN es /\ G \in SUBSET DOMAIN es
  BY DEF RowSound, ItemRow
<1>2. kept = At(es, K) /\ gone = At(es, G)
  BY DEF NotOfPage, OfPage
<1> HIDE DEF es, K, G
<1>3. /\ kept \in Seq(Entry) /\ Apart(kept) /\ (OwnFiles(es) => OwnFiles(kept))
      /\ \A k \in DOMAIN kept : \E i \in K : kept[k] = es[i]
      /\ \A i \in K : \E k \in DOMAIN kept : kept[k] = es[i]
  BY <1>1, <1>2, EntriesTaken
<1>4. /\ \A k \in DOMAIN gone : \E i \in G : gone[k] = es[i]
      /\ \A i \in G : \E k \in DOMAIN gone : gone[k] = es[i]
  BY <1>1, <1>2, EntriesTaken
<1>5. \A e : e \in Range(kept) <=> e \in Range(es) /\ e.page # p
  <2>1. \A k \in DOMAIN kept : kept[k] \in Range(es) /\ kept[k].page # p
    BY <1>3 DEF Range, K
  <2>2. \A i \in K : es[i] \in Range(kept)
    BY <1>3 DEF Range, K
  <2>3. QED BY <2>1, <2>2 DEF Range, K
<1>6. \A e : e \in Range(gone) <=> e \in Range(es) /\ e.page = p
  <2>1. \A k \in DOMAIN gone : gone[k] \in Range(es) /\ gone[k].page = p
    BY <1>4 DEF Range, G
  <2>2. \A i \in G : es[i] \in Range(gone)
    BY <1>4 DEF Range, G
  <2>3. QED BY <2>1, <2>2 DEF Range, G
<1>7. ASSUME OwnFiles(es) PROVE Files(kept) \cap Files(gone) = {}
  <2>1. ASSUME NEW k \in DOMAIN kept, NEW l \in DOMAIN gone, kept[k].file # 0
        PROVE  kept[k].file # gone[l].file
    <3>1. PICK i \in K : kept[k] = es[i]
      BY <1>3
    <3>2. PICK m \in G : gone[l] = es[m]
      BY <1>4
    <3>3. i # m /\ i \in DOMAIN es /\ m \in DOMAIN es
      BY DEF K, G
    <3>4. QED BY <1>7, <2>1, <3>1, <3>2, <3>3 DEF OwnFiles
  <2>2. QED BY <2>1 DEF Files
<1>8. QED BY <1>3, <1>5, <1>6, <1>7 DEF es, Parted

\* A selection that follows a change of the gallery.
Follows(t, s, gone, new) ==
  /\ t \in Stored
  /\ Range(t.urls) \subseteq (Range(s.urls) \ gone) \cup new
  /\ IsInjective(s.urls) => IsInjective(t.urls)

LEMMA SelectionFollows ==
  ASSUME NEW s \in Stored, NEW gone, NEW new \in Seq(Images \X Nat), IsInjective(new)
  PROVE  Follows(Followed(s, gone, new), s, gone, Range(new))
<1> PICK t : t = Followed(s, gone, new)
  OBVIOUS
<1> DEFINE us == s.urls
           K == {i \in DOMAIN us : us[i] \notin gone}
           kept == At(us, K)
           F == {i \in DOMAIN new : new[i] \notin Range(kept)}
           fresh == At(new, F)
<1>1. us \in Seq(Images \X Nat) /\ K \in SUBSET DOMAIN us /\ F \in SUBSET DOMAIN new
  BY DEF Stored
<1>2. s.partial => t = [s EXCEPT !.urls = kept \o fresh]
  BY DEF Followed
<1>3. ~s.partial => t = s /\ us = <<>>
  BY DEF Followed, Stored
<1>4. kept \in Seq(Images \X Nat) /\ TakenFrom(kept, us, K)
  BY <1>1, AtTakes
<1>5. fresh \in Seq(Images \X Nat) /\ TakenFrom(fresh, new, F)
  BY <1>1, AtTakes
<1> HIDE DEF kept, fresh, us
<1>6. PICK f \in [DOMAIN kept -> K] :
        /\ \A k \in DOMAIN kept : kept[k] = us[f[k]]
        /\ \A k, l \in DOMAIN kept : f[k] = f[l] => k = l
  BY <1>4 DEF TakenFrom
<1>7. PICK h \in [DOMAIN fresh -> F] :
        /\ \A k \in DOMAIN fresh : fresh[k] = new[h[k]]
        /\ \A k, l \in DOMAIN fresh : h[k] = h[l] => k = l
  BY <1>5 DEF TakenFrom
<1>8. \A k \in DOMAIN kept : f[k] \in DOMAIN us /\ kept[k] \notin gone /\ kept[k] \in Range(us)
  BY <1>6 DEF Range
<1>9. \A k \in DOMAIN fresh :
        h[k] \in DOMAIN new /\ fresh[k] \notin Range(kept) /\ fresh[k] \in Range(new)
  BY <1>7 DEF Range
<1>10. PICK j : j = kept \o fresh
  OBVIOUS
<1>11. /\ j \in Seq(Images \X Nat)
       /\ \A k \in DOMAIN j :
            \/ k \in DOMAIN kept /\ j[k] = kept[k]
            \/ k - Len(kept) \in DOMAIN fresh /\ j[k] = fresh[k - Len(kept)] /\ k \notin DOMAIN kept
       /\ DOMAIN j \subseteq Nat /\ Len(kept) \in Nat
  BY <1>4, <1>5, <1>10, TwoLists
<1>12. Range(j) \subseteq (Range(us) \ gone) \cup Range(new)
  BY <1>8, <1>9, <1>11 DEF Range
<1>13. ASSUME IsInjective(us) PROVE IsInjective(j)
  <2>1. \A k, l \in DOMAIN kept : kept[k] = kept[l] => k = l
    BY <1>6, <1>8, <1>13 DEF IsInjective
  <2>2. \A k, l \in DOMAIN fresh : fresh[k] = fresh[l] => k = l
    BY <1>7, <1>9 DEF IsInjective
  <2>3. \A k \in DOMAIN kept, l \in DOMAIN fresh : kept[k] # fresh[l]
    BY <1>9 DEF Range
  <2>4. ASSUME NEW k \in DOMAIN j, NEW l \in DOMAIN j, j[k] = j[l] PROVE k = l
    <3>1. k \in Nat /\ l \in Nat /\ Len(kept) \in Nat
      BY <1>11
    <3>2. CASE k \in DOMAIN kept /\ l \in DOMAIN kept
      BY <1>11, <2>1, <2>4, <3>2
    <3>3. CASE k \notin DOMAIN kept /\ l \notin DOMAIN kept
      <4>1. k - Len(kept) = l - Len(kept)
        BY <1>11, <2>2, <2>4, <3>3
      <4>2. QED BY <3>1, <4>1
    <3>4. CASE ~(k \in DOMAIN kept <=> l \in DOMAIN kept)
      BY <1>11, <2>3, <2>4, <3>4
    <3>5. QED BY <3>2, <3>3, <3>4
  <2>5. QED BY <2>4 DEF IsInjective
<1>14. CASE s.partial
  <2>1. t \in Stored /\ t.urls = j
    BY <1>2, <1>10, <1>11, <1>14 DEF Stored
  <2>2. QED BY <1>12, <1>13, <2>1 DEF us, Follows
<1>15. CASE ~s.partial
  BY <1>3, <1>15 DEF us, Range, Follows
<1>16. QED BY <1>14, <1>15 DEF Stored, Follows

\* The urls of entries that are each of another image are each different.
LEMMA UrlsApart ==
  ASSUME NEW es \in Seq(Entry), Apart(es), NEW us, us = [i \in DOMAIN es |-> Url(es[i])]
  PROVE  /\ us \in Seq(Images \X Nat) /\ IsInjective(us) /\ Range(us) = Urls(es)
         /\ DOMAIN us = DOMAIN es
         /\ \A i, j \in DOMAIN es : Url(es[i]) = Url(es[j]) => i = j
<1>1. Len(es) \in Nat /\ DOMAIN es = 1..Len(es) /\ \A i \in DOMAIN es : es[i] \in Entry
  BY LenProperties, ElementOfSeq
<1>2. \A e \in Entry : Url(e) \in Images \X Nat
  BY DEF Entry, Url
<1>3. us \in [1..Len(es) -> Images \X Nat]
  BY <1>1, <1>2
<1>4. us \in Seq(Images \X Nat)
  BY <1>1, <1>3
<1>5. \A i, j \in DOMAIN es : Url(es[i]) = Url(es[j]) => i = j
  BY DEF Apart, Url
<1>6. DOMAIN us = DOMAIN es /\ \A i \in DOMAIN us : us[i] = Url(es[i])
  OBVIOUS
<1>7. IsInjective(us)
  BY <1>5, <1>6 DEF IsInjective
<1>8. Range(us) = Urls(es)
  BY <1>6 DEF Range, Urls
<1>9. QED BY <1>4, <1>5, <1>6, <1>7, <1>8

\* remove_extra_source
LEMMA RemovedSound ==
  ASSUME NEW row, RowSound(row), OwnFiles(row.entries), NEW p \in SourcePages,
         NEW r, r = Removed(row, p)
  PROVE  /\ RowSound(r) /\ OwnFiles(r.entries)
         /\ Files(r.entries) \subseteq Files(row.entries) \ Purged(row, p)
         /\ Points(row.selected, row.entries) => Points(r.selected, r.entries)
<1>1. PICK kept : kept = NotOfPage(row.entries, p)
  OBVIOUS
<1>2. PICK gone : gone = OfPage(row.entries, p)
  OBVIOUS
<1>3. PICK ss : ss = Others(row, p)
  OBVIOUS
<1>4. PICK sel : sel = Followed(row.selected, Urls(gone), <<>>)
  OBVIOUS
<1>5. /\ kept \in Seq(Entry) /\ Apart(kept) /\ OwnFiles(kept) /\ Files(kept) \cap Files(gone) = {}
      /\ \A e : e \in Range(kept) <=> e \in Range(row.entries) /\ e.page # p
      /\ \A e : e \in Range(gone) <=> e \in Range(row.entries) /\ e.page = p
  BY <1>1, <1>2, EntriesParted DEF Parted
<1>6. /\ ss \in Seq(Source) /\ OnePageEach(ss)
      /\ \A s : s \in Range(ss) <=> s \in Range(row.sources) /\ s.url # p
  BY <1>3, OthersAre
<1>7. /\ sel \in Stored
      /\ Range(sel.urls) \subseteq Range(row.selected.urls) \ Urls(gone)
      /\ IsInjective(row.selected.urls) => IsInjective(sel.urls)
  <2>1. PICK none : none = <<>>
    OBVIOUS
  <2>2. none \in Seq(Images \X Nat) /\ IsInjective(none) /\ Range(none) = {}
    BY <2>1 DEF IsInjective, Range
  <2>3. row.selected \in Stored
    BY DEF RowSound, ItemRow
  <2>4. sel = Followed(row.selected, Urls(gone), none)
    BY <1>4, <2>1
  <2>5. /\ sel \in Stored
        /\ Range(sel.urls) \subseteq (Range(row.selected.urls) \ Urls(gone)) \cup Range(none)
        /\ IsInjective(row.selected.urls) => IsInjective(sel.urls)
    BY <2>2, <2>3, <2>4, SelectionFollows DEF Follows
  <2>6. QED BY <2>2, <2>5
<1>8. r = [row EXCEPT !.entries = kept, !.sources = ss, !.selected = sel]
  BY <1>1, <1>2, <1>3, <1>4 DEF Removed
<1>9. row \in ItemRow
  BY DEF RowSound
<1>10. /\ r \in ItemRow /\ r.entries = kept /\ r.sources = ss /\ r.selected = sel
       /\ r.main = row.main /\ r.color = row.color
  BY <1>5, <1>6, <1>7, <1>8, <1>9 DEF ItemRow
<1>11. Colored(kept, row.color, ss)
  BY <1>5, <1>6 DEF RowSound, Colored
<1>12. RowSound(r)
  BY <1>5, <1>6, <1>10, <1>11 DEF RowSound
<1>13. Files(kept) \subseteq Files(row.entries) \ Files(gone)
  BY <1>5, UrlsOf
<1>14. Points(row.selected, row.entries) => Points(sel, kept)
  BY <1>5, <1>7, UrlsOf DEF Points
<1>15. QED BY <1>2, <1>5, <1>10, <1>12, <1>13, <1>14 DEF Purged

\* add_extra_source
LEMMA AddedSound ==
  ASSUME NEW row, RowSound(row), OwnFiles(row.entries), NEW p \in SourcePages, p # row.main,
         NEW c \in PageColors, NEW g \in Galleries, NEW r, r = Added(row, p, c, g)
  PROVE  /\ RowSound(r) /\ OwnFiles(r.entries)
         /\ Files(r.entries) \subseteq Files(row.entries) \ Purged(row, p)
         /\ Points(row.selected, row.entries) => Points(r.selected, r.entries)
<1>1. PICK kept : kept = NotOfPage(row.entries, p)
  OBVIOUS
<1>2. PICK gone : gone = OfPage(row.entries, p)
  OBVIOUS
<1>3. PICK ss : ss = Others(row, p)
  OBVIOUS
<1>4. PICK images : images = At(g, {i \in DOMAIN g : <<g[i], 0>> \notin Known(kept)})
  OBVIOUS
<1>5. PICK new : new = Raw(images, c, p)
  OBVIOUS
<1>6. PICK urls : urls = [i \in DOMAIN new |-> Url(new[i])]
  OBVIOUS
<1>7. PICK sel : sel = Followed(row.selected, Urls(gone) \ Urls(new), urls)
  OBVIOUS
<1>8. PICK es : es = kept \o new
  OBVIOUS
<1>9. r = [row EXCEPT !.entries = es, !.selected = sel,
                      !.sources = Append(ss, [url |-> p, color |-> c])]
  BY <1>1, <1>2, <1>3, <1>4, <1>5, <1>6, <1>7, <1>8 DEF Added, AddedBut
<1>10. /\ kept \in Seq(Entry) /\ Apart(kept) /\ OwnFiles(kept) /\ Files(kept) \cap Files(gone) = {}
       /\ \A e : e \in Range(kept) <=> e \in Range(row.entries) /\ e.page # p
       /\ \A e : e \in Range(gone) <=> e \in Range(row.entries) /\ e.page = p
  BY <1>1, <1>2, EntriesParted DEF Parted
<1>11. Images1(images) /\ \A k \in DOMAIN images : <<images[k], 0>> \notin Known(kept)
  <2> DEFINE S == {i \in DOMAIN g : <<g[i], 0>> \notin Known(kept)}
  <2>1. Images1(g) /\ S \in SUBSET DOMAIN g
    BY ItemGalleryAssumption DEF Images1
  <2>3. images = At(g, S)
    BY <1>4
  <2> HIDE DEF S
  <2>2. Images1(images) /\ \A k \in DOMAIN images : \E i \in S : images[k] = g[i]
    BY <2>1, <2>3, ImagesTaken
  <2>4. QED BY <2>2 DEF S
<1>12. p \in SourcePages \cup {None} /\ p # None /\ c \in PageColors \cup {None}
  BY ItemGalleryAssumption
<1>13. /\ new \in Seq(Entry) /\ Apart(new) /\ OwnFiles(new) /\ DOMAIN new = DOMAIN images
       /\ \A k \in DOMAIN new : new[k] = [image |-> images[k], file |-> 0, color |-> c, page |-> p]
  BY <1>5, <1>11, <1>12, RawEntries
<1>14. \A k \in DOMAIN kept, l \in DOMAIN new :
         kept[k].image # new[l].image /\ (kept[k].file = new[l].file => kept[k].file = 0)
  <2>1. \A i : <<i, 0>> \in Known(kept) <=> \E k \in DOMAIN kept : kept[k].image = i
    BY KnownImage
  <2>2. ASSUME NEW k \in DOMAIN kept, NEW l \in DOMAIN new
        PROVE  kept[k].image # new[l].image /\ new[l].file = 0
    <3>1. l \in DOMAIN images /\ new[l].image = images[l] /\ new[l].file = 0
      BY <1>13
    <3>2. <<images[l], 0>> \notin Known(kept)
      BY <1>11, <3>1
    <3>3. QED BY <2>1, <3>1, <3>2
  <2>3. QED BY <2>2
<1>15. es \in Seq(Entry) /\ Apart(es) /\ OwnFiles(es)
  BY <1>8, <1>10, <1>13, <1>14, EntriesJoined
<1>16. Urls(es) = Urls(kept) \cup Urls(new) /\ Files(es) = Files(kept) \cup Files(new)
       /\ Range(es) = Range(kept) \cup Range(new)
  <2>1. kept \in Seq(Entry) /\ new \in Seq(Entry)
    BY <1>10, <1>13
  <2>2. QED BY <1>8, <2>1, UrlsJoined DEF Unites
<1>17. Files(new) = {}
  BY <1>13 DEF Files
<1>18. PICK sources : sources = Append(ss, [url |-> p, color |-> c])
  OBVIOUS
<1>19. /\ sources \in Seq(Source) /\ OnePageEach(sources)
       /\ \A s : s \in Range(sources) <=>
              \/ s \in Range(row.sources) /\ s.url # p
              \/ s = [url |-> p, color |-> c]
  <2>1. /\ ss \in Seq(Source) /\ OnePageEach(ss)
        /\ \A s : s \in Range(ss) <=> s \in Range(row.sources) /\ s.url # p
    BY <1>3, OthersAre
  <2>2. PICK a : a = [url |-> p, color |-> c]
    OBVIOUS
  <2>3. a \in Source
    BY <2>2 DEF Source
  <2>4. Len(ss) \in Nat /\ DOMAIN ss = 1..Len(ss)
    BY <2>1, LenProperties
  <2>5. /\ sources \in Seq(Source) /\ Len(sources) = Len(ss) + 1
        /\ \A i \in 1..Len(ss) : sources[i] = ss[i]
        /\ sources[Len(ss) + 1] = a
    BY <1>18, <2>1, <2>2, <2>3, AppendProperties
  <2>6. DOMAIN sources = 1..(Len(ss) + 1)
    BY <2>5, LenProperties
  <2>7. \A i \in DOMAIN sources : (i \in DOMAIN ss /\ sources[i] = ss[i]) \/ i = Len(ss) + 1
    BY <2>4, <2>5, <2>6
  <2>8. \A i \in DOMAIN ss : i \in DOMAIN sources /\ sources[i] = ss[i]
    BY <2>4, <2>5, <2>6
  <2>9. Len(ss) + 1 \in DOMAIN sources
    BY <2>4, <2>6
  <2>10. Range(sources) = Range(ss) \cup {a}
    BY <2>5, <2>7, <2>8, <2>9 DEF Range
  <2>11. \A i \in DOMAIN ss : ss[i].url # a.url
    BY <2>1, <2>2 DEF Range
  <2>12. OnePageEach(sources)
    BY <2>1, <2>5, <2>7, <2>11 DEF OnePageEach
  <2>13. QED BY <2>1, <2>2, <2>5, <2>10, <2>12
<1>20. /\ sel \in Stored
       /\ Range(sel.urls) \subseteq (Range(row.selected.urls) \ (Urls(gone) \ Urls(new))) \cup Urls(new)
       /\ IsInjective(row.selected.urls) => IsInjective(sel.urls)
  <2>1. urls \in Seq(Images \X Nat) /\ IsInjective(urls) /\ Range(urls) = Urls(new)
    BY <1>6, <1>13, UrlsApart
  <2>2. row.selected \in Stored
    BY DEF RowSound, ItemRow
  <2>3. QED BY <1>7, <2>1, <2>2, SelectionFollows DEF Follows
<1>21. row \in ItemRow
  BY DEF RowSound
<1>22. /\ r \in ItemRow /\ r.entries = es /\ r.sources = sources /\ r.selected = sel
       /\ r.main = row.main /\ r.color = row.color
  BY <1>9, <1>15, <1>18, <1>19, <1>20, <1>21 DEF ItemRow
<1>23. Colored(es, row.color, sources)
  <2>1. ASSUME NEW e \in Range(kept)
        PROVE  IF e.page = None THEN e.color = row.color
               ELSE [url |-> e.page, color |-> e.color] \in Range(sources)
    BY <1>10, <1>19 DEF RowSound, Colored
  <2>2. ASSUME NEW e \in Range(new)
        PROVE  IF e.page = None THEN e.color = row.color
               ELSE [url |-> e.page, color |-> e.color] \in Range(sources)
    <3>1. PICK k \in DOMAIN new : new[k] = e
      BY DEF Range
    <3>2. e.page = p /\ e.color = c
      BY <1>13, <3>1
    <3>3. QED BY <1>12, <1>19, <3>2
  <2>3. QED BY <1>16, <2>1, <2>2 DEF Colored
<1>24. RowSound(r)
  BY <1>15, <1>19, <1>22, <1>23 DEF RowSound
<1>25. Files(es) \subseteq Files(row.entries) \ Files(gone)
  <2>1. Files(kept) \subseteq Files(row.entries)
    BY <1>10, UrlsOf
  <2>2. QED BY <1>10, <1>16, <1>17, <2>1
<1>26. Points(row.selected, row.entries) => Points(sel, es)
  <2>1. Urls(row.entries) \subseteq Urls(kept) \cup Urls(gone)
    BY <1>10, UrlsOf
  <2>2. QED BY <1>16, <1>20, <2>1 DEF Points
<1>27. QED BY <1>2, <1>15, <1>22, <1>24, <1>25, <1>26 DEF Purged

\* A page and its color.
LEMMA SourcesAre ==
  ASSUME NEW row, row \in ItemRow, NEW k \in DOMAIN row.sources
  PROVE  row.sources[k].url \in SourcePages /\ row.sources[k].color \in PageColors
<1>1. PICK ss : ss = row.sources
  OBVIOUS
<1>2. ss \in Seq(Source) /\ k \in DOMAIN ss
  BY <1>1 DEF ItemRow
<1>3. k \in 1..Len(ss)
  BY <1>2, LenProperties
<1>4. ss[k] \in Source
  BY <1>2, <1>3, ElementOfSeq
<1>5. QED BY <1>1, <1>4 DEF Source

\* Entries that keep their image and their file.
LEMMA SameImages ==
  ASSUME NEW es \in Seq(Entry), NEW new, DOMAIN new = DOMAIN es, \A i \in DOMAIN es : new[i] \in Entry,
         \A i \in DOMAIN es : new[i].image = es[i].image /\ new[i].file = es[i].file
  PROVE  /\ new \in [DOMAIN new -> Entry] => new \in Seq(Entry)
         /\ Apart(es) => Apart(new)
         /\ OwnFiles(es) => OwnFiles(new)
         /\ Files(new) = Files(es) /\ Urls(new) = Urls(es)
<1>1. Len(es) \in Nat /\ DOMAIN es = 1..Len(es)
  BY LenProperties
<1>2. new \in [DOMAIN new -> Entry] => new \in Seq(Entry)
  BY <1>1
<1>3. Apart(es) => Apart(new)
  BY DEF Apart
<1>4. OwnFiles(es) => OwnFiles(new)
  BY DEF OwnFiles
<1>5. Files(new) = Files(es)
  BY DEF Files
<1>6. Urls(new) = Urls(es)
  BY DEF Urls, Url
<1>7. QED BY <1>2, <1>3, <1>4, <1>5, <1>6

\* set_main_color
LEMMA MainColoredSound ==
  ASSUME NEW row, RowSound(row), OwnFiles(row.entries), NEW c \in PageColors \cup {None},
         NEW r, r = MainColored(row, c)
  PROVE  /\ RowSound(r) /\ OwnFiles(r.entries)
         /\ Files(r.entries) = Files(row.entries)
         /\ Points(row.selected, row.entries) => Points(r.selected, r.entries)
<1>1. PICK es : es = row.entries
  OBVIOUS
<1>2. PICK new : new = Tagged(es, OtherPages(row), c)
  OBVIOUS
<1>3. es \in Seq(Entry) /\ Apart(es) /\ OwnFiles(es) /\ Colored(es, row.color, row.sources)
  BY <1>1 DEF RowSound, ItemRow
<1>4. Len(es) \in Nat /\ DOMAIN es = 1..Len(es) /\ \A i \in DOMAIN es : es[i] \in Entry
  BY <1>3, LenProperties, ElementOfSeq
<1>5. /\ DOMAIN new = DOMAIN es
      /\ \A i \in DOMAIN es :
           new[i] = IF es[i].page \in OtherPages(row) THEN es[i] ELSE [es[i] EXCEPT !.color = c]
      /\ new = [i \in DOMAIN es |-> new[i]]
  BY <1>2 DEF Tagged
<1>6. \A i \in DOMAIN es :
        /\ new[i] \in Entry /\ new[i].image = es[i].image /\ new[i].file = es[i].file
        /\ new[i].page = es[i].page
        /\ new[i].color = IF es[i].page \in OtherPages(row) THEN es[i].color ELSE c
  BY <1>4, <1>5 DEF Entry
<1>7. new \in [DOMAIN new -> Entry]
  BY <1>5, <1>6
<1>8. /\ new \in Seq(Entry) /\ Apart(new) /\ OwnFiles(new)
      /\ Files(new) = Files(es) /\ Urls(new) = Urls(es)
  BY <1>3, <1>5, <1>6, <1>7, SameImages
<1>9. Colored(new, c, row.sources)
  <2>1. ASSUME NEW i \in DOMAIN es
        PROVE  IF new[i].page = None THEN new[i].color = c
               ELSE [url |-> new[i].page, color |-> new[i].color] \in Range(row.sources)
    <3>1. CASE es[i].page = None
      <4>1. None \notin OtherPages(row)
        <5>1. row \in ItemRow
          BY DEF RowSound
        <5>2. \A k \in DOMAIN row.sources : row.sources[k].url \in SourcePages
          BY <5>1, SourcesAre
        <5>3. QED BY <5>2, ItemGalleryAssumption DEF OtherPages
      <4>2. QED BY <1>6, <3>1, <4>1
    <3>2. CASE es[i].page # None
      <4>1. es[i] \in Range(es)
        BY DEF Range
      <4>2. [url |-> es[i].page, color |-> es[i].color] \in Range(row.sources)
        BY <1>3, <3>2, <4>1 DEF Colored
      <4>3. es[i].page \in OtherPages(row)
        BY <4>2, PagesAreUrls
      <4>4. QED BY <1>6, <3>2, <4>2, <4>3
    <3>3. QED BY <3>1, <3>2
  <2>2. QED BY <1>5, <2>1 DEF Colored, Range
<1>10. r = [row EXCEPT !.color = c, !.entries = new]
  BY <1>1, <1>2 DEF MainColored
<1>11. row \in ItemRow
  BY DEF RowSound
<1>12. /\ r \in ItemRow /\ r.entries = new /\ r.sources = row.sources /\ r.selected = row.selected
       /\ r.main = row.main /\ r.color = c
  BY <1>8, <1>10, <1>11 DEF ItemRow
<1>13. RowSound(r)
  BY <1>8, <1>9, <1>12 DEF RowSound
<1>14. QED BY <1>1, <1>8, <1>12, <1>13 DEF Points

\* stage_from_url
LEMMA RestagedSound ==
  ASSUME NEW row, RowSound(row), OwnFiles(row.entries), NEW p \in SourcePages, NEW g \in Galleries,
         NEW r, r = Restaged(row, p, g)
  PROVE  /\ RowSound(r) /\ OwnFiles(r.entries)
         /\ Files(r.entries) \subseteq Files(row.entries)
         /\ r.selected = row.selected
<1>1. PICK ss : ss = Others(row, p)
  OBVIOUS
<1>2. PICK before : before = {i \in DOMAIN row.sources : row.sources[i].url = p}
  OBVIOUS
<1>3. PICK color : color = IF before = {} THEN row.color
                           ELSE row.sources[CHOOSE i \in before : TRUE].color
  OBVIOUS
<1>4. PICK main : main = Raw(g, color, None)
  OBVIOUS
<1>5. PICK S : S = {i \in DOMAIN row.entries :
                      /\ row.entries[i].page \in OtherPages(row) \ {p}
                      /\ Identities(row.entries[i]) \cap Known(main) = {}}
  OBVIOUS
<1>6. PICK extra : extra = At(row.entries, S)
  OBVIOUS
<1>7. PICK es : es = main \o extra
  OBVIOUS
<1>8. r = [row EXCEPT !.main = p, !.color = color, !.sources = ss, !.entries = es]
  BY <1>1, <1>2, <1>3, <1>4, <1>5, <1>6, <1>7 DEF Restaged
<1>9. row \in ItemRow /\ row.entries \in Seq(Entry) /\ Apart(row.entries)
  BY DEF RowSound, ItemRow
<1>10. color \in PageColors \cup {None}
  <2>1. row.color \in PageColors \cup {None}
    BY <1>9 DEF ItemRow
  <2>2. \A k \in DOMAIN row.sources : row.sources[k].color \in PageColors
    BY <1>9, SourcesAre
  <2>3. before # {} => (CHOOSE i \in before : TRUE) \in DOMAIN row.sources
    BY <1>2
  <2>4. QED BY <1>3, <2>1, <2>2, <2>3
<1>11. Images1(g) /\ None \in SourcePages \cup {None}
  BY ItemGalleryAssumption DEF Images1
<1>12. /\ main \in Seq(Entry) /\ Apart(main) /\ OwnFiles(main)
       /\ \A k \in DOMAIN main : main[k] = [image |-> g[k], file |-> 0, color |-> color, page |-> None]
  BY <1>4, <1>10, <1>11, RawEntries
<1>13. S \in SUBSET DOMAIN row.entries
  BY <1>5
<1>14. /\ extra \in Seq(Entry) /\ Apart(extra) /\ OwnFiles(extra)
       /\ \A k \in DOMAIN extra : \E i \in S : extra[k] = row.entries[i]
  BY <1>6, <1>9, <1>13, EntriesTaken
<1>15. ASSUME NEW k \in DOMAIN extra
       PROVE  /\ extra[k].page \in OtherPages(row) /\ extra[k].page # p
              /\ extra[k] \in Range(row.entries)
              /\ \A l \in DOMAIN main : main[l].image # extra[k].image
  <2>1. PICK i \in S : extra[k] = row.entries[i]
    BY <1>14
  <2>2. /\ i \in DOMAIN row.entries /\ extra[k].page \in OtherPages(row) /\ extra[k].page # p
        /\ Identities(extra[k]) \cap Known(main) = {}
    BY <1>5, <2>1
  <2>3. ASSUME NEW l \in DOMAIN main PROVE main[l].image # extra[k].image
    <3>1. Identities(main[l]) \subseteq Known(main)
      BY DEF Known
    <3>2. Identities(main[l]) \cap Identities(extra[k]) = {}
      BY <2>2, <3>1
    <3>3. QED BY <3>2, SameIdentity
  <2>4. QED BY <2>1, <2>2, <2>3 DEF Range
<1>16. \A l \in DOMAIN main : main[l].file = 0 /\ main[l].page = None /\ main[l].color = color
  BY <1>12
<1>17. es \in Seq(Entry) /\ Apart(es) /\ OwnFiles(es)
  <2>1. \A k \in DOMAIN main, l \in DOMAIN extra :
          main[k].image # extra[l].image /\ (main[k].file = extra[l].file => main[k].file = 0)
    BY <1>15, <1>16
  <2>2. QED BY <1>7, <1>12, <1>14, <2>1, EntriesJoined
<1>18. Range(es) = Range(main) \cup Range(extra) /\ Files(es) = Files(main) \cup Files(extra)
  <2>1. main \in Seq(Entry) /\ extra \in Seq(Entry)
    BY <1>12, <1>14
  <2>2. QED BY <1>7, <2>1, UrlsJoined DEF Unites
<1>19. /\ ss \in Seq(Source) /\ OnePageEach(ss)
       /\ \A s : s \in Range(ss) <=> s \in Range(row.sources) /\ s.url # p
  BY <1>1, OthersAre
<1>20. Colored(es, color, ss)
  <2>1. ASSUME NEW e \in Range(main)
        PROVE  IF e.page = None THEN e.color = color ELSE [url |-> e.page, color |-> e.color] \in Range(ss)
    BY <1>16 DEF Range
  <2>2. ASSUME NEW e \in Range(extra)
        PROVE  IF e.page = None THEN e.color = color ELSE [url |-> e.page, color |-> e.color] \in Range(ss)
    <3>1. e \in Range(row.entries) /\ e.page \in OtherPages(row) /\ e.page # p
      BY <1>15 DEF Range
    <3>2. e.page # None
      <4>1. \A k \in DOMAIN row.sources : row.sources[k].url \in SourcePages
        BY <1>9, SourcesAre
      <4>2. QED BY <3>1, <4>1, ItemGalleryAssumption DEF OtherPages
    <3>3. [url |-> e.page, color |-> e.color] \in Range(row.sources)
      BY <3>1, <3>2 DEF RowSound, Colored
    <3>4. QED BY <1>19, <3>1, <3>2, <3>3
  <2>3. QED BY <1>18, <2>1, <2>2 DEF Colored
<1>21. /\ r \in ItemRow /\ r.entries = es /\ r.sources = ss /\ r.selected = row.selected
       /\ r.main = p /\ r.color = color
  BY <1>8, <1>9, <1>10, <1>17, <1>19 DEF ItemRow
<1>22. RowSound(r)
  BY <1>17, <1>19, <1>20, <1>21 DEF RowSound
<1>23. Files(es) \subseteq Files(row.entries)
  <2>1. Files(main) = {}
    BY <1>16 DEF Files
  <2>2. Files(extra) \subseteq Files(row.entries)
    BY <1>15, UrlsOf DEF Range
  <2>3. QED BY <1>18, <2>1, <2>2
<1>24. QED BY <1>17, <1>21, <1>22, <1>23

\* retry_item and the run that follows
LEMMA RerunSound ==
  ASSUME NEW row, RowSound(row), NEW p \in SourcePages, NEW g \in Galleries,
         NEW r, r = Rerun(row, p, g)
  PROVE  RowSound(r) /\ OwnFiles(r.entries) /\ Files(r.entries) = {} /\ r.selected = row.selected
<1>1. PICK main : main = Raw(g, None, None)
  OBVIOUS
<1>2. Images1(g) /\ None \in SourcePages \cup {None} /\ None \in PageColors \cup {None}
  BY ItemGalleryAssumption DEF Images1
<1>3. /\ main \in Seq(Entry) /\ Apart(main) /\ OwnFiles(main)
      /\ \A k \in DOMAIN main : main[k] = [image |-> g[k], file |-> 0, color |-> None, page |-> None]
  BY <1>1, <1>2, RawEntries
<1>4. PICK none : none = <<>>
  OBVIOUS
<1>5. none \in Seq(Source) /\ OnePageEach(none) /\ Range(none) = {}
  BY <1>4 DEF OnePageEach, Range
<1>6. row.selected \in Stored
  BY DEF RowSound, ItemRow
<1>7. r = [main |-> p, color |-> None, sources |-> none, entries |-> main, selected |-> row.selected]
  BY <1>1, <1>4 DEF Rerun, Bare
<1>8. r \in ItemRow
  BY <1>2, <1>3, <1>5, <1>6, <1>7 DEF ItemRow
<1>9. \A k \in DOMAIN main : main[k].page = None /\ main[k].color = None /\ main[k].file = 0
  BY <1>3
<1>10. Colored(main, None, none) /\ Files(main) = {}
  BY <1>9 DEF Colored, Range, Files
<1>11. QED BY <1>3, <1>5, <1>7, <1>8, <1>10 DEF RowSound

\* normalize_item_image: the image keeps its place and the selection its image.
LEMMA NormalizedSound ==
  ASSUME NEW row, RowSound(row), OwnFiles(row.entries), NEW i \in DOMAIN row.entries,
         NEW n \in Nat, n # 0 => n \notin Files(row.entries),
         NEW r, r = Normalized(row, i, n)
  PROVE  /\ RowSound(r) /\ OwnFiles(r.entries)
         /\ Files(r.entries) \subseteq (Files(row.entries) \ {row.entries[i].file}) \cup ({n} \ {0})
         /\ Points(row.selected, row.entries) => Points(r.selected, r.entries)
<1>1. PICK es : es = row.entries
  OBVIOUS
<1>2. PICK new : new = [es EXCEPT ![i].file = n]
  OBVIOUS
<1>3. PICK us : us = row.selected.urls
  OBVIOUS
<1>4. PICK e : e = es[i]
  OBVIOUS
<1>5. PICK to : to = [k \in DOMAIN us |-> IF us[k] = Url(e) THEN <<e.image, n>> ELSE us[k]]
  OBVIOUS
<1>6. es \in Seq(Entry) /\ Apart(es) /\ OwnFiles(es) /\ Colored(es, row.color, row.sources)
  BY <1>1 DEF RowSound, ItemRow
<1>7. Len(es) \in Nat /\ DOMAIN es = 1..Len(es) /\ \A k \in DOMAIN es : es[k] \in Entry
  BY <1>6, LenProperties, ElementOfSeq
<1>8. row \in ItemRow /\ row.selected \in Stored
  BY DEF RowSound, ItemRow
<1>9. /\ DOMAIN new = DOMAIN es /\ i \in DOMAIN es
      /\ \A k \in DOMAIN es : k # i => new[k] = es[k]
      /\ new[i] = [es[i] EXCEPT !.file = n]
  <2>1. i \in DOMAIN es
    BY <1>1
  <2>2. new = [k \in DOMAIN es |-> IF k = i THEN [es[i] EXCEPT !.file = n] ELSE es[k]]
    BY <1>2, <1>7, <2>1
  <2>3. QED BY <2>1, <2>2
<1>10. \A k \in DOMAIN es :
         /\ new[k] \in Entry /\ new[k].image = es[k].image
         /\ new[k].page = es[k].page /\ new[k].color = es[k].color
         /\ new[k].file = IF k = i THEN n ELSE es[k].file
  BY <1>7, <1>9 DEF Entry
<1>11. new \in Seq(Entry)
  <2>1. new \in [1..Len(es) -> Entry]
    BY <1>2, <1>7, <1>9, <1>10
  <2>2. QED BY <1>7, <2>1
<1>12. Apart(new)
  BY <1>6, <1>9, <1>10 DEF Apart
<1>13. \A k \in DOMAIN es : n # 0 => es[k].file # n
  BY <1>1 DEF Files
<1>14. OwnFiles(new)
  BY <1>6, <1>9, <1>10, <1>13 DEF OwnFiles
<1>15. Colored(new, row.color, row.sources)
  <2>1. ASSUME NEW k \in DOMAIN es
        PROVE  IF new[k].page = None THEN new[k].color = row.color
               ELSE [url |-> new[k].page, color |-> new[k].color] \in Range(row.sources)
    <3>1. es[k] \in Range(es)
      BY DEF Range
    <3>2. QED BY <1>6, <1>10, <3>1 DEF Colored
  <2>2. QED BY <1>9, <2>1 DEF Colored, Range
<1>16. Files(new) \subseteq (Files(es) \ {e.file}) \cup ({n} \ {0})
  <2>1. ASSUME NEW k \in DOMAIN es, k # i, es[k].file # 0
        PROVE  es[k].file \in Files(es) /\ es[k].file # e.file
    BY <1>4, <1>6, <1>9, <2>1 DEF OwnFiles, Files
  <2>2. ASSUME NEW k \in DOMAIN new, new[k].file # 0
        PROVE  new[k].file \in (Files(es) \ {e.file}) \cup ({n} \ {0})
    BY <1>9, <1>10, <2>1, <2>2
  <2>3. QED BY <2>2 DEF Files
<1>17. e \in Entry
  BY <1>4, <1>7, <1>9
<1>18. [row.selected EXCEPT !.urls = to] \in Stored
  <2>1. us \in Seq(Images \X Nat) /\ (~row.selected.partial => us = <<>>)
    BY <1>3, <1>8 DEF Stored
  <2>2. Len(us) \in Nat /\ DOMAIN us = 1..Len(us) /\ \A k \in DOMAIN us : us[k] \in Images \X Nat
    BY <2>1, LenProperties, ElementOfSeq
  <2>3. <<e.image, n>> \in Images \X Nat
    BY <1>17 DEF Entry
  <2>4. to \in [1..Len(us) -> Images \X Nat]
    BY <1>5, <2>2, <2>3
  <2>5. to \in Seq(Images \X Nat)
    BY <2>2, <2>4
  <2>6. us = <<>> => to = <<>>
    <3>1. us = <<>> => Len(us) = 0
      BY <2>1
    <3>2. to \in Seq(Images \X Nat) /\ (Len(us) = 0 => Len(to) = 0)
      BY <2>2, <2>4, <2>5, LenProperties
    <3>3. QED BY <3>1, <3>2, EmptySeq
  <2>7. QED BY <1>8, <2>1, <2>5, <2>6 DEF Stored
<1>19. \A k \in DOMAIN us : to[k] = IF us[k] = Url(e) THEN <<e.image, n>> ELSE us[k]
  BY <1>5
<1>20. DOMAIN to = DOMAIN us
  BY <1>5
<1>21. ASSUME Points(row.selected, es)
       PROVE  Points([row.selected EXCEPT !.urls = to], new)
  <2>1. Range(us) \subseteq Urls(es) /\ IsInjective(us)
    BY <1>3, <1>21 DEF Points
  <2>2. ASSUME NEW k \in DOMAIN us
        PROVE  \E l \in DOMAIN es : us[k] = Url(es[l]) /\ to[k] = Url(new[l])
    <3>1. PICK l \in DOMAIN es : us[k] = Url(es[l])
      BY <2>1 DEF Range, Urls
    <3>2. CASE l = i
      <4>1. to[k] = <<e.image, n>>
        BY <1>4, <1>19, <3>1, <3>2
      <4>2. Url(new[l]) = <<e.image, n>>
        BY <1>4, <1>10, <3>2 DEF Url
      <4>3. QED BY <3>1, <4>1, <4>2
    <3>3. CASE l # i
      <4>1. us[k] # Url(e)
        BY <1>4, <1>6, <1>9, <3>1, <3>3 DEF Url, Apart
      <4>2. to[k] = us[k] /\ new[l] = es[l]
        BY <1>9, <1>19, <3>3, <4>1
      <4>3. QED BY <3>1, <4>2
    <3>4. QED BY <3>2, <3>3
  <2>3. Range(to) \subseteq Urls(new)
    BY <1>9, <1>20, <2>2 DEF Range, Urls
  <2>4. ASSUME NEW k \in DOMAIN us, NEW l \in DOMAIN us, to[k] = to[l] PROVE k = l
    <3>1. PICK a \in DOMAIN es : us[k] = Url(es[a]) /\ to[k] = Url(new[a])
      BY <2>2
    <3>2. PICK b \in DOMAIN es : us[l] = Url(es[b]) /\ to[l] = Url(new[b])
      BY <2>2
    <3>3. a = b
      <4>1. Url(new[a]) = Url(new[b])
        BY <2>4, <3>1, <3>2
      <4>2. new[a].image = new[b].image
        BY <4>1 DEF Url
      <4>3. a \in DOMAIN new /\ b \in DOMAIN new
        BY <1>9
      <4>4. QED BY <1>12, <4>2, <4>3 DEF Apart
    <3>4. us[k] = us[l]
      BY <3>1, <3>2, <3>3
    <3>5. QED BY <2>1, <3>4 DEF IsInjective
  <2>5. IsInjective(to)
    BY <1>20, <2>4 DEF IsInjective
  <2>6. [row.selected EXCEPT !.urls = to].urls = to
    BY <1>8 DEF Stored
  <2>7. QED BY <2>3, <2>5, <2>6 DEF Points
<1>22. r = [row EXCEPT !.entries = new, !.selected = [row.selected EXCEPT !.urls = to]]
  BY <1>1, <1>2, <1>3, <1>4, <1>5, <1>8 DEF Normalized, ItemRow, Stored
<1>23. /\ r \in ItemRow /\ r.entries = new /\ r.sources = row.sources
       /\ r.selected = [row.selected EXCEPT !.urls = to]
       /\ r.main = row.main /\ r.color = row.color
  BY <1>8, <1>11, <1>18, <1>22 DEF ItemRow
<1>24. RowSound(r)
  BY <1>12, <1>15, <1>23 DEF RowSound
<1>25. QED BY <1>1, <1>4, <1>14, <1>16, <1>21, <1>23, <1>24

\* A selection the reviewer stores.
LEMMA SelectedSound ==
  ASSUME NEW row, RowSound(row), NEW S \in SUBSET DOMAIN row.entries,
         NEW urls, urls = At([i \in DOMAIN row.entries |-> Url(row.entries[i])], S),
         NEW r, r = [row EXCEPT !.selected = [partial |-> TRUE, urls |-> urls]]
  PROVE  RowSound(r) /\ r.entries = row.entries /\ Points(r.selected, r.entries)
<1>1. PICK us : us = [i \in DOMAIN row.entries |-> Url(row.entries[i])]
  OBVIOUS
<1>2. row \in ItemRow /\ row.entries \in Seq(Entry) /\ Apart(row.entries)
  BY DEF RowSound, ItemRow
<1>3. /\ us \in Seq(Images \X Nat) /\ IsInjective(us) /\ Range(us) = Urls(row.entries)
      /\ DOMAIN us = DOMAIN row.entries
  BY <1>1, <1>2, UrlsApart
<1>4. urls \in Seq(Images \X Nat) /\ TakenFrom(urls, us, S)
  BY <1>1, <1>3, AtTakes
<1>5. PICK f \in [DOMAIN urls -> S] :
        /\ \A k \in DOMAIN urls : urls[k] = us[f[k]]
        /\ \A k, l \in DOMAIN urls : f[k] = f[l] => k = l
  BY <1>4 DEF TakenFrom
<1>6. \A k \in DOMAIN urls : f[k] \in DOMAIN us
  BY <1>3, <1>5
<1>7. IsInjective(urls)
  BY <1>3, <1>5, <1>6 DEF IsInjective
<1>8. Range(urls) \subseteq Urls(row.entries)
  BY <1>3, <1>5, <1>6 DEF Range
<1>9. [partial |-> TRUE, urls |-> urls] \in Stored
  BY <1>4 DEF Stored
<1>10. /\ r \in ItemRow /\ r.entries = row.entries /\ r.sources = row.sources
       /\ r.selected.urls = urls /\ r.main = row.main /\ r.color = row.color
  BY <1>2, <1>9 DEF ItemRow
<1>11. RowSound(r)
  BY <1>10 DEF RowSound
<1>12. QED BY <1>7, <1>8, <1>10, <1>11 DEF Points

LEMMA EverythingSound ==
  ASSUME NEW row, RowSound(row), NEW r, r = [row EXCEPT !.selected = Everything]
  PROVE  RowSound(r) /\ r.entries = row.entries /\ Points(r.selected, r.entries)
<1>1. row \in ItemRow
  BY DEF RowSound
<1>2. PICK none : none = <<>>
  OBVIOUS
<1>3. none \in Seq(Images \X Nat) /\ IsInjective(none) /\ Range(none) = {}
  BY <1>2 DEF IsInjective, Range
<1>4. Everything \in Stored /\ Everything.urls = none
  BY <1>2, <1>3 DEF Everything, Stored
<1>5. /\ r \in ItemRow /\ r.entries = row.entries /\ r.sources = row.sources
      /\ r.selected.urls = none /\ r.main = row.main /\ r.color = row.color
  BY <1>1, <1>4 DEF ItemRow
<1>6. RowSound(r)
  BY <1>5 DEF RowSound
<1>7. QED BY <1>3, <1>5, <1>6 DEF Points

-----------------------------------------------------------------------------
\* The gallery: its files are in the store, none of them yet to be given, and the
\* selection points at it unless it was left behind.
GalleryKept ==
  /\ RowSound(item) /\ OwnFiles(item.entries)
  /\ made \in Nat /\ staged \subseteq 1..made /\ Files(item.entries) \subseteq staged
  /\ stale \in BOOLEAN /\ (~stale => Points(item.selected, item.entries))

\* A selection of nothing points nowhere else.
LEMMA NothingPoints ==
  ASSUME NEW s \in Stored, ~s.partial, NEW es PROVE Points(s, es)
<1>1. s.urls = <<>>
  BY DEF Stored
<1>2. QED BY <1>1 DEF Points, IsInjective, Range

LEMMA KeptStep == GalleryKept /\ [ItemNext]_itemVars => GalleryKept'
<1> SUFFICES ASSUME GalleryKept, [ItemNext]_itemVars PROVE GalleryKept'
  OBVIOUS
<1> USE DEF Edits
<1>1. /\ RowSound(item) /\ OwnFiles(item.entries)
      /\ made \in Nat /\ staged \subseteq 1..made /\ Files(item.entries) \subseteq staged
      /\ stale \in BOOLEAN /\ (~stale => Points(item.selected, item.entries))
  BY DEF GalleryKept
<1>2. item.selected \in Stored /\ item.selected.partial \in BOOLEAN
  BY <1>1 DEF RowSound, ItemRow, Stored
<1>3. CASE UNCHANGED itemVars
  BY <1>1, <1>3 DEF itemVars, GalleryKept
<1>4. ASSUME NEW p \in SourcePages, NEW g \in Galleries, FindPage(p, g) PROVE GalleryKept'
  <2>1. PICK r : r = Rerun(item, p, g)
    OBVIOUS
  <2>2. RowSound(r) /\ OwnFiles(r.entries) /\ Files(r.entries) = {} /\ r.selected = item.selected
    BY <1>1, <2>1, RerunSound
  <2>3. item' = r /\ UNCHANGED <<staged, made, stale>> /\ item = Bare
    BY <1>4, <2>1 DEF FindPage
  <2>4. Points(r.selected, r.entries)
    <3>1. ~item.selected.partial
      BY <2>3 DEF Bare, Everything
    <3>2. QED BY <1>2, <2>2, <3>1, NothingPoints
  <2>5. QED BY <1>1, <2>2, <2>3, <2>4 DEF GalleryKept
<1>5. ASSUME NEW p \in SourcePages, NEW g \in Galleries, ChangeMain(p, g) PROVE GalleryKept'
  <2>1. PICK r : r = Restaged(item, p, g)
    OBVIOUS
  <2>2. /\ RowSound(r) /\ OwnFiles(r.entries) /\ Files(r.entries) \subseteq Files(item.entries)
        /\ r.selected = item.selected
    BY <1>1, <2>1, RestagedSound
  <2>3. item' = r /\ stale' = item.selected.partial /\ UNCHANGED <<staged, made>>
    BY <1>5, <2>1 DEF ChangeMain
  <2>4. ~item.selected.partial => Points(r.selected, r.entries)
    BY <1>2, <2>2, NothingPoints
  <2>5. QED BY <1>1, <1>2, <2>2, <2>3, <2>4 DEF GalleryKept
<1>6. ASSUME NEW p \in SourcePages, NEW g \in Galleries, Retry(p, g) PROVE GalleryKept'
  <2>1. PICK r : r = Rerun(item, p, g)
    OBVIOUS
  <2>2. RowSound(r) /\ OwnFiles(r.entries) /\ Files(r.entries) = {} /\ r.selected = item.selected
    BY <1>1, <2>1, RerunSound
  <2>3. item' = r /\ stale' = item.selected.partial /\ UNCHANGED <<staged, made>>
    BY <1>6, <2>1 DEF Retry
  <2>4. ~item.selected.partial => Points(r.selected, r.entries)
    BY <1>2, <2>2, NothingPoints
  <2>5. QED BY <1>1, <1>2, <2>2, <2>3, <2>4 DEF GalleryKept
<1>7. ASSUME NEW p \in SourcePages, NEW c \in PageColors, NEW g \in Galleries, AddPage(p, c, g)
      PROVE  GalleryKept'
  <2>1. PICK r : r = Added(item, p, c, g)
    OBVIOUS
  <2>2. /\ item' = r /\ staged' = staged \ Purged(item, p) /\ p # item.main
        /\ UNCHANGED <<made, stale>>
    BY <1>7, <2>1 DEF AddPage
  <2>3. /\ RowSound(r) /\ OwnFiles(r.entries)
        /\ Files(r.entries) \subseteq Files(item.entries) \ Purged(item, p)
        /\ Points(item.selected, item.entries) => Points(r.selected, r.entries)
    BY <1>1, <2>1, <2>2, AddedSound
  <2>4. QED BY <1>1, <2>2, <2>3 DEF GalleryKept
<1>8. ASSUME NEW p \in SourcePages, RemovePage(p) PROVE GalleryKept'
  <2>1. PICK r : r = Removed(item, p)
    OBVIOUS
  <2>2. item' = r /\ staged' = staged \ Purged(item, p) /\ UNCHANGED <<made, stale>>
    BY <1>8, <2>1 DEF RemovePage
  <2>3. /\ RowSound(r) /\ OwnFiles(r.entries)
        /\ Files(r.entries) \subseteq Files(item.entries) \ Purged(item, p)
        /\ Points(item.selected, item.entries) => Points(r.selected, r.entries)
    BY <1>1, <2>1, RemovedSound
  <2>4. QED BY <1>1, <2>2, <2>3 DEF GalleryKept
<1>9. ASSUME NEW c \in PageColors \cup {None}, ColorMain(c) PROVE GalleryKept'
  <2>1. PICK r : r = MainColored(item, c)
    OBVIOUS
  <2>2. item' = r /\ UNCHANGED <<staged, made, stale>>
    BY <1>9, <2>1 DEF ColorMain
  <2>3. /\ RowSound(r) /\ OwnFiles(r.entries) /\ Files(r.entries) = Files(item.entries)
        /\ Points(item.selected, item.entries) => Points(r.selected, r.entries)
    BY <1>1, <2>1, MainColoredSound
  <2>4. QED BY <1>1, <2>2, <2>3 DEF GalleryKept
<1>10. ASSUME NEW i \in DOMAIN item.entries, Normalize(i) PROVE GalleryKept'
  <2>1. PICK n : n = made + 1
    OBVIOUS
  <2>2. PICK r : r = Normalized(item, i, n)
    OBVIOUS
  <2>3. item' = r /\ staged' = staged \cup {n} /\ made' = n /\ stale' = stale
    BY <1>10, <2>1, <2>2 DEF Normalize
  <2>4. n \in Nat /\ n # 0 /\ n \notin 1..made /\ 1..made \subseteq 1..n /\ n \in 1..n
    BY <1>1, <2>1
  <2>5. n \notin Files(item.entries)
    BY <1>1, <2>4
  <2>6. /\ RowSound(r) /\ OwnFiles(r.entries)
        /\ Files(r.entries) \subseteq (Files(item.entries) \ {item.entries[i].file}) \cup ({n} \ {0})
        /\ Points(item.selected, item.entries) => Points(r.selected, r.entries)
    BY <1>1, <2>2, <2>4, <2>5, NormalizedSound
  <2>7. QED BY <1>1, <2>3, <2>4, <2>6 DEF GalleryKept
<1>11. ASSUME NEW i \in DOMAIN item.entries, Revert(i) PROVE GalleryKept'
  <2>1. PICK r : r = Normalized(item, i, 0)
    OBVIOUS
  <2>2. item' = r /\ staged' = staged \ {item.entries[i].file} /\ UNCHANGED <<made, stale>>
    BY <1>11, <2>1 DEF Revert
  <2>3. /\ RowSound(r) /\ OwnFiles(r.entries)
        /\ Files(r.entries) \subseteq (Files(item.entries) \ {item.entries[i].file}) \cup ({0} \ {0})
        /\ Points(item.selected, item.entries) => Points(r.selected, r.entries)
    BY <1>1, <2>1, NormalizedSound
  <2>4. QED BY <1>1, <2>2, <2>3 DEF GalleryKept
<1>12. ASSUME NEW S \in SUBSET DOMAIN item.entries, Select(S) PROVE GalleryKept'
  <2>1. PICK urls : urls = At([i \in DOMAIN item.entries |-> Url(item.entries[i])], S)
    OBVIOUS
  <2>2. PICK r : r = [item EXCEPT !.selected = [partial |-> TRUE, urls |-> urls]]
    OBVIOUS
  <2>3. item' = r /\ stale' = FALSE /\ UNCHANGED <<staged, made>>
    BY <1>12, <2>1, <2>2 DEF Select
  <2>4. RowSound(r) /\ r.entries = item.entries /\ Points(r.selected, r.entries)
    BY <1>1, <2>1, <2>2, SelectedSound
  <2>5. QED BY <1>1, <2>3, <2>4 DEF GalleryKept
<1>13. ASSUME SelectAll PROVE GalleryKept'
  <2>1. PICK r : r = [item EXCEPT !.selected = Everything]
    OBVIOUS
  <2>2. item' = r /\ stale' = FALSE /\ UNCHANGED <<staged, made>>
    BY <1>13, <2>1 DEF SelectAll
  <2>3. RowSound(r) /\ r.entries = item.entries /\ Points(r.selected, r.entries)
    BY <1>1, <2>1, EverythingSound
  <2>4. QED BY <1>1, <2>2, <2>3 DEF GalleryKept
<1>14. QED
  BY <1>3, <1>4, <1>5, <1>6, <1>7, <1>8, <1>9, <1>10, <1>11, <1>12, <1>13 DEF ItemNext

\* The row of an item without a page.
LEMMA KeptInit == ItemInit => GalleryKept
<1> SUFFICES ASSUME ItemInit PROVE GalleryKept
  OBVIOUS
<1>1. PICK none : none = <<>>
  OBVIOUS
<1>2. /\ none \in Seq(Source) /\ none \in Seq(Entry) /\ none \in Seq(Images \X Nat)
      /\ Range(none) = {} /\ DOMAIN none = {}
  BY <1>1 DEF Range
<1>3. item = [main |-> None, color |-> None, sources |-> none, entries |-> none,
              selected |-> [partial |-> FALSE, urls |-> none]]
  BY <1>1 DEF ItemInit, Bare, Everything
<1>4. item \in ItemRow
  BY <1>1, <1>2, <1>3 DEF ItemRow, Stored
<1>5. RowSound(item)
  BY <1>2, <1>3, <1>4 DEF RowSound, Apart, Colored, OnePageEach
<1>6. OwnFiles(item.entries) /\ Files(item.entries) = {} /\ Points(item.selected, item.entries)
  BY <1>2, <1>3 DEF OwnFiles, Files, Points, IsInjective
<1>7. made = 0 /\ staged = {} /\ stale = FALSE
  BY DEF ItemInit
<1>8. QED BY <1>5, <1>6, <1>7 DEF GalleryKept

\* GallerySound: whatever pages are added, promoted, colored and removed, whatever images
\* are normalized and reverted, whatever is selected and however often the item is run
\* again, each image is there once, under the color of its page, over a file that exists,
\* and a selection that was not left behind points at images that are there
\* (enrich/extra_sources.py, api/services/enrichment.py).
THEOREM ItemGalleryIsSound == ItemSpec => []GallerySound
<1>1. GalleryKept => GallerySound
  <2> SUFFICES ASSUME GalleryKept PROVE GallerySound
    OBVIOUS
  <2>1. /\ RowSound(item) /\ OwnFiles(item.entries) /\ Files(item.entries) \subseteq staged
        /\ (~stale => Points(item.selected, item.entries))
    BY DEF GalleryKept
  <2>2. /\ Apart(item.entries) /\ Colored(item.entries, item.color, item.sources)
        /\ OnePageEach(item.sources) /\ item.main \notin OtherPages(item)
    BY <2>1, PagesAreUrls DEF RowSound
  <2>3. \A i, j \in DOMAIN item.entries : i # j =>
          Identities(item.entries[i]) \cap Identities(item.entries[j]) = {}
    BY <2>2, SameIdentity DEF Apart
  <2>4. \A i \in DOMAIN item.entries :
          IF item.entries[i].page = None THEN item.entries[i].color = item.color
          ELSE \E k \in DOMAIN item.sources :
                 item.sources[k] = [url |-> item.entries[i].page, color |-> item.entries[i].color]
    <3>1. TAKE i \in DOMAIN item.entries
    <3>2. item.entries[i] \in Range(item.entries)
      BY DEF Range
    <3>3. QED BY <2>2, <3>2 DEF Colored, Range
  <2>5. IsInjective([k \in DOMAIN item.sources |-> item.sources[k].url])
    BY <2>2 DEF OnePageEach, IsInjective
  <2>6. EntriesSound
    BY <2>2, <2>3, <2>4, <2>5 DEF EntriesSound
  <2>7. FilesSound
    BY <2>1 DEF FilesSound, OwnFiles
  <2>8. ~stale => SelectionSound
    BY <2>1 DEF SelectionSound, Points
  <2>9. QED BY <2>6, <2>7, <2>8 DEF GallerySound
<1>2. QED BY <1>1, KeptInit, KeptStep, PTL DEF ItemSpec

-----------------------------------------------------------------------------
(* What a row is sold at, and its size *)

\* A product of naturals is a natural, and a larger factor gives no less.
LEMMA ProductsGrow ==
  \A a, b, c \in Nat : a * c \in Nat /\ (a <= b => a * c <= b * c)
OBVIOUS

\* A multiple of the step has no rest.
LEMMA MultipleHasNoRest ==
  ASSUME NEW q \in Nat, NEW step \in Nat \ {0}
  PROVE  (q * step) % step = 0
<1>1. PICK t, p, r : t = q * step /\ p = t \div step /\ r = t % step
  OBVIOUS
<1>2. t \in Nat
  BY <1>1, ProductsGrow
<1>3. p \in Nat /\ r \in Nat /\ r < step /\ t = p * step + r
  BY <1>1, <1>2
<1>4. ~(q > p)
  <2>1. SUFFICES ASSUME q > p PROVE FALSE
    OBVIOUS
  <2>2. p + 1 <= q /\ p + 1 \in Nat /\ step \in Nat
    BY <1>3, <2>1
  <2>3. (p + 1) * step <= q * step
    BY <2>2, ProductsGrow
  <2>4. (p + 1) * step = p * step + step
    BY <1>3
  <2>5. p * step \in Nat
    BY <1>3, ProductsGrow
  <2>6. QED BY <1>1, <1>3, <2>3, <2>4, <2>5
<1>5. ~(q < p)
  <2>1. SUFFICES ASSUME q < p PROVE FALSE
    OBVIOUS
  <2>2. q + 1 <= p /\ q + 1 \in Nat /\ step \in Nat
    BY <1>3, <2>1
  <2>3. (q + 1) * step <= p * step
    BY <1>3, <2>2, ProductsGrow
  <2>4. (q + 1) * step = q * step + step
    BY <1>3
  <2>5. p * step \in Nat /\ q * step \in Nat
    BY <1>3, ProductsGrow
  <2>6. QED BY <1>1, <1>3, <2>3, <2>4, <2>5
<1>6. q = p
  BY <1>3, <1>4, <1>5
<1>7. r = 0
  BY <1>1, <1>2, <1>3, <1>6
<1>8. QED BY <1>1, <1>7

\* Rounding up gives the first multiple of the step that is not below.
LEMMA RoundUpIsCeiling ==
  ASSUME NEW raw \in Nat, NEW step \in Nat \ {0}
  PROVE  \E q \in Nat : /\ RoundUp(raw, step) = q * step /\ q * step \in Nat
                        /\ raw <= q * step /\ q * step < raw + step
                        /\ (q * step) % step = 0
<1>1. PICK q, r, t : q = (raw + step - 1) \div step /\ r = (raw + step - 1) % step /\ t = q * step
  OBVIOUS
<1>2. raw + step - 1 \in Nat /\ step \in Nat /\ step > 0
  OBVIOUS
<1>3. q \in Nat /\ r \in Nat /\ r < step /\ raw + step - 1 = q * step + r
  BY <1>1, <1>2
<1>4. t \in Nat
  BY <1>1, <1>2, <1>3, ProductsGrow
<1>5. raw <= t /\ t < raw + step
  BY <1>1, <1>2, <1>3, <1>4
<1>6. t % step = 0
  BY <1>1, <1>3, MultipleHasNoRest
<1>7. RoundUp(raw, step) = t
  BY <1>1, <1>2 DEF RoundUp
<1>8. QED BY <1>1, <1>3, <1>4, <1>5, <1>6, <1>7

\* More to round, more that is rounded.
LEMMA RoundUpKeepsOrder ==
  ASSUME NEW a \in Nat, NEW b \in Nat, a <= b, NEW step \in Nat
  PROVE  RoundUp(a, step) \in Nat /\ RoundUp(a, step) <= RoundUp(b, step)
<1>1. CASE step = 0
  BY <1>1 DEF RoundUp
<1>2. CASE step # 0
  <2>1. step \in Nat \ {0}
    BY <1>2
  <2>2. PICK p \in Nat : /\ RoundUp(a, step) = p * step /\ p * step \in Nat
                         /\ a <= p * step /\ p * step < a + step
    BY <2>1, RoundUpIsCeiling
  <2>3. PICK q \in Nat : /\ RoundUp(b, step) = q * step /\ q * step \in Nat
                         /\ b <= q * step /\ q * step < b + step
    BY <2>1, RoundUpIsCeiling
  <2>4. ~(q < p)
    <3>1. SUFFICES ASSUME q < p PROVE FALSE
      OBVIOUS
    <3>2. q + 1 <= p /\ q + 1 \in Nat
      BY <3>1
    <3>3. (q + 1) * step <= p * step
      BY <3>2, ProductsGrow
    <3>4. (q + 1) * step = q * step + step
      BY <2>3
    <3>5. QED BY <2>2, <2>3, <3>3, <3>4
  <2>5. p <= q
    BY <2>4
  <2>6. p * step <= q * step
    BY <2>5, ProductsGrow
  <2>7. QED BY <2>2, <2>3, <2>6
<1>3. QED BY <1>1, <1>2

LEMMA PriceHolds ==
  ASSUME NEW w \in Nat, NEW more \in Nat, NEW config,
         config.coefficient \in Nat, config.step \in Nat
  PROVE  PriceIsCeiling(w, more, config)
<1>1. PICK k, step : k = config.coefficient /\ step = config.step * 100
  OBVIOUS
<1>2. k \in Nat /\ step \in Nat
  BY <1>1
<1>3. PICK a, b : a = w * k /\ b = (w + more) * k
  OBVIOUS
<1>4. a \in Nat /\ b \in Nat /\ a <= b
  <2>1. w + more \in Nat /\ w <= w + more
    OBVIOUS
  <2>2. QED BY <1>2, <1>3, <2>1, ProductsGrow
<1> DEFINE price(x) == ComputePrice([wholesale |-> x, retail |-> Unpriced], config)
<1>5. SUFFICES ASSUME config.price_mode = "coefficient", k > 0
               PROVE  /\ price(w) >= a
                      /\ step > 0 => price(w) % step = 0 /\ price(w) < a + step
                      /\ step = 0 => price(w) = a
                      /\ price(w) <= price(w + more)
  BY <1>1, <1>3 DEF PriceIsCeiling
<1>6. price(w) = RoundUp(a, step) /\ price(w + more) = RoundUp(b, step)
  BY <1>1, <1>2, <1>3, <1>5 DEF ComputePrice, Unpriced
<1> HIDE DEF price
<1>7. RoundUp(a, step) <= RoundUp(b, step)
  BY <1>2, <1>4, RoundUpKeepsOrder
<1>8. CASE step = 0
  BY <1>4, <1>6, <1>7, <1>8 DEF RoundUp
<1>9. CASE step # 0
  <2>1. step \in Nat \ {0}
    BY <1>2, <1>9
  <2>2. PICK q \in Nat : /\ RoundUp(a, step) = q * step /\ q * step \in Nat
                         /\ a <= q * step /\ q * step < a + step /\ (q * step) % step = 0
    BY <1>4, <2>1, RoundUpIsCeiling
  <2>3. QED BY <1>4, <1>6, <1>7, <1>9, <2>1, <2>2
<1>10. QED BY <1>8, <1>9

LEMMA SizeHolds ==
  ASSUME NEW a \in [number : BOOLEAN, halves : Nat], NEW b \in [number : BOOLEAN, halves : Nat],
         NEW mode, NEW gender
  PROVE  ConversionIsOnce(a, b, mode, gender)
<1>1. PICK d : d = Offset(mode, gender)
  OBVIOUS
<1>2. d \in {62, 66, 68}
  BY <1>1 DEF Offset
<1> DEFINE c(x) == ConvertShoeSize(x, mode, gender)
<1>3. \A x \in [number : BOOLEAN, halves : Nat] :
        c(x) = IF mode = Blank \/ ~x.number \/ x.halves \notin 2..32 THEN x
               ELSE [number |-> TRUE, halves |-> x.halves + d]
  BY <1>1 DEF ConvertShoeSize
<1>4. c(a) \in [number : BOOLEAN, halves : Nat]
  <2>1. PICK h : h = a.halves + d
    OBVIOUS
  <2>2. h \in Nat
    BY <1>2, <2>1
  <2>3. c(a) = a \/ c(a) = [number |-> TRUE, halves |-> h]
    BY <1>3, <2>1
  <2>4. [number |-> TRUE, halves |-> h] \in [number : BOOLEAN, halves : Nat]
    BY <2>2
  <2>5. PICK e : e = c(a)
    OBVIOUS
  <2>6. e \in [number : BOOLEAN, halves : Nat]
    BY <2>3, <2>4, <2>5, Zenon
  <2>7. QED BY <2>5, <2>6
<1>5. c(c(a)) = c(a)
  BY <1>2, <1>3, <1>4
<1>6. ASSUME a # b, a.halves \in 2..32, b.halves \in 2..32 PROVE c(a) # c(b)
  <2>1. a = [number |-> a.number, halves |-> a.halves] /\ b = [number |-> b.number, halves |-> b.halves]
    OBVIOUS
  <2>2. a.number # b.number \/ a.halves # b.halves
    BY <1>6, <2>1
  <2>3. CASE mode = Blank
    BY <1>3, <1>6, <2>3
  <2>4. CASE mode # Blank /\ a.number /\ b.number
    <3>1. a.halves # b.halves
      BY <2>2, <2>4
    <3>2. c(a).halves = a.halves + d /\ c(b).halves = b.halves + d
      BY <1>3, <1>6, <2>4
    <3>3. a.halves \in Nat /\ b.halves \in Nat /\ d \in Nat
      BY <1>2
    <3> HIDE DEF c
    <3>4. QED BY <3>1, <3>2, <3>3
  <2>5. CASE mode # Blank /\ a.number /\ ~b.number
    BY <1>3, <1>6, <2>5
  <2>6. CASE mode # Blank /\ ~a.number /\ b.number
    BY <1>3, <1>6, <2>6
  <2>7. CASE mode # Blank /\ ~a.number /\ ~b.number
    BY <1>3, <1>6, <2>7
  <2>8. QED BY <2>3, <2>4, <2>5, <2>6, <2>7
<1>7. QED BY <1>5, <1>6 DEF ConversionIsOnce

-----------------------------------------------------------------------------
(* A list out of another one, and lists one after the other *)

\* t is what s has at the places S, in the order of s.
InPlaces(t, s, S) ==
  \E f \in [DOMAIN t -> S] :
    /\ \A k \in DOMAIN t : t[k] = s[f[k]]
    /\ \A k, l \in DOMAIN t : k < l => f[k] < f[l]
    /\ \A i \in S : \E k \in DOMAIN t : f[k] = i

LEMMA AtInPlaces ==
  ASSUME NEW T, NEW s \in Seq(T), NEW S \in SUBSET DOMAIN s
  PROVE  At(s, S) \in Seq(T) /\ InPlaces(At(s, S), s, S)
<1> DEFINE R == {p \in S \X S : p[1] < p[2]}
           f == Upward(S)
           N == 1..Cardinality(S)
<1>1. Len(s) \in Nat /\ DOMAIN s = 1..Len(s) /\ \A i \in DOMAIN s : s[i] \in T
  BY LenProperties, ElementOfSeq
<1>2. IsFiniteSet(S) /\ Sorted(f, S, R) /\ Ranks(R, S)
  BY <1>1, UpwardPlaces
<1>3. \A i, j \in S : <<i, j>> \in R <=> i < j
  OBVIOUS
<1> HIDE DEF R, f
<1>4. \A i \in S : \E n \in N : f[n] = i
  BY <1>2, SortedOnce
<1>5. f \in [N -> S] /\ \A m, n \in N : m < n => f[m] < f[n]
  BY <1>2, <1>3 DEF Sorted
<1>6. DOMAIN At(s, S) = N /\ \A n \in N : At(s, S)[n] = s[f[n]]
  BY DEF At, f
<1>7. InPlaces(At(s, S), s, S)
  <2>1. PICK t : t = At(s, S)
    OBVIOUS
  <2>2. f \in [DOMAIN t -> S] /\ DOMAIN t = N /\ \A n \in N : t[n] = s[f[n]]
    BY <1>5, <1>6, <2>1
  <2>3. Cardinality(S) \in Nat /\ N \subseteq Int /\ S \subseteq Int
    BY <1>1, <1>2, FS_CardinalityType
  <2> HIDE DEF N
  <2>4. /\ \A k \in DOMAIN t : t[k] = s[f[k]]
        /\ \A k, l \in DOMAIN t : k < l => f[k] < f[l]
        /\ \A i \in S : \E k \in DOMAIN t : f[k] = i
    BY <1>4, <1>5, <2>2, <2>3
  <2>5. InPlaces(t, s, S)
    BY <2>2, <2>4 DEF InPlaces
  <2>6. QED BY <2>1, <2>5
<1>8. At(s, S) \in Seq(T)
  BY AtTakes
<1>9. QED BY <1>7, <1>8

\* t is the lists of ss, one after the other.
LaidOut(t, ss) ==
  \E f \in [DOMAIN t -> Places(ss)] :
    /\ \A k \in DOMAIN t : t[k] = ss[f[k][1]][f[k][2]]
    /\ \A k, l \in DOMAIN t : k < l => Earlier(f[k], f[l])
    /\ \A p \in Places(ss) : \E k \in DOMAIN t : f[k] = p

\* A list of lists.
ListsOf(ss, n, T) == DOMAIN ss = 1..n /\ \A i \in 1..n : ss[i] \in Seq(T)

\* The places of finitely many lists are finitely many, and have an order.
LEMMA PlacesInOrder ==
  ASSUME NEW T, NEW n \in Nat, NEW ss, ListsOf(ss, n, T)
  PROVE  /\ IsFiniteSet(Places(ss))
         /\ \A p \in Places(ss) : p[1] \in 1..n /\ p[2] \in Nat /\ p[2] \in DOMAIN ss[p[1]] /\ p = <<p[1], p[2]>>
         /\ Ranks({p \in Places(ss) \X Places(ss) : Earlier(p[1], p[2])}, Places(ss))
<1>1. \A i \in 1..n : Len(ss[i]) \in Nat /\ DOMAIN ss[i] = 1..Len(ss[i])
  BY LenProperties DEF ListsOf
<1>2. \A p \in Places(ss) : p[1] \in 1..n /\ p[2] \in Nat /\ p[2] \in DOMAIN ss[p[1]] /\ p = <<p[1], p[2]>>
  BY <1>1 DEF Places, ListsOf
<1> DEFINE Of(i) == {i} \X DOMAIN ss[i]
           All == {Of(i) : i \in 1..n}
<1>3. ASSUME NEW i \in 1..n PROVE IsFiniteSet(Of(i))
  <2>1. 1 \in Int /\ Len(ss[i]) \in Int /\ DOMAIN ss[i] = 1..Len(ss[i])
    BY <1>1
  <2>2. IsFiniteSet(DOMAIN ss[i])
    BY <2>1, FS_Interval
  <2>3. QED BY <2>2, FS_Singleton, FS_Product
<1>4. IsFiniteSet(1..n)
  <2>1. 1 \in Int /\ n \in Int
    OBVIOUS
  <2>2. QED BY <2>1, FS_Interval
<1> HIDE DEF Of
<1>5. IsFiniteSet(All)
  <2>1. [i \in 1..n |-> Of(i)] \in Surjection(1..n, All)
    BY DEF Surjection
  <2>2. QED BY <1>4, <2>1, FS_Surjection
<1>6. IsFiniteSet(UNION All)
  BY <1>3, <1>5, FS_UNION
<1>7. Places(ss) = UNION All
  BY DEF Places, Of, ListsOf
<1> DEFINE R == {p \in Places(ss) \X Places(ss) : Earlier(p[1], p[2])}
<1>8. \A p, q \in Places(ss) : <<p, q>> \in R <=> Earlier(p, q)
  OBVIOUS
<1>9. \A p \in Places(ss) : p[1] \in Int /\ p[2] \in Int
  BY <1>2
<1>10. \A p, q \in Places(ss) : p # q => p[1] # q[1] \/ p[2] # q[2]
  BY <1>2
<1> HIDE DEF R, All
<1>11. Ranks(R, Places(ss))
  BY <1>8, <1>9, <1>10 DEF Ranks, Earlier
<1>12. QED BY <1>2, <1>6, <1>7, <1>11 DEF R

LEMMA LaidIsLaidOut ==
  ASSUME NEW T, NEW n \in Nat, NEW ss, ListsOf(ss, n, T)
  PROVE  Laid(ss) \in Seq(T) /\ LaidOut(Laid(ss), ss)
<1> DEFINE R == {p \in Places(ss) \X Places(ss) : Earlier(p[1], p[2])}
           f == Onward(ss)
           N == 1..Cardinality(Places(ss))
<1>1. IsFiniteSet(Places(ss)) /\ Ranks(R, Places(ss))
  BY PlacesInOrder
<1>2. \A p \in Places(ss) : p[1] \in 1..n /\ p[2] \in DOMAIN ss[p[1]]
  BY PlacesInOrder
<1>3. \A p, q \in Places(ss) : <<p, q>> \in R <=> Earlier(p, q)
  OBVIOUS
<1>4. f = InOrder(Places(ss), R)
  BY DEF Onward
<1> HIDE DEF R, f
<1>5. Sorted(f, Places(ss), R)
  BY <1>1, <1>4, InOrderSorts
<1>6. Cardinality(Places(ss)) \in Nat /\ \A p \in Places(ss) : \E k \in N : f[k] = p
  BY <1>1, <1>5, SortedOnce
<1>7. f \in [N -> Places(ss)] /\ \A k, l \in N : k < l => Earlier(f[k], f[l])
  BY <1>3, <1>5 DEF Sorted
<1>8. Laid(ss) = [k \in N |-> ss[f[k][1]][f[k][2]]]
  BY <1>7 DEF Laid, f
<1>9. \A p \in Places(ss) : ss[p[1]][p[2]] \in T
  BY <1>2, LenProperties DEF ListsOf
<1>10. Laid(ss) \in [N -> T]
  BY <1>7, <1>8, <1>9
<1>11. Laid(ss) \in Seq(T)
  BY <1>6, <1>10, IsASeq
<1>12. DOMAIN Laid(ss) = N /\ \A k \in N : Laid(ss)[k] = ss[f[k][1]][f[k][2]]
  BY <1>8
<1>13. LaidOut(Laid(ss), ss)
  BY SMTT(20), <1>6, <1>7, <1>12 DEF LaidOut
<1>14. QED BY <1>11, <1>13

\* One list alone.
LEMMA LaidOne ==
  ASSUME NEW T, NEW s \in Seq(T)
  PROVE  Laid(<<s>>) = s
<1> DEFINE ss == <<s>>
           R == {p \in Places(ss) \X Places(ss) : Earlier(p[1], p[2])}
           g == [k \in 1..Len(s) |-> <<1, k>>]
<1>1. ListsOf(ss, 1, T) /\ 1 \in Nat
  BY DEF ListsOf
<1>2. IsFiniteSet(Places(ss)) /\ Ranks(R, Places(ss))
  BY <1>1, PlacesInOrder
<1>3. Len(s) \in Nat /\ DOMAIN s = 1..Len(s)
  BY LenProperties
<1>4. DOMAIN ss = {1} /\ ss[1] = s
  OBVIOUS
<1>5. Places(ss) = {1} \X (1..Len(s))
  BY <1>3, <1>4 DEF Places
<1>6. \A p, q \in Places(ss) : <<p, q>> \in R <=> Earlier(p, q)
  OBVIOUS
<1> HIDE DEF R
<1>7. Cardinality(Places(ss)) = Len(s)
  <2>1. 1 \in Int /\ Len(s) \in Int /\ Len(s) >= 0
    BY <1>3
  <2>2. IsFiniteSet(1..Len(s)) /\ Cardinality(1..Len(s)) = Len(s)
    BY <2>1, FS_Interval
  <2>3. IsFiniteSet({1}) /\ Cardinality({1}) = 1
    BY FS_Singleton
  <2>4. Cardinality(Places(ss)) = 1 * Len(s)
    BY <1>5, <2>2, <2>3, FS_Product
  <2>5. \A k \in Nat : 1 * k = k
    OBVIOUS
  <2>6. QED BY <1>3, <2>4, <2>5
<1>8. Sorted(g, Places(ss), R)
  <2>1. g \in [1..Len(s) -> Places(ss)]
    BY <1>5
  <2>2. ASSUME NEW k \in 1..Len(s), NEW l \in 1..Len(s), k < l PROVE <<g[k], g[l]>> \in R
    BY <1>6, <2>1, <2>2 DEF Earlier
  <2>3. QED BY <1>7, <2>1, <2>2 DEF Sorted
<1> HIDE DEF g
<1>9. InOrder(Places(ss), R) = g
  BY <1>2, <1>8, InOrderIs
<1>10. Onward(ss) = g
  BY <1>9 DEF Onward, R
<1>11. Laid(ss) = [k \in 1..Len(s) |-> s[k]]
  BY <1>4, <1>10 DEF Laid, g
<1>12. s = [k \in 1..Len(s) |-> s[k]]
  BY LenProperties
<1>13. QED BY <1>11, <1>12

-----------------------------------------------------------------------------
(* The title *)

\* A tidy title: no separator at its ends nor two in a row.
NeatTitle(t) ==
  LET n == Len(t) IN
  /\ n > 1 => t[1] # Sep /\ t[n] # Sep
  /\ \A i \in 1..(n - 1) : t[i] # Sep \/ t[i + 1] # Sep

\* The places Tidy keeps.
Neat(words) ==
  {i \in Separated(words) : words[i] = Sep => \E j \in DOMAIN words : j > i /\ words[j] # Sep}

LEMMA TidyIsNeat ==
  ASSUME NEW T, NEW words \in Seq(T)
  PROVE  NeatTitle(Tidy(words))
<1>1. CASE Range(words) = {Sep}
  <2>1. Tidy(words) = <<Sep>>
    BY <1>1 DEF Tidy
  <2>2. QED BY <2>1 DEF NeatTitle
<1>2. CASE Range(words) # {Sep}
  <2>1. PICK S : S = Neat(words)
    OBVIOUS
  <2>2. PICK t : t = At(words, S)
    OBVIOUS
  <2>3. Tidy(words) = t
    BY <1>2, <2>1, <2>2 DEF Tidy, Neat
  <2>4. Len(words) \in Nat /\ DOMAIN words = 1..Len(words)
    BY LenProperties
  <2>5. /\ S \in SUBSET DOMAIN words
        /\ \A i \in DOMAIN words : i \in S <=>
             (words[i] = Sep => /\ i > 1 /\ words[i - 1] # Sep
                                /\ \E j \in DOMAIN words : j > i /\ words[j] # Sep)
    BY <2>1 DEF Neat, Separated
  <2>6. t \in Seq(T) /\ InPlaces(t, words, S)
    BY <2>2, <2>5, AtInPlaces
  <2>7. PICK f \in [DOMAIN t -> S] :
          /\ \A k \in DOMAIN t : t[k] = words[f[k]]
          /\ \A k, l \in DOMAIN t : k < l => f[k] < f[l]
          /\ \A i \in S : \E k \in DOMAIN t : f[k] = i
    BY <2>6 DEF InPlaces
  <2>8. Len(t) \in Nat /\ DOMAIN t = 1..Len(t)
    BY <2>6, LenProperties
  <2>9. \A k \in DOMAIN t : f[k] \in S /\ f[k] \in 1..Len(words)
    BY <2>4, <2>5
  \* Between two places that follow one another nothing was kept.
  <2>10. ASSUME NEW k \in DOMAIN t, NEW i \in S, i < f[k], k > 1 => f[k - 1] < i PROVE FALSE
    <3>1. PICK l \in DOMAIN t : f[l] = i
      BY <2>7
    <3>2. ~(k < l) /\ k # l
      BY <2>4, <2>5, <2>7, <2>9, <2>10, <3>1
    <3>3. l < k
      BY <2>8, <3>2
    <3>4. k > 1 /\ k - 1 \in DOMAIN t /\ (l < k - 1 \/ l = k - 1)
      BY <2>8, <3>3
    <3>5. f[l] < f[k - 1] \/ f[l] = f[k - 1]
      BY <2>7, <3>4
    <3>6. f[k - 1] \in Int /\ i \in Int /\ f[k - 1] < i
      BY <2>4, <2>5, <2>9, <2>10, <3>4
    <3>7. QED BY <3>1, <3>5, <3>6
  <2>11. ASSUME NEW k \in DOMAIN t, t[k] = Sep
         PROVE  k > 1 /\ t[k - 1] # Sep
    <3>1. PICK i : i = f[k]
      OBVIOUS
    <3>2. i \in S /\ i \in 1..Len(words) /\ words[i] = Sep
      BY <2>7, <2>9, <2>11, <3>1
    <3>3. i > 1 /\ words[i - 1] # Sep
      BY <2>4, <2>5, <3>2
    <3>4. i - 1 \in S /\ i - 1 < i /\ i - 1 \in Int
      BY <2>4, <2>5, <3>2, <3>3
    <3>5. k > 1 /\ ~(f[k - 1] < i - 1)
      BY <2>10, <3>1, <3>4
    <3>6. k - 1 \in DOMAIN t /\ k - 1 < k
      BY <2>8, <3>5
    <3>7. f[k - 1] < i /\ f[k - 1] \in Int
      BY <2>7, <2>9, <3>1, <3>6
    <3>8. f[k - 1] = i - 1
      BY <3>2, <3>5, <3>7
    <3>9. QED BY <2>7, <3>3, <3>5, <3>6, <3>8
  <2>12. ASSUME Len(t) > 1 PROVE t[Len(t)] # Sep
    <3>1. SUFFICES ASSUME t[Len(t)] = Sep PROVE FALSE
      OBVIOUS
    <3>2. PICK n : n = Len(t)
      OBVIOUS
    <3>3. n \in DOMAIN t /\ t[n] = Sep
      BY <2>8, <2>12, <3>1, <3>2
    <3>4. f[n] \in S /\ f[n] \in 1..Len(words) /\ words[f[n]] = Sep
      BY <2>7, <2>9, <3>3
    <3>5. PICK j \in DOMAIN words : j > f[n] /\ words[j] # Sep
      BY <2>4, <2>5, <3>4
    <3>6. j \in S
      BY <2>5, <3>5
    <3>7. PICK l \in DOMAIN t : f[l] = j
      BY <2>7, <3>6
    <3>8. l <= n /\ l \in Nat /\ n \in Nat
      BY <2>8, <3>2
    <3>9. l < n \/ l = n
      BY <3>8
    <3>10. f[l] < f[n] \/ f[l] = f[n]
      BY <2>7, <3>3, <3>9
    <3>11. j \in Int /\ f[n] \in Int
      BY <2>4, <3>4, <3>5
    <3>12. QED BY <3>5, <3>7, <3>10, <3>11
  <2>13. ASSUME Len(t) > 1 PROVE t[1] # Sep
    <3>1. 1 \in DOMAIN t
      BY <2>8, <2>13
    <3>2. QED BY <2>11, <3>1
  <2>14. ASSUME NEW i \in 1..(Len(t) - 1) PROVE t[i] # Sep \/ t[i + 1] # Sep
    <3>1. i + 1 \in DOMAIN t /\ (i + 1) - 1 = i
      BY <2>8
    <3>2. QED BY <2>11, <3>1
  <2>15. NeatTitle(t)
    BY <2>12, <2>13, <2>14 DEF NeatTitle
  <2>16. QED BY <2>3, <2>15
<1>3. QED BY <1>1, <1>2

\* How often a list says b.
Saying(s, b) == {i \in DOMAIN s : s[i] = b}

\* A tidy title says a word as often as the words it is made of, or less.
LEMMA TidySaysNoMore ==
  ASSUME NEW T, NEW words \in Seq(T), NEW b, b # Sep
  PROVE  /\ Cardinality(Saying(Tidy(words), b)) \in Nat
         /\ Cardinality(Saying(Tidy(words), b)) <= Cardinality(Saying(words, b))
<1>1. Len(words) \in Nat /\ DOMAIN words = 1..Len(words)
  BY LenProperties
<1>2. IsFiniteSet(DOMAIN words)
  <2>1. 1 \in Int /\ Len(words) \in Int
    BY <1>1
  <2>2. QED BY <1>1, <2>1, FS_Interval
<1>3. Saying(words, b) \in SUBSET DOMAIN words
  BY DEF Saying
<1>4. IsFiniteSet(Saying(words, b)) /\ Cardinality(Saying(words, b)) \in Nat
  BY <1>2, <1>3, FS_Subset, FS_CardinalityType
<1>5. CASE Range(words) = {Sep}
  <2>1. Tidy(words) = <<Sep>>
    BY <1>5 DEF Tidy
  <2>2. Saying(Tidy(words), b) = {}
    BY <2>1 DEF Saying
  <2>3. Cardinality(Saying(Tidy(words), b)) = 0
    BY <2>2, FS_EmptySet
  <2>4. QED BY <1>4, <2>3
<1>6. CASE Range(words) # {Sep}
  <2>1. PICK S, t : S = Neat(words) /\ t = At(words, S)
    OBVIOUS
  <2>2. Tidy(words) = t
    BY <1>6, <2>1 DEF Tidy, Neat
  <2>3. S \in SUBSET DOMAIN words
    BY <2>1 DEF Neat, Separated
  <2>4. InPlaces(t, words, S) /\ t \in Seq(T)
    BY <2>1, <2>3, AtInPlaces
  <2>5. PICK f \in [DOMAIN t -> S] :
          /\ \A k \in DOMAIN t : t[k] = words[f[k]]
          /\ \A k, l \in DOMAIN t : k < l => f[k] < f[l]
    BY <2>4 DEF InPlaces
  <2>6. DOMAIN t \subseteq Int /\ S \subseteq Int
    BY <1>1, <2>3, <2>4, LenProperties
  <2>7. ASSUME NEW k \in DOMAIN t, NEW l \in DOMAIN t, f[k] = f[l] PROVE k = l
    <3>1. ~(k < l) /\ ~(l < k)
      <4>1. f[k] \in Int /\ f[l] \in Int
        BY <2>6
      <4>2. QED BY <2>5, <2>7, <4>1
    <3>2. QED BY <2>6, <3>1
  <2> DEFINE g == [k \in Saying(t, b) |-> f[k]]
  <2>8. g \in [Saying(t, b) -> Saying(words, b)]
    BY <2>3, <2>5 DEF Saying
  <2>9. \A k, l \in Saying(t, b) : g[k] = g[l] => k = l
    BY <2>7 DEF Saying
  <2>10. g \in Injection(Saying(t, b), Saying(words, b))
    BY <2>8, <2>9 DEF Injection, IsInjective
  <2>11. IsFiniteSet(Saying(t, b)) /\ Cardinality(Saying(t, b)) <= Cardinality(Saying(words, b))
    BY <1>4, <2>10, FS_Injection
  <2>12. QED BY <2>2, <2>11, FS_CardinalityType
<1>7. QED BY <1>5, <1>6

\* The words a title is put together of: the pieces of the template, v in their place.
Pieces(v, template) ==
  [i \in DOMAIN template |-> IF template[i] = Sep THEN <<Sep>> ELSE v[template[i]]]

LEMMA FieldsOf ==
  ASSUME NEW v \in [title : Seq(Vocabulary), brand : Seq(Vocabulary), season : Seq(Vocabulary)]
  PROVE  /\ v["title"] = v.title /\ v["brand"] = v.brand /\ v["season"] = v.season
         /\ v.title \in Seq(Vocabulary) /\ v.brand \in Seq(Vocabulary) /\ v.season \in Seq(Vocabulary)
OBVIOUS

\* A brand of one word is dropped when the title has the word, and only then.
LEMMA DropBrandOfOne ==
  ASSUME NEW values \in [title : Seq(Vocabulary), brand : Seq(Vocabulary), season : Seq(Vocabulary)],
         Len(values.brand) = 1
  PROVE  /\ DropBrand(values) \in [title : Seq(Vocabulary), brand : Seq(Vocabulary), season : Seq(Vocabulary)]
         /\ DropBrand(values).title = values.title /\ DropBrand(values).season = values.season
         /\ IF values.brand[1] \in Range(values.title)
            THEN DropBrand(values).brand = <<>> ELSE DropBrand(values).brand = values.brand
<1>1. PICK title, brand, season : title = values.title /\ brand = values.brand /\ season = values.season
  OBVIOUS
<1>2. title \in Seq(Vocabulary) /\ brand \in Seq(Vocabulary) /\ season \in Seq(Vocabulary)
  BY <1>1
<1>3. values = [title |-> title, brand |-> brand, season |-> season]
  BY <1>1
<1>4. PICK e : e = [title |-> title, brand |-> <<>>, season |-> season]
  OBVIOUS
<1>5. [values EXCEPT !.brand = <<>>] = e
  BY <1>3, <1>4
<1>6. e \in [title : Seq(Vocabulary), brand : Seq(Vocabulary), season : Seq(Vocabulary)]
  BY <1>2, <1>4
<1>7. Len(title) \in Nat /\ DOMAIN title = 1..Len(title) /\ Len(brand) = 1 /\ DOMAIN brand = 1..1
  BY <1>1, <1>2, LenProperties
<1>8. PICK b : b = brand[1]
  OBVIOUS
<1>9. brand = <<b>> /\ brand # <<>>
  <2>1. brand = [k \in 1..Len(brand) |-> brand[k]]
    BY <1>2, LenProperties
  <2>2. brand = [k \in 1..1 |-> b]
    BY <1>7, <1>8, <2>1
  <2>3. brand = <<b>>
    BY <2>2
  <2>4. QED BY <2>3
<1>10. ASSUME NEW i \in 1..Len(title) PROVE SubSeq(title, i, i) = brand <=> title[i] = b
  <2>1. i \in Nat /\ i >= 1 /\ i <= Len(title) /\ i - i + 1 = 1
    BY <1>7
  <2>2. SubSeq(title, i, i) = [k \in 1..1 |-> title[k + i - 1]]
    BY <1>2, <2>1
  <2>3. 1 + i - 1 = i
    BY <2>1
  <2>4. SubSeq(title, i, i) = [k \in 1..1 |-> title[i]]
    BY <2>2, <2>3
  <2>5. SubSeq(title, i, i) = <<title[i]>>
    BY <2>4
  <2>6. QED BY <1>9, <2>5
<1>11. Len(title) - Len(brand) + 1 = Len(title) /\ \A i \in Nat : i + Len(brand) - 1 = i
  BY <1>7
<1>12. (\E i \in 1..(Len(title) - Len(brand) + 1) : SubSeq(title, i, i + Len(brand) - 1) = brand)
         <=> b \in Range(title)
  <2>1. (\E i \in 1..(Len(title) - Len(brand) + 1) : SubSeq(title, i, i + Len(brand) - 1) = brand)
          <=> \E i \in 1..Len(title) : SubSeq(title, i, i) = brand
    BY <1>7, <1>11
  <2>2. @ <=> \E i \in 1..Len(title) : title[i] = b
    BY <1>10
  <2>3. @ <=> b \in Range(title)
    BY <1>7 DEF Range
  <2>4. QED BY <2>1, <2>2, <2>3
<1>13. b \in Range(title) => title # <<>>
  BY <1>7 DEF Range
<1>14. DropBrand(values) = IF b \in Range(title) THEN e ELSE values
  BY <1>1, <1>5, <1>9, <1>12, <1>13 DEF DropBrand
<1>15. e.title = title /\ e.season = season /\ e.brand = <<>>
  BY <1>4
<1>16. QED BY <1>1, <1>6, <1>8, <1>14, <1>15

LEMMA PiecesAreLists ==
  ASSUME NEW v \in [title : Seq(Vocabulary), brand : Seq(Vocabulary), season : Seq(Vocabulary)],
         NEW template \in Seq({"title", "brand", "season", Sep})
  PROVE  /\ Len(template) \in Nat /\ DOMAIN template = 1..Len(template)
         /\ \A i \in DOMAIN template : template[i] \in {"title", "brand", "season", Sep}
         /\ ListsOf(Pieces(v, template), Len(template), Vocabulary \cup {Sep})
<1>1. /\ Len(template) \in Nat /\ DOMAIN template = 1..Len(template)
      /\ \A i \in DOMAIN template : template[i] \in {"title", "brand", "season", Sep}
  BY LenProperties, ElementOfSeq
<1>2. \A s \in Seq(Vocabulary) : s \in Seq(Vocabulary \cup {Sep})
  OBVIOUS
<1>3. <<Sep>> \in Seq(Vocabulary \cup {Sep})
  OBVIOUS
<1>4. /\ v["title"] \in Seq(Vocabulary \cup {Sep}) /\ v["brand"] \in Seq(Vocabulary \cup {Sep})
      /\ v["season"] \in Seq(Vocabulary \cup {Sep})
  BY <1>2, FieldsOf
<1>5. ASSUME NEW i \in 1..Len(template) PROVE Pieces(v, template)[i] \in Seq(Vocabulary \cup {Sep})
  <2>1. Pieces(v, template)[i] = IF template[i] = Sep THEN <<Sep>> ELSE v[template[i]]
    BY <1>1 DEF Pieces
  <2>2. CASE template[i] = Sep
    BY <1>3, <2>1, <2>2
  <2>3. CASE template[i] # Sep
    <3>1. template[i] \in {"title", "brand", "season"}
      BY <1>1, <2>3
    <3>2. v[template[i]] \in Seq(Vocabulary \cup {Sep})
      BY <1>4, <3>1, Zenon
    <3>3. QED BY <2>1, <2>3, <3>2
  <2>4. QED BY <2>2, <2>3
<1>6. DOMAIN Pieces(v, template) = 1..Len(template)
  BY <1>1 DEF Pieces
<1>7. QED BY <1>1, <1>5, <1>6 DEF ListsOf

LEMMA SayingFinite ==
  ASSUME NEW T, NEW s \in Seq(T), NEW b
  PROVE  IsFiniteSet(Saying(s, b)) /\ Cardinality(Saying(s, b)) \in Nat
<1>1. Len(s) \in Nat /\ DOMAIN s = 1..Len(s)
  BY LenProperties
<1>2. 1 \in Int /\ Len(s) \in Int
  BY <1>1
<1>3. IsFiniteSet(DOMAIN s)
  BY <1>1, <1>2, FS_Interval
<1>4. Saying(s, b) \in SUBSET DOMAIN s
  BY DEF Saying
<1>5. QED BY <1>3, <1>4, FS_Subset, FS_CardinalityType

\* A place of the words that says the brand is one of the title, or of the brand.
LEMMA TitleHolds ==
  ASSUME NEW values \in [title : Seq(Vocabulary), brand : Seq(Vocabulary), season : Seq(Vocabulary)],
         NEW template \in Seq({"title", "brand", "season", Sep})
  PROVE  TitleIsTidy(values, template)
<1>1. PICK v : v = DropBrand(values)
  OBVIOUS
<1>2. v \in [title : Seq(Vocabulary), brand : Seq(Vocabulary), season : Seq(Vocabulary)]
  <2>1. PICK e : e = [title |-> values.title, brand |-> <<>>, season |-> values.season]
    OBVIOUS
  <2>2. e \in [title : Seq(Vocabulary), brand : Seq(Vocabulary), season : Seq(Vocabulary)]
    BY <2>1, FieldsOf
  <2>3. [values EXCEPT !.brand = <<>>] = e
    <3>1. PICK title, brand, season : title = values.title /\ brand = values.brand /\ season = values.season
      OBVIOUS
    <3>2. values = [title |-> title, brand |-> brand, season |-> season]
      BY <3>1
    <3>3. QED BY <2>1, <3>1, <3>2
  <2>4. v = e \/ v = values
    BY <1>1, <2>3 DEF DropBrand
  <2>5. QED BY <2>2, <2>4
<1>3. PICK ss, words, t : ss = Pieces(v, template) /\ words = Laid(ss) /\ t = Tidy(words)
  OBVIOUS
<1>4. RenderTitle(values, template) = t
  BY <1>1, <1>3 DEF RenderTitle, Pieces
<1>5. /\ Len(template) \in Nat /\ DOMAIN template = 1..Len(template)
      /\ \A i \in DOMAIN template : template[i] \in {"title", "brand", "season", Sep}
      /\ ListsOf(ss, Len(template), Vocabulary \cup {Sep})
  BY <1>2, <1>3, PiecesAreLists
<1>6. words \in Seq(Vocabulary \cup {Sep}) /\ LaidOut(words, ss)
  BY <1>3, <1>5, LaidIsLaidOut
<1>7. NeatTitle(t)
  BY <1>3, <1>6, TidyIsNeat
<1>8. ASSUME values.title # <<>>, Len(values.brand) = 1,
             values.brand[1] \notin {Sep} \cup Range(values.season),
             Cardinality({i \in DOMAIN template : template[i] = "title"}) = 1
      PROVE  \/ Cardinality(Saying(t, values.brand[1])) <= Cardinality(Saying(values.title, values.brand[1]))
             \/ Cardinality(Saying(t, values.brand[1])) <= Cardinality(Saying(template, "brand"))
  <2>1. PICK b : b = values.brand[1]
    OBVIOUS
  <2>2. b # Sep /\ b \notin Range(values.season)
    BY <1>8, <2>1
  <2>3. /\ Cardinality(Saying(t, b)) <= Cardinality(Saying(words, b))
        /\ Cardinality(Saying(t, b)) \in Nat /\ Cardinality(Saying(words, b)) \in Nat
    BY <1>3, <1>6, <2>2, TidySaysNoMore, SayingFinite
  <2>4. /\ v.title = values.title /\ v.season = values.season
        /\ IF b \in Range(values.title) THEN v.brand = <<>> ELSE v.brand = values.brand
    BY <1>1, <1>8, <2>1, DropBrandOfOne
  <2>5. PICK f \in [DOMAIN words -> Places(ss)] :
          /\ \A k \in DOMAIN words : words[k] = ss[f[k][1]][f[k][2]]
          /\ \A k, l \in DOMAIN words : k < l => Earlier(f[k], f[l])
    BY <1>6 DEF LaidOut
  <2>6. \A p \in Places(ss) : /\ p[1] \in 1..Len(template) /\ p[2] \in Nat
                              /\ p[2] \in DOMAIN ss[p[1]] /\ p = <<p[1], p[2]>>
    BY <1>5, PlacesInOrder
  <2>7. ASSUME NEW k \in DOMAIN words, NEW l \in DOMAIN words, f[k] = f[l] PROVE k = l
    <3>1. ~Earlier(f[k], f[l]) /\ ~Earlier(f[l], f[k])
      BY <2>5, <2>6, <2>7 DEF Earlier
    <3>2. k \in Int /\ l \in Int
      BY <1>6, LenProperties
    <3>3. QED BY <2>5, <3>1, <3>2
  \* What says b: the title, or a brand that is not in the title.
  <2>8. ASSUME NEW k \in Saying(words, b)
        PROVE  /\ k \in DOMAIN words /\ f[k] \in Places(ss) /\ f[k][1] \in DOMAIN template
               /\ \/ /\ template[f[k][1]] = "title" /\ f[k][2] \in Saying(values.title, b)
                  \/ /\ template[f[k][1]] = "brand" /\ f[k][2] = 1 /\ b \notin Range(values.title)
    <3>1. k \in DOMAIN words /\ words[k] = b
      BY DEF Saying
    <3>2. PICK i, j : i = f[k][1] /\ j = f[k][2]
      OBVIOUS
    <3>3. f[k] \in Places(ss) /\ i \in 1..Len(template) /\ j \in DOMAIN ss[i] /\ ss[i][j] = b
      BY <2>5, <2>6, <3>1, <3>2
    <3>4. ss[i] = IF template[i] = Sep THEN <<Sep>> ELSE v[template[i]]
      BY <1>3, <1>5, <3>3 DEF Pieces
    <3>5. template[i] # Sep
      <4>1. SUFFICES ASSUME template[i] = Sep PROVE FALSE
        OBVIOUS
      <4>2. ss[i] = <<Sep>>
        BY <3>4, <4>1
      <4>3. j = 1 /\ ss[i][1] = Sep
        BY <3>3, <4>2
      <4>4. QED BY <2>2, <3>3, <4>3
    <3>6. template[i] \in {"title", "brand", "season"} /\ ss[i] = v[template[i]]
      BY <1>5, <3>3, <3>4, <3>5
    <3>7. CASE template[i] = "title"
      <4>1. ss[i] = values.title
        BY <1>2, <2>4, <3>6, <3>7, FieldsOf
      <4>2. j \in Saying(values.title, b)
        BY <3>3, <4>1 DEF Saying
      <4>3. QED BY <1>5, <3>1, <3>2, <3>3, <3>7, <4>2
    <3>8. CASE template[i] = "brand"
      <4>1. ss[i] = v.brand
        BY <1>2, <2>4, <3>6, <3>8, FieldsOf
      <4>2. v.brand # <<>>
        BY <3>3, <4>1
      <4>3. b \notin Range(values.title) /\ v.brand = values.brand
        BY <2>4, <4>2
      <4>4. DOMAIN values.brand = 1..1
        BY <1>8, FieldsOf, LenProperties
      <4>5. j = 1
        BY <3>3, <4>1, <4>3, <4>4
      <4>6. QED BY <1>5, <3>1, <3>2, <3>3, <3>8, <4>3, <4>5
    <3>9. CASE template[i] = "season"
      <4>1. ss[i] = values.season
        BY <1>2, <2>4, <3>6, <3>9, FieldsOf
      <4>2. b \in Range(values.season)
        BY <3>3, <4>1 DEF Range
      <4>3. QED BY <2>2, <4>2
    <3>10. QED BY <3>6, <3>7, <3>8, <3>9
  <2>9. CASE b \in Range(values.title)
    <3>1. PICK i : {j \in DOMAIN template : template[j] = "title"} = {i}
      <4>1. PICK S : S = {j \in DOMAIN template : template[j] = "title"}
        OBVIOUS
      <4>2. IsFiniteSet(DOMAIN template)
        <5>1. 1 \in Int /\ Len(template) \in Int
          BY <1>5
        <5>2. QED BY <1>5, <5>1, FS_Interval
      <4>3. IsFiniteSet(S)
        BY <4>1, <4>2, FS_Subset
      <4>4. Cardinality(S) = 1
        BY <1>8, <4>1
      <4>5. \E x : S = {x}
        BY <4>3, <4>4, FS_Singleton
      <4>6. QED BY <4>1, <4>5
    <3> DEFINE g == [k \in Saying(words, b) |-> f[k][2]]
    <3>2. g \in [Saying(words, b) -> Saying(values.title, b)]
      BY <2>8, <2>9
    <3>3. ASSUME NEW k \in Saying(words, b), NEW l \in Saying(words, b), g[k] = g[l] PROVE k = l
      <4>1. f[k][2] = f[l][2]
        BY <3>3
      <4>2. f[k][1] = i /\ f[l][1] = i
        BY <2>8, <2>9, <3>1
      <4>3. f[k] = f[l]
        BY <2>6, <2>8, <4>1, <4>2
      <4>4. QED BY <2>7, <2>8, <4>3
    <3>4. g \in Injection(Saying(words, b), Saying(values.title, b))
      BY <3>2, <3>3 DEF Injection, IsInjective
    <3>5. IsFiniteSet(Saying(values.title, b)) /\ Cardinality(Saying(values.title, b)) \in Nat
      BY FieldsOf, SayingFinite
    <3> HIDE DEF g
    <3>6. Cardinality(Saying(words, b)) <= Cardinality(Saying(values.title, b))
      BY <3>4, <3>5, FS_Injection
    <3>7. Cardinality(Saying(t, b)) <= Cardinality(Saying(values.title, b))
      BY <2>3, <3>5, <3>6
    <3>8. QED BY <2>1, <3>7
  <2>10. CASE b \notin Range(values.title)
    <3> DEFINE g == [k \in Saying(words, b) |-> f[k][1]]
    <3>1. \A k \in Saying(words, b) : template[f[k][1]] = "brand" /\ f[k][2] = 1
      <4>1. \A j : j \notin Saying(values.title, b)
        BY <2>10 DEF Saying, Range
      <4>2. QED BY <2>8, <4>1
    <3>2. g \in [Saying(words, b) -> Saying(template, "brand")]
      BY <2>8, <3>1 DEF Saying
    <3>3. ASSUME NEW k \in Saying(words, b), NEW l \in Saying(words, b), g[k] = g[l] PROVE k = l
      <4>1. f[k][1] = f[l][1]
        BY <3>3
      <4>2. f[k][2] = f[l][2]
        BY <3>1
      <4>3. f[k] = f[l]
        BY <2>6, <2>8, <4>1, <4>2
      <4>4. QED BY <2>7, <2>8, <4>3
    <3>4. g \in Injection(Saying(words, b), Saying(template, "brand"))
      BY <3>2, <3>3 DEF Injection, IsInjective
    <3>5. IsFiniteSet(Saying(template, "brand")) /\ Cardinality(Saying(template, "brand")) \in Nat
      BY SayingFinite
    <3> HIDE DEF g
    <3>6. Cardinality(Saying(words, b)) <= Cardinality(Saying(template, "brand"))
      BY <3>4, <3>5, FS_Injection
    <3>7. Cardinality(Saying(t, b)) <= Cardinality(Saying(template, "brand"))
      BY <2>3, <3>5, <3>6
    <3>8. QED BY <2>1, <3>7
  <2>11. QED BY <2>9, <2>10
<1>9. QED BY <1>4, <1>7, <1>8 DEF TitleIsTidy, NeatTitle, Saying

-----------------------------------------------------------------------------
(* The barcode *)

\* What follows the last hyphen is told by the text, and what is before it.
LEMMA JoinedOnce ==
  ASSUME NEW T, NEW x \in Seq(T), NEW y \in Seq(T), NEW a \in Seq(T), NEW b \in Seq(T), Sep \in T,
         Sep \notin Range(a), Sep \notin Range(b), x \o <<Sep>> \o a = y \o <<Sep>> \o b
  PROVE  a = b /\ x = y
<1>1. PICK s : s = x \o <<Sep>> \o a
  OBVIOUS
<1>2. PICK k, l, m, n : k = Len(x) /\ l = Len(y) /\ m = Len(a) /\ n = Len(b)
  OBVIOUS
<1>3. /\ k \in Nat /\ l \in Nat /\ m \in Nat /\ n \in Nat
      /\ x = [i \in 1..k |-> x[i]] /\ y = [i \in 1..l |-> y[i]]
      /\ a = [i \in 1..m |-> a[i]] /\ b = [i \in 1..n |-> b[i]]
  BY <1>2, LenProperties
<1>4. /\ Len(s) = k + 1 + m /\ s[k + 1] = Sep
      /\ \A i \in 1..k : s[i] = x[i]
      /\ \A i \in 1..m : s[k + 1 + i] = a[i]
  BY <1>1, <1>2
<1>5. /\ Len(s) = l + 1 + n /\ s[l + 1] = Sep
      /\ \A i \in 1..l : s[i] = y[i]
      /\ \A i \in 1..n : s[l + 1 + i] = b[i]
  <2>1. s = y \o <<Sep>> \o b
    BY <1>1
  <2>2. QED BY <1>2, <2>1
<1>6. ~(k < l)
  <2>1. SUFFICES ASSUME k < l PROVE FALSE
    OBVIOUS
  <2>2. PICK i : i = l - k
    OBVIOUS
  <2>3. i \in 1..m /\ k + 1 + i = l + 1
    <3>1. k \in Nat /\ l \in Nat /\ m \in Nat /\ n \in Nat
      BY <1>3
    <3>2. k + 1 + m = l + 1 + n
      BY <1>4, <1>5
    <3>3. QED BY <2>1, <2>2, <3>1, <3>2
  <2>4. a[i] = Sep
    BY <1>4, <1>5, <2>3
  <2>5. DOMAIN a = 1..m
    BY <1>2, LenProperties
  <2>6. QED BY <2>3, <2>4, <2>5 DEF Range
<1>7. ~(l < k)
  <2>1. SUFFICES ASSUME l < k PROVE FALSE
    OBVIOUS
  <2>2. PICK i : i = k - l
    OBVIOUS
  <2>3. i \in 1..n /\ l + 1 + i = k + 1
    <3>1. k \in Nat /\ l \in Nat /\ m \in Nat /\ n \in Nat
      BY <1>3
    <3>2. k + 1 + m = l + 1 + n
      BY <1>4, <1>5
    <3>3. QED BY <2>1, <2>2, <3>1, <3>2
  <2>4. b[i] = Sep
    BY <1>4, <1>5, <2>3
  <2>5. DOMAIN b = 1..n
    BY <1>2, LenProperties
  <2>6. QED BY <2>3, <2>4, <2>5 DEF Range
<1>8. k = l /\ m = n
  BY <1>3, <1>4, <1>5, <1>6, <1>7
<1>9. \A i \in 1..k : x[i] = y[i]
  BY <1>4, <1>5, <1>8
<1>10. \A i \in 1..m : a[i] = b[i]
  BY <1>4, <1>5, <1>8
<1>11. x = y
  BY <1>3, <1>8, <1>9
<1>12. a = b
  BY <1>3, <1>8, <1>10
<1>13. QED BY <1>11, <1>12

LEMMA HyphenatedIsAList ==
  ASSUME NEW T, Sep \in T, NEW x \in Seq(T), NEW a \in Seq(T)
  PROVE  Hyphenated(x, a) \in Seq(T)
BY DEF Hyphenated

\* Two parts that are both there or both not, without the hyphen.
Alike(a, b) == /\ (a = <<>>) <=> (b = <<>>)
               /\ Sep \notin Range(a) /\ Sep \notin Range(b)

\* Of two texts joined with parts that are both there or both not, and without
\* the hyphen, the parts are the same when the result is.
LEMMA HyphenatedOnce ==
  ASSUME NEW T, Sep \in T,
         NEW x \in Seq(T), NEW y \in Seq(T), NEW a \in Seq(T), NEW b \in Seq(T),
         Alike(a, b), Hyphenated(x, a) = Hyphenated(y, b)
  PROVE  a = b /\ x = y
<1>1. CASE a = <<>>
  <2>1. b = <<>>
    BY <1>1 DEF Alike
  <2>2. Hyphenated(x, a) = x /\ Hyphenated(y, b) = y
    BY <1>1, <2>1 DEF Hyphenated
  <2>3. QED BY <1>1, <2>1, <2>2
<1>2. CASE a # <<>>
  <2>1. b # <<>> /\ Sep \notin Range(a) /\ Sep \notin Range(b)
    BY <1>2 DEF Alike
  <2>2. ASSUME NEW z \in Seq(T), NEW c \in Seq(T) PROVE Sep \in Range(z \o <<Sep>> \o c)
    <3>1. PICK s, i : s = z \o <<Sep>> \o c /\ i = Len(z) + 1
      OBVIOUS
    <3>2. Len(z) \in Nat /\ Len(c) \in Nat
      BY LenProperties
    <3>3. s \in Seq(T) /\ Len(s) = Len(z) + 1 + Len(c) /\ s[i] = Sep
      BY <3>1, <3>2
    <3>4. i \in 1..Len(s) /\ DOMAIN s = 1..Len(s)
      BY <3>1, <3>2, <3>3, LenProperties
    <3>5. QED BY <3>1, <3>3, <3>4 DEF Range
  <2>3. Hyphenated(x, a) = IF x = <<>> THEN a ELSE x \o <<Sep>> \o a
    BY <1>2 DEF Hyphenated
  <2>4. Hyphenated(y, b) = IF y = <<>> THEN b ELSE y \o <<Sep>> \o b
    BY <2>1 DEF Hyphenated
  <2>5. CASE x = <<>> /\ y = <<>>
    BY <2>3, <2>4, <2>5
  <2>6. CASE x = <<>> /\ y # <<>>
    <3>1. a = y \o <<Sep>> \o b
      BY <2>3, <2>4, <2>6
    <3>2. QED BY <2>1, <2>2, <3>1
  <2>7. CASE x # <<>> /\ y = <<>>
    <3>1. b = x \o <<Sep>> \o a
      BY <2>3, <2>4, <2>7
    <3>2. QED BY <2>1, <2>2, <3>1
  <2>8. CASE x # <<>> /\ y # <<>>
    <3>1. x \o <<Sep>> \o a = y \o <<Sep>> \o b
      BY <2>3, <2>4, <2>8
    <3>2. QED BY <2>1, <3>1, JoinedOnce
  <2>9. QED BY <2>5, <2>6, <2>7, <2>8
<1>3. QED BY <1>1, <1>2

\* Two variants whose rendered parts are alike.
AlikeParts(v, w, config) ==
  /\ Alike(v.color, w.color) /\ Alike(v.size, w.size)
  /\ "extra" \in Range(config.axes) => Alike(v.extra, w.extra)

\* The constructed barcodes of two variants of a sheet that fill the same parts.
LEMMA BarcodeTells ==
  ASSUME NEW T, Sep \in T, NEW ref \in Seq(T), NEW config,
         NEW v, v.color \in Seq(T), v.size \in Seq(T), v.extra \in Seq(T),
         NEW w, w.color \in Seq(T), w.size \in Seq(T), w.extra \in Seq(T),
         config.barcode_mode # "ean",
         ComputeBarcode(ref, v, config) = ComputeBarcode(ref, w, config),
         AlikeParts(v, w, config)
  PROVE  /\ v.color = w.color /\ v.size = w.size
         /\ "extra" \in Range(config.axes) => v.extra = w.extra
<1>1. PICK cv, sv, cw, sw : cv = v.color /\ sv = v.size /\ cw = w.color /\ sw = w.size
  OBVIOUS
<1>2. PICK vc, vk, wc, wk : /\ vc = Hyphenated(ref, cv) /\ vk = Hyphenated(vc, sv)
                            /\ wc = Hyphenated(ref, cw) /\ wk = Hyphenated(wc, sw)
  OBVIOUS
<1>3. /\ cv \in Seq(T) /\ sv \in Seq(T) /\ cw \in Seq(T) /\ sw \in Seq(T)
      /\ Alike(cv, cw) /\ Alike(sv, sw)
  BY <1>1 DEF AlikeParts
<1>4. vc \in Seq(T) /\ vk \in Seq(T) /\ wc \in Seq(T) /\ wk \in Seq(T)
  BY <1>2, <1>3, HyphenatedIsAList
<1>5. vk = wk /\ ("extra" \in Range(config.axes) => v.extra = w.extra)
  <2>1. CASE "extra" \in Range(config.axes)
    <3>1. PICK ev, ew : ev = v.extra /\ ew = w.extra
      OBVIOUS
    <3>2. Hyphenated(vk, ev) = Hyphenated(wk, ew)
      BY <1>1, <1>2, <2>1, <3>1 DEF ComputeBarcode
    <3>3. ev \in Seq(T) /\ ew \in Seq(T) /\ Alike(ev, ew)
      BY <2>1, <3>1 DEF AlikeParts
    <3>4. vk = wk /\ ev = ew
      BY <1>4, <3>2, <3>3, HyphenatedOnce
    <3>5. QED BY <3>1, <3>4
  <2>2. CASE "extra" \notin Range(config.axes)
    BY <1>1, <1>2, <2>2 DEF ComputeBarcode
  <2>3. QED BY <2>1, <2>2
<1>6. sv = sw /\ vc = wc
  <2>1. Hyphenated(vc, sv) = Hyphenated(wc, sw)
    BY <1>2, <1>5
  <2>2. QED BY <1>3, <1>4, <2>1, HyphenatedOnce
<1>7. cv = cw
  <2>1. Hyphenated(ref, cv) = Hyphenated(ref, cw)
    BY <1>2, <1>6
  <2>2. QED BY <1>3, <2>1, HyphenatedOnce
<1>8. QED BY <1>1, <1>5, <1>6, <1>7

-----------------------------------------------------------------------------
(* The rows of a sheet *)

\* The rows of one sheet are those of its variants, its warnings the sheet's.
LEMMA RowsOfOne ==
  ASSUME NEW p, NEW config, p.variants \in Seq(Range(p.variants)),
         ~RenderRows(<<p>>, config).refused
  PROVE  /\ RenderRows(<<p>>, config).rows = [i \in DOMAIN p.variants |-> Row(p, p.variants[i], config)]
         /\ RenderRows(<<p>>, config).warnings = Warnings(p, config)
<1>1. PICK vs, s, rr, W : /\ vs = p.variants /\ s = [i \in DOMAIN vs |-> Row(p, vs[i], config)]
                          /\ rr = [k \in DOMAIN <<p>> |->
                                     [i \in DOMAIN <<p>>[k].variants |->
                                        Row(<<p>>[k], <<p>>[k].variants[i], config)]]
                          /\ W = UNION {Warnings(<<p>>[k], config) : k \in DOMAIN <<p>>}
  OBVIOUS
<1>2. ~(config.price_mode = "coefficient" /\ config.coefficient = 0)
  BY DEF RenderRows
<1>3. RenderRows(<<p>>, config).rows = Laid(rr) /\ RenderRows(<<p>>, config).warnings = W
  BY <1>1, <1>2 DEF RenderRows
<1>4. DOMAIN <<p>> = {1} /\ <<p>>[1] = p
  OBVIOUS
<1>5. rr = <<s>>
  <2>1. rr = [k \in {1} |-> s]
    BY <1>1, <1>4
  <2>2. QED BY <2>1
<1>6. s \in Seq(Range(s))
  <2>1. Len(vs) \in Nat /\ DOMAIN vs = 1..Len(vs)
    BY <1>1, LenProperties
  <2>2. s \in [1..Len(vs) -> Range(s)]
    BY <1>1, <2>1 DEF Range
  <2>3. QED BY <2>1, <2>2, IsASeq
<1>7. Laid(rr) = s
  BY <1>5, <1>6, LaidOne
<1>8. W = Warnings(p, config)
  BY <1>1, <1>4
<1>9. QED BY <1>1, <1>3, <1>7, <1>8

LEMMA RowsKept ==
  ASSUME NEW p \in Extracted, NEW config
  PROVE  RowsKeepVariants(p, config)
<1>1. PICK vs, r : vs = p.variants /\ r = RenderRows(<<p>>, config)
  OBVIOUS
<1>2. SUFFICES ASSUME ~r.refused PROVE RowsKeepVariants(p, config)
  BY <1>1 DEF RowsKeepVariants
<1>3. /\ p.ref \in Seq(Vocabulary) /\ p.variants \in Seq(Range(p.variants))
      /\ \A v \in Range(p.variants) :
           v.color \in Seq(Vocabulary) /\ v.size \in Seq(Vocabulary) /\ v.extra \in Seq(Vocabulary)
  BY RowsAssumption DEF RowsAssumption
<1>4. r.rows = [i \in DOMAIN vs |-> Row(p, vs[i], config)] /\ r.warnings = Warnings(p, config)
  BY <1>1, <1>2, <1>3, RowsOfOne
<1>5. Len(vs) \in Nat /\ DOMAIN vs = 1..Len(vs)
  BY <1>1, <1>3, LenProperties
<1>6. Len(r.rows) = Len(vs) /\ DOMAIN r.rows = DOMAIN vs
  <2>1. PICK rows : rows = [i \in 1..Len(vs) |-> Row(p, vs[i], config)]
    OBVIOUS
  <2>2. rows \in [1..Len(vs) -> Range(rows)]
    BY <2>1 DEF Range
  <2>3. rows \in Seq(Range(rows)) /\ DOMAIN rows = 1..Len(vs)
    BY <1>5, <2>1, <2>2, IsASeq
  <2>4. Len(rows) = Len(vs)
    BY <1>5, <2>3, LenProperties
  <2>5. r.rows = rows
    BY <1>4, <1>5, <2>1
  <2>6. QED BY <1>5, <2>3, <2>4, <2>5
<1>7. r.rows = <<>> => "no_variant" \in r.warnings
  <2>1. SUFFICES ASSUME r.rows = <<>> PROVE "no_variant" \in r.warnings
    OBVIOUS
  <2>2. Len(vs) = 0
    BY <1>6, <2>1
  <2>3. vs = <<>>
    <3>1. vs = [i \in 1..Len(vs) |-> vs[i]]
      BY <1>1, <1>3, LenProperties
    <3>2. QED BY <1>1, <1>3, <2>2
  <2>4. QED BY <1>1, <1>4, <2>3 DEF Warnings
<1>8. ASSUME NEW i \in DOMAIN vs
      PROVE  /\ r.rows[i].barcode = <<>> => "no_barcode" \in r.warnings
             /\ r.rows[i].price = Unpriced => "no_price" \in r.warnings
  <2>1. PICK w, W : /\ w = Row(p, vs[i], config)
                    /\ W = (IF w.price = Unpriced THEN {"no_price"} ELSE {})
                           \cup (IF w.barcode = <<>> THEN {"no_barcode"} ELSE {})
    OBVIOUS
  <2>2. r.rows[i] = w
    BY <1>4, <2>1
  <2>3. W \subseteq r.warnings
    BY <1>1, <1>4, <2>1 DEF Warnings
  <2>4. QED BY <2>1, <2>2, <2>3
<1> DEFINE parts(v) == PartsShown(v, config)
<1>9. ASSUME config.barcode_mode = "constructed", config.conversion = Blank,
             NEW i \in DOMAIN vs, NEW j \in DOMAIN vs,
             r.rows[i].barcode = r.rows[j].barcode,
             \A k \in DOMAIN parts(vs[i]) :
               /\ (parts(vs[i])[k] = <<>>) <=> (parts(vs[j])[k] = <<>>)
               /\ Sep \notin Range(parts(vs[i])[k]) \cup Range(parts(vs[j])[k])
      PROVE  parts(vs[i]) = parts(vs[j])
  <2>1. PICK v, w : v = vs[i] /\ w = vs[j]
    OBVIOUS
  <2>2. v \in Range(p.variants) /\ w \in Range(p.variants)
    BY <1>1, <2>1 DEF Range
  <2>3. /\ v.color \in Seq(Vocabulary \cup {Sep}) /\ v.size \in Seq(Vocabulary \cup {Sep})
        /\ v.extra \in Seq(Vocabulary \cup {Sep})
        /\ w.color \in Seq(Vocabulary \cup {Sep}) /\ w.size \in Seq(Vocabulary \cup {Sep})
        /\ w.extra \in Seq(Vocabulary \cup {Sep}) /\ p.ref \in Seq(Vocabulary \cup {Sep})
    <3>1. \A s \in Seq(Vocabulary) : s \in Seq(Vocabulary \cup {Sep})
      OBVIOUS
    <3>2. QED BY <1>3, <2>2, <3>1
  <2>4. ASSUME NEW e PROVE Row(p, e, config).barcode = ComputeBarcode(p.ref, e, config)
    <3>1. \A g : ConvertShoeSize(e.shoe, config.conversion, g) = e.shoe
      BY <1>9 DEF ConvertShoeSize
    <3>2. QED BY <3>1 DEF Row
  <2>5. ComputeBarcode(p.ref, v, config) = ComputeBarcode(p.ref, w, config)
    BY <1>4, <1>9, <2>1, <2>4
  <2>6. \A k \in DOMAIN parts(v) : Alike(parts(v)[k], parts(w)[k])
    BY <1>9, <2>1 DEF Alike
  <2>7. AlikeParts(v, w, config) =>
           /\ v.color = w.color /\ v.size = w.size
           /\ "extra" \in Range(config.axes) => v.extra = w.extra
    <3>1. SUFFICES ASSUME AlikeParts(v, w, config)
                   PROVE  /\ v.color = w.color /\ v.size = w.size
                          /\ "extra" \in Range(config.axes) => v.extra = w.extra
      OBVIOUS
    <3>2. PICK T, ref : T = Vocabulary \cup {Sep} /\ ref = p.ref
      OBVIOUS
    <3>3. /\ Sep \in T /\ ref \in Seq(T)
          /\ v.color \in Seq(T) /\ v.size \in Seq(T) /\ v.extra \in Seq(T)
          /\ w.color \in Seq(T) /\ w.size \in Seq(T) /\ w.extra \in Seq(T)
      BY <2>3, <3>2
    <3>4. config.barcode_mode # "ean" /\ ComputeBarcode(ref, v, config) = ComputeBarcode(ref, w, config)
      BY <1>9, <2>5, <3>2
    <3>5. QED BY <3>1, <3>3, <3>4, BarcodeTells
  <2>8. CASE "extra" \in Range(config.axes)
    <3>1. parts(v) = <<v.color, v.size, v.extra>> /\ parts(w) = <<w.color, w.size, w.extra>>
      BY <2>8 DEF PartsShown
    <3> HIDE DEF parts
    <3>2. Alike(v.color, w.color) /\ Alike(v.size, w.size) /\ Alike(v.extra, w.extra)
      <4>1. /\ DOMAIN parts(v) = {1, 2, 3}
            /\ parts(v)[1] = v.color /\ parts(v)[2] = v.size /\ parts(v)[3] = v.extra
            /\ parts(w)[1] = w.color /\ parts(w)[2] = w.size /\ parts(w)[3] = w.extra
        BY <3>1
      <4>2. QED BY <2>6, <4>1
    <3>3. v.color = w.color /\ v.size = w.size /\ v.extra = w.extra
      <4>1. AlikeParts(v, w, config)
        BY <3>2 DEF AlikeParts
      <4>2. QED BY <2>8, <2>7, <4>1
    <3>4. QED BY <2>1, <3>1, <3>3
  <2>9. CASE "extra" \notin Range(config.axes)
    <3>1. parts(v) = <<v.color, v.size>> /\ parts(w) = <<w.color, w.size>>
      BY <2>9 DEF PartsShown
    <3> HIDE DEF parts
    <3>2. Alike(v.color, w.color) /\ Alike(v.size, w.size)
      <4>1. /\ DOMAIN parts(v) = {1, 2}
            /\ parts(v)[1] = v.color /\ parts(v)[2] = v.size
            /\ parts(w)[1] = w.color /\ parts(w)[2] = w.size
        BY <3>1
      <4>2. QED BY <2>6, <4>1
    <3>3. v.color = w.color /\ v.size = w.size
      <4>1. AlikeParts(v, w, config)
        BY <2>9, <3>2 DEF AlikeParts
      <4>2. QED BY <2>7, <4>1
    <3>4. QED BY <2>1, <3>1, <3>3
  <2>10. QED BY <2>8, <2>9
<1> HIDE DEF parts
<1>10. config.barcode_mode = "constructed" /\ config.conversion = Blank =>
         \A i, j \in DOMAIN vs :
           /\ r.rows[i].barcode = r.rows[j].barcode
           /\ \A k \in DOMAIN parts(vs[i]) :
                /\ (parts(vs[i])[k] = <<>>) <=> (parts(vs[j])[k] = <<>>)
                /\ Sep \notin Range(parts(vs[i])[k]) \cup Range(parts(vs[j])[k])
           => parts(vs[i]) = parts(vs[j])
  BY <1>9
<1>11. QED BY <1>1, <1>6, <1>7, <1>8, <1>10 DEF RowsKeepVariants, parts

LEMMA BarcodeKept ==
  ASSUME NEW p, NEW config \in Configs
  PROVE  BarcodeIgnoresOrder(p, config)
<1>1. SUFFICES ASSUME NEW axes, Range(axes) = Range(config.axes), NEW v
               PROVE  ComputeBarcode(p.ref, v, config)
                        = ComputeBarcode(p.ref, v, [config EXCEPT !.axes = axes])
  BY DEF BarcodeIgnoresOrder
<1>2. PICK e : e = [config EXCEPT !.axes = axes]
  OBVIOUS
<1>3. "axes" \in DOMAIN config /\ "barcode_mode" \in DOMAIN config
  BY RowsAssumption DEF RowsAssumption
<1>4. e.axes = axes /\ e.barcode_mode = config.barcode_mode
  BY <1>2, <1>3
<1>5. QED BY <1>1, <1>2, <1>4 DEF ComputeBarcode

-----------------------------------------------------------------------------

\* What the rendering is asked for is out of the declared sets.
AskedOf ==
  /\ rendered.asked = "price" => rendered.purchase \in Purchases /\ rendered.config \in Configs
  /\ rendered.asked = "sizes" => rendered.one \in ShoeSizes /\ rendered.other \in ShoeSizes
  /\ rendered.asked = "title" => rendered.values \in Titles /\ rendered.template \in Templates
  /\ rendered.asked = "rows" => rendered.product \in Extracted /\ rendered.config \in Configs

LEMMA AskedAlways == RowsSpec => []AskedOf
<1>1. RowsInit => AskedOf
  BY DEF RowsInit, AskedOf
<1>2. AskedOf /\ [RowsNext]_rendered => AskedOf'
  <2>1. SUFFICES ASSUME AskedOf, RowsNext \/ UNCHANGED rendered PROVE AskedOf'
    OBVIOUS
  <2>2. ASSUME NEW p \in Purchases, NEW c \in Configs, AskPrice(p, c) PROVE AskedOf'
    BY <2>2 DEF AskPrice, AskedOf
  <2>3. ASSUME NEW a \in ShoeSizes, NEW b \in ShoeSizes, NEW m, NEW g, AskSizes(a, b, m, g)
        PROVE  AskedOf'
    BY <2>3 DEF AskSizes, AskedOf
  <2>4. ASSUME NEW v \in Titles, NEW t \in Templates, AskTitle(v, t) PROVE AskedOf'
    BY <2>4 DEF AskTitle, AskedOf
  <2>5. ASSUME NEW p \in Extracted, NEW c \in Configs, AskRows(p, c) PROVE AskedOf'
    BY <2>5 DEF AskRows, AskedOf
  <2>6. CASE UNCHANGED rendered
    BY <2>1, <2>6 DEF AskedOf
  <2>7. QED BY <2>1, <2>2, <2>3, <2>4, <2>5, <2>6 DEF RowsNext
<1>3. QED BY <1>1, <1>2, PTL DEF RowsSpec

\* For every set of words, sheets, profiles, titles and sizes: what is asked of the
\* rendering is priced, sized, titled and identified as RowsAreSound says
\* (imports/tillin_csv.py, enrich/title.py).
THEOREM RowsAlwaysSound == RowsSpec => []RowsAreSound
<1>1. AskedOf => RowsAreSound
  <2>1. SUFFICES ASSUME AskedOf PROVE RowsAreSound
    OBVIOUS
  <2>2. ASSUME rendered.asked = "price"
        PROVE  PriceIsCeiling(rendered.purchase.wholesale, rendered.purchase.more, rendered.config)
    <3>1. PICK p, c : p = rendered.purchase /\ c = rendered.config
      OBVIOUS
    <3>2. p \in Purchases /\ c \in Configs
      BY <2>1, <2>2, <3>1 DEF AskedOf
    <3>3. p.wholesale \in Nat /\ p.more \in Nat /\ c.coefficient \in Nat /\ c.step \in Nat
      BY <3>2, RowsAssumption DEF RowsAssumption
    <3>4. QED BY <3>1, <3>3, PriceHolds
  <2>3. ASSUME rendered.asked = "sizes"
        PROVE  ConversionIsOnce(rendered.one, rendered.other, rendered.mode, rendered.gender)
    <3>1. /\ rendered.one \in [number : BOOLEAN, halves : Nat]
          /\ rendered.other \in [number : BOOLEAN, halves : Nat]
      BY <2>1, <2>3, RowsAssumption DEF AskedOf, RowsAssumption
    <3>2. QED BY <3>1, SizeHolds
  <2>4. ASSUME rendered.asked = "title" PROVE TitleIsTidy(rendered.values, rendered.template)
    <3>1. /\ rendered.values \in [title : Seq(Vocabulary), brand : Seq(Vocabulary), season : Seq(Vocabulary)]
          /\ rendered.template \in Seq({"title", "brand", "season", Sep})
      BY <2>1, <2>4, RowsAssumption DEF AskedOf, RowsAssumption
    <3>2. QED BY <3>1, TitleHolds
  <2>5. ASSUME rendered.asked = "rows"
        PROVE  /\ RowsKeepVariants(rendered.product, rendered.config)
               /\ BarcodeIgnoresOrder(rendered.product, rendered.config)
    BY <2>1, <2>5, RowsKept, BarcodeKept DEF AskedOf
  <2>6. QED BY <2>2, <2>3, <2>4, <2>5 DEF RowsAreSound
<1>2. QED BY <1>1, AskedAlways, PTL

-----------------------------------------------------------------------------
(* Sums counted out, the first and the last of a set *)

\* The places of a list, and what is there.
LEMMA ListIs ==
  ASSUME NEW T, NEW s \in Seq(T)
  PROVE  Len(s) \in Nat /\ DOMAIN s = 1..Len(s) /\ \A i \in 1..Len(s) : s[i] \in T
<1>1. Len(s) \in Nat /\ DOMAIN s = 1..Len(s)
  BY LenProperties
<1>2. \A i \in 1..Len(s) : s[i] \in T
  BY ElementOfSeq
<1>3. QED BY <1>1, <1>2

\* A finite set of numbers has a first and a last one.
LEMMA FirstAndLast ==
  ASSUME NEW S \in SUBSET Int, IsFiniteSet(S), S # {}
  PROVE  /\ Min(S) \in S /\ \A i \in S : Min(S) <= i
         /\ Max(S) \in S /\ \A i \in S : i <= Max(S)
<1>1. PICK R : R = {p \in S \X S : p[1] < p[2]}
  OBVIOUS
<1>2. \A i, j \in S : <<i, j>> \in R <=> i < j
  BY <1>1
<1>3. Ranks(R, S)
  BY <1>2 DEF Ranks
<1>4. PICK c, f : c = Cardinality(S) /\ f = InOrder(S, R)
  OBVIOUS
<1>5. Sorted(f, S, R)
  BY <1>3, <1>4, InOrderSorts
<1>6. c \in Nat /\ \A i \in S : \E k \in 1..c : f[k] = i
  BY <1>3, <1>4, <1>5, SortedOnce
<1>7. f \in [1..c -> S] /\ \A k, l \in 1..c : k < l => f[k] < f[l]
  BY <1>2, <1>4, <1>5 DEF Sorted
<1>8. 1 \in 1..c /\ c \in 1..c
  <2>1. PICK i : i \in S
    OBVIOUS
  <2>2. PICK k \in 1..c : f[k] = i
    BY <1>6, <2>1
  <2>3. QED BY <1>6, <2>2
<1>9. f[1] \in S /\ f[c] \in S
  BY <1>7, <1>8
<1>10. \A i \in S : f[1] <= i /\ i <= f[c]
  <2>1. ASSUME NEW i \in S PROVE f[1] <= i /\ i <= f[c]
    <3>1. PICK k \in 1..c : f[k] = i
      BY <1>6
    <3>2. (1 < k => f[1] < f[k]) /\ (k < c => f[k] < f[c])
      BY <1>7, <1>8
    <3>3. (1 < k \/ k = 1) /\ (k < c \/ k = c)
      BY <1>6
    <3>4. f[1] \in Int /\ f[k] \in Int /\ f[c] \in Int
      BY <1>9, <3>1
    <3>5. QED BY <3>1, <3>2, <3>3, <3>4
  <2>2. QED BY <2>1
<1>11. Min(S) \in S /\ \A i \in S : Min(S) <= i
  BY <1>9, <1>10 DEF Min
<1>12. Max(S) \in S /\ \A i \in S : i <= Max(S)
  BY <1>9, <1>10 DEF Max
<1>13. QED BY <1>11, <1>12

\* So do places, when there are any.
LEMMA FirstAndLastPlace ==
  ASSUME NEW n \in Nat, NEW S \in SUBSET (1..n), S # {}
  PROVE  /\ Min(S) \in S /\ \A i \in S : Min(S) <= i
         /\ Max(S) \in S /\ \A i \in S : i <= Max(S)
<1>1. IsFiniteSet(1..n)
  BY FS_Interval
<1>2. IsFiniteSet(S)
  BY <1>1, FS_Subset
<1>3. S \in SUBSET Int
  OBVIOUS
<1>4. QED BY <1>2, <1>3, FirstAndLast

\* The coins that count out a sum.
Coins(f, S) == UNION {{i} \X (1..f[i]) : i \in S}
Counts(f, S) == IsFiniteSet(S) /\ \A i \in S : f[i] \in Nat

\* The sum is their number.
LEMMA CoinsAre ==
  ASSUME NEW f, NEW S
  PROVE  /\ SumOver(f, S) = Cardinality(Coins(f, S))
         /\ \A c : c \in Coins(f, S) <=> \E i \in S : \E k \in 1..f[i] : c = <<i, k>>
<1>1. SumOver(f, S) = Cardinality(Coins(f, S))
  BY DEF SumOver, Coins
<1>2. \A c : c \in Coins(f, S) <=> \E i \in S : c \in {i} \X (1..f[i])
  BY DEF Coins
<1>3. \A c : \A i \in S : c \in {i} \X (1..f[i]) <=> \E k \in 1..f[i] : c = <<i, k>>
  OBVIOUS
<1>4. QED BY <1>1, <1>2, <1>3

\* The coins of one term.
LEMMA CoinsOfOne ==
  ASSUME NEW i, NEW n \in Nat
  PROVE  IsFiniteSet({i} \X (1..n)) /\ Cardinality({i} \X (1..n)) = n
<1>1. IsFiniteSet(1..n) /\ Cardinality(1..n) = n
  BY FS_Interval
<1>2. IsFiniteSet({i}) /\ Cardinality({i}) = 1
  BY FS_Singleton
<1>3. QED BY <1>1, <1>2, FS_Product

\* A sum is a number.
LEMMA SumIsNumber ==
  ASSUME NEW f, NEW S, Counts(f, S)
  PROVE  IsFiniteSet(Coins(f, S)) /\ SumOver(f, S) \in Nat
<1> DEFINE T == {{i} \X (1..f[i]) : i \in S}
           g == [i \in S |-> {i} \X (1..f[i])]
<1>1. g \in Surjection(S, T)
  BY DEF Surjection
<1>2. IsFiniteSet(T)
  <2> HIDE DEF T, g
  <2>1. QED BY <1>1, FS_Surjection DEF Counts
<1>3. ASSUME NEW t \in T PROVE IsFiniteSet(t)
  <2>1. PICK i \in S : t = {i} \X (1..f[i])
    OBVIOUS
  <2>2. PICK n \in Nat : n = f[i]
    BY DEF Counts
  <2>3. QED BY <2>1, <2>2, CoinsOfOne
<1>4. IsFiniteSet(UNION T)
  <2> HIDE DEF T
  <2>1. QED BY <1>2, <1>3, FS_UNION
<1>5. IsFiniteSet(Coins(f, S))
  BY <1>4 DEF Coins
<1>6. QED BY <1>5, CoinsAre, FS_CardinalityType

\* A sum over nothing is nothing.
LEMMA SumOfNone ==
  ASSUME NEW f
  PROVE  SumOver(f, {}) = 0
<1>1. Coins(f, {}) = {}
  BY CoinsAre
<1>2. QED BY <1>1, CoinsAre, FS_EmptySet

\* A sum over two sets apart.
LEMMA SumOfBoth ==
  ASSUME NEW f, NEW S, NEW T, Counts(f, S), Counts(f, T), S \cap T = {}
  PROVE  SumOver(f, S \cup T) = SumOver(f, S) + SumOver(f, T)
<1>1. Coins(f, S \cup T) = Coins(f, S) \cup Coins(f, T)
  BY CoinsAre
<1>2. Coins(f, S) \cap Coins(f, T) = {}
  <2>1. ASSUME NEW c \in Coins(f, S), c \in Coins(f, T) PROVE FALSE
    <3>1. PICK i \in S : \E k \in 1..f[i] : c = <<i, k>>
      BY CoinsAre
    <3>2. PICK j \in T : \E k \in 1..f[j] : c = <<j, k>>
      BY <2>1, CoinsAre
    <3>3. i = j
      BY <3>1, <3>2
    <3>4. QED BY <3>3
  <2>2. QED BY <2>1
<1>3. IsFiniteSet(Coins(f, S)) /\ IsFiniteSet(Coins(f, T))
  BY SumIsNumber
<1>4. Cardinality(Coins(f, S) \cup Coins(f, T))
        = Cardinality(Coins(f, S)) + Cardinality(Coins(f, T)) - Cardinality({})
  BY <1>2, <1>3, FS_Union
<1>5. SumOver(f, S) \in Nat /\ SumOver(f, T) \in Nat /\ Cardinality({}) = 0
  BY SumIsNumber, FS_EmptySet
<1>6. SumOver(f, S) = Cardinality(Coins(f, S)) /\ SumOver(f, T) = Cardinality(Coins(f, T))
      /\ SumOver(f, S \cup T) = Cardinality(Coins(f, S \cup T))
  BY CoinsAre
<1>7. PICK x, y, z : x = SumOver(f, S) /\ y = SumOver(f, T) /\ z = SumOver(f, S \cup T)
  OBVIOUS
<1>8. x \in Nat /\ y \in Nat /\ z = x + y - 0
  BY <1>1, <1>4, <1>5, <1>6, <1>7
<1>9. z = x + y
  BY <1>8
<1>10. QED BY <1>7, <1>9

\* A sum over one place is what is there.
LEMMA SumOfOne ==
  ASSUME NEW f, NEW i, f[i] \in Nat
  PROVE  SumOver(f, {i}) = f[i]
<1>1. Coins(f, {i}) = {i} \X (1..f[i])
  BY DEF Coins
<1>2. PICK n \in Nat : n = f[i]
  OBVIOUS
<1>3. Cardinality({i} \X (1..n)) = n
  BY CoinsOfOne
<1>4. SumOver(f, {i}) = Cardinality(Coins(f, {i}))
  BY CoinsAre
<1>5. QED BY <1>1, <1>2, <1>3, <1>4

\* The same terms, one by one, make the same sum.
LEMMA SumOfSame ==
  ASSUME NEW f, NEW g, NEW S, NEW T, Counts(f, S), NEW h \in Bijection(S, T),
         \A i \in S : g[h[i]] = f[i]
  PROVE  SumOver(g, T) = SumOver(f, S)
<1> DEFINE b == [c \in Coins(f, S) |-> <<h[c[1]], c[2]>>]
<1>1. /\ h \in [S -> T] /\ \A i, j \in S : h[i] = h[j] => i = j
      /\ \A j \in T : \E i \in S : h[i] = j
  <2>1. h \in Injection(S, T) /\ h \in Surjection(S, T)
    BY DEF Bijection
  <2>2. h \in [S -> T] /\ \A i, j \in S : h[i] = h[j] => i = j
    BY <2>1 DEF Injection, IsInjective
  <2>3. \A j \in T : \E i \in S : h[i] = j
    BY <2>1 DEF Surjection
  <2>4. QED BY <2>2, <2>3
<1>2. ASSUME NEW c \in Coins(f, S)
      PROVE  /\ c = <<c[1], c[2]>> /\ c[1] \in S /\ c[2] \in 1..f[c[1]]
             /\ <<h[c[1]], c[2]>> \in Coins(g, T)
  <2>1. PICK i \in S : \E k \in 1..f[i] : c = <<i, k>>
    BY CoinsAre
  <2>2. h[i] \in T /\ g[h[i]] = f[i]
    BY <1>1
  <2>3. QED BY <2>1, <2>2, CoinsAre
<1>3. ASSUME NEW c \in Coins(f, S), NEW d \in Coins(f, S), b[c] = b[d] PROVE c = d
  <2>1. c = <<c[1], c[2]>> /\ d = <<d[1], d[2]>> /\ c[1] \in S /\ d[1] \in S
    BY <1>2
  <2>2. h[c[1]] = h[d[1]] /\ c[2] = d[2]
    BY <1>3
  <2>3. QED BY <1>1, <2>1, <2>2
<1>4. ASSUME NEW d \in Coins(g, T) PROVE \E c \in Coins(f, S) : b[c] = d
  <2>0. PICK j \in T : \E k \in 1..g[j] : d = <<j, k>>
    BY CoinsAre
  <2>1. PICK k \in 1..g[j] : d = <<j, k>>
    BY <2>0
  <2>2. PICK i \in S : h[i] = j
    BY <1>1
  <2>3. <<i, k>> \in Coins(f, S)
    BY <2>1, <2>2, CoinsAre
  <2>4. b[<<i, k>>] = d
    BY <2>1, <2>2, <2>3
  <2>5. QED BY <2>3, <2>4
<1>5. b \in [Coins(f, S) -> Coins(g, T)]
  BY <1>2
<1>6. b \in Bijection(Coins(f, S), Coins(g, T))
  <2> HIDE DEF b
  <2>1. b \in Injection(Coins(f, S), Coins(g, T))
    BY <1>3, <1>5 DEF Injection, IsInjective
  <2>2. b \in Surjection(Coins(f, S), Coins(g, T))
    BY <1>4, <1>5 DEF Surjection
  <2>3. QED BY <2>1, <2>2 DEF Bijection
<1>7. ExistsBijection(Coins(f, S), Coins(g, T))
  <2> HIDE DEF b
  <2>1. QED BY <1>6 DEF ExistsBijection
<1>8. Cardinality(Coins(g, T)) = Cardinality(Coins(f, S))
  BY <1>7, SumIsNumber, FS_Bijection
<1>9. QED BY <1>8, CoinsAre

\* Two functions that agree on a set.
LEMMA SumOfEqual ==
  ASSUME NEW f, NEW g, NEW S, \A i \in S : g[i] = f[i]
  PROVE  SumOver(g, S) = SumOver(f, S)
<1>1. Coins(g, S) = Coins(f, S)
  BY CoinsAre
<1>2. QED BY <1>1, CoinsAre

\* A sum with one term set apart.
LEMMA SumButOne ==
  ASSUME NEW f, NEW S, Counts(f, S), NEW i \in S
  PROVE  SumOver(f, S) = SumOver(f, S \ {i}) + f[i] /\ SumOver(f, S \ {i}) \in Nat
<1>1. Counts(f, S \ {i}) /\ Counts(f, {i}) /\ f[i] \in Nat
  BY FS_RemoveElement, FS_Singleton DEF Counts
<1>2. (S \ {i}) \cup {i} = S /\ (S \ {i}) \cap {i} = {}
  OBVIOUS
<1>3. SumOver(f, (S \ {i}) \cup {i}) = SumOver(f, S \ {i}) + SumOver(f, {i})
  BY <1>1, <1>2, SumOfBoth
<1>4. QED BY <1>1, <1>2, <1>3, SumOfOne, SumIsNumber

\* A sum that runs on by one.
LEMMA SumAndOneMore ==
  ASSUME NEW f, NEW i \in Nat, NEW j \in Nat, i <= j, \A k \in i..j : f[k] \in Nat
  PROVE  SumOver(f, i..j) >= f[i] /\ SumOver(f, i..j) \in Nat
<1>1. Counts(f, i..j) /\ i \in i..j
  BY FS_Interval DEF Counts
<1>2. PICK S : S = i..j
  OBVIOUS
<1>3. SumOver(f, S) = SumOver(f, S \ {i}) + f[i] /\ SumOver(f, S \ {i}) \in Nat
  BY <1>1, <1>2, SumButOne
<1>4. PICK x, y, z : x = SumOver(f, S) /\ y = SumOver(f, S \ {i}) /\ z = f[i]
  OBVIOUS
<1>5. y \in Nat /\ z \in Nat /\ x = y + z
  BY <1>1, <1>2, <1>3, <1>4
<1>6. x >= z /\ x \in Nat
  BY <1>5
<1>7. QED BY <1>2, <1>4, <1>6
-----------------------------------------------------------------------------
(* Prices and weights *)

Group == [sep : Seps, digits : Nat \ {0}]

\* The groups of a printed number.
LEMMA GroupsAre ==
  ASSUME NEW p, PrintedForm(p), NEW s, s = p.groups, NEW n, n = Len(s)
  PROVE  /\ n \in Nat /\ DOMAIN s = 1..n /\ \A i \in 1..n : s[i] \in [sep : Seps, digits : Nat \ {0}]
         /\ s \in Seq(Group)
<1>1. s \in Seq(Group)
  BY DEF PrintedForm, Group
<1>2. n \in Nat /\ DOMAIN s = 1..n /\ \A i \in 1..n : s[i] \in Group
  BY <1>1, ListIs
<1>3. QED BY <1>1, <1>2 DEF Group

\* The digits of the groups i..j are those of a printed form.
LEMMA DigitsBetween ==
  ASSUME NEW p, PrintedForm(p), NEW i \in 1..Len(p.groups)
  PROVE  /\ Len(p.groups) \in Nat /\ DOMAIN p.groups = 1..Len(p.groups)
         /\ \A j \in DOMAIN p.groups : p.groups[j].sep \in Seps /\ p.groups[j].digits \in Nat \ {0}
         /\ Between(p, i, Len(p.groups)) >= p.groups[i].digits
         /\ Between(p, i, Len(p.groups)) \in Nat
         /\ Between(p, Len(p.groups), Len(p.groups)) = p.groups[Len(p.groups)].digits
<1> DEFINE T == [sep : Seps, digits : Nat \ {0}]
           f == [k \in DOMAIN p.groups |-> p.groups[k].digits]
<1>1. PICK n, s : n = Len(p.groups) /\ s = p.groups
  OBVIOUS
<1>2. s = p.groups /\ n = Len(s)
  BY <1>1
<1>3. n \in Nat /\ DOMAIN s = 1..n
  BY <1>2, GroupsAre
<1>4. \A j \in 1..n : s[j] \in T
  BY <1>2, GroupsAre
<1>5. \A j \in 1..n : s[j].sep \in Seps /\ s[j].digits \in Nat \ {0} /\ f[j] = s[j].digits
  BY <1>1, <1>3, <1>4
<1>6. i \in Nat /\ i <= n /\ n \in 1..n
  BY <1>1, <1>3
<1>7. \A j, k \in Nat : Between(p, j, k) = SumOver(f, j..k)
  BY DEF Between
<1> HIDE DEF f, T
<1>8. \A k \in i..n : f[k] \in Nat
  BY <1>3, <1>5, <1>6
<1>9. SumOver(f, i..n) >= f[i] /\ SumOver(f, i..n) \in Nat
  BY <1>3, <1>6, <1>8, SumAndOneMore
<1>10. n..n = {n} /\ f[n] \in Nat
  BY <1>3, <1>5, <1>6
<1>11. SumOver(f, n..n) = f[n]
  BY <1>10, SumOfOne
<1>12. QED BY <1>1, <1>3, <1>5, <1>6, <1>7, <1>9, <1>11

\* A printed form of at most three digits, then groups of three, then one more
\* group behind a mark, is read as a whole.
LEMMA WholeIsMatched ==
  ASSUME NEW p, PrintedForm(p), Conventional(p), p.lead <= 3
  PROVE  Matched(p) = [lead |-> p.lead, groups |-> p.groups]
<1>1. PICK n, s : n = Len(p.groups) /\ s = p.groups
  OBVIOUS
<1>2. s = p.groups /\ n = Len(s)
  BY <1>1
<1>3. n \in Nat /\ DOMAIN s = 1..n /\ \A i \in 1..n : s[i] \in [sep : Seps, digits : Nat \ {0}]
  BY <1>2, GroupsAre
<1>4. \A i \in 1..n : s[i].digits \in Nat
  BY <1>3
<1> DEFINE full == {m \in 0..n : \A i \in 1..m : s[i].digits = 3}
           cents == n > 0 /\ s[n].digits < 3
           k == IF cents THEN n - 1 ELSE n
<1>5. k \in full /\ \A m \in full : m <= k
  <2>1. k \in 0..n /\ \A i \in 1..k : s[i].digits = 3
    BY <1>1, <1>3 DEF Conventional
  <2>2. ASSUME NEW m \in full PROVE m <= k
    <3>1. m \in 0..n /\ \A i \in 1..m : s[i].digits = 3
      OBVIOUS
    <3>2. CASE cents
      <4>1. n \in 1..n /\ s[n].digits # 3
        BY <1>3, <1>4, <3>2
      <4>2. m # n
        BY <3>1, <4>1
      <4>3. QED BY <1>3, <3>1, <3>2, <4>2
    <3>3. CASE ~cents
      BY <1>3, <3>1, <3>3
    <3>4. QED BY <3>2, <3>3
  <2>3. QED BY <2>1, <2>2
<1>6. Max(full) = k
  <2>1. \A m \in full : m \in Int
    OBVIOUS
  <2> HIDE DEF full, k
  <2>2. QED BY <1>5, <2>1 DEF Max
<1>7. cents => s[n].sep \in Marks
  BY <1>1 DEF Conventional
<1> DEFINE more == k < n /\ s[k + 1].sep \in Marks
<1>8. (IF more THEN k + 1 ELSE k) = n
  BY <1>3, <1>7
<1>9. SubSeq(s, 1, n) = s
  <2>1. s \in Seq(Group)
    BY <1>2, GroupsAre
  <2>2. QED BY <1>1, <2>1, SubSeqFull
<1>10. ~(p.lead > 3)
  BY DEF PrintedForm
<1>11. Matched(p) = [lead |-> p.lead,
                     groups |-> SubSeq(s, 1, IF more THEN k + 1 ELSE k)]
  <2> HIDE DEF k
  <2>1. QED BY <1>1, <1>6, <1>10 DEF Matched
<1>12. QED BY <1>1, <1>8, <1>9, <1>11

\* The import and the enrichment read a conventional price alike.
LEMMA PricesReadAlike ==
  ASSUME NEW p, PrintedForm(p)
  PROVE  PriceReadersAgree(p) /\ NoDigitLost(p)
<1>1. PICK n, s : n = Len(p.groups) /\ s = p.groups
  OBVIOUS
<1>2. s = p.groups /\ n = Len(s)
  BY <1>1
<1>3. n \in Nat /\ DOMAIN s = 1..n /\ \A i \in 1..n : s[i] \in [sep : Seps, digits : Nat \ {0}]
  BY <1>2, GroupsAre
<1>4. \A i \in 1..n : s[i].digits \in Nat \ {0}
  BY <1>3
<1> DEFINE m == SeparatedBy(p, Marks)
           final == Max(m)
           tail == Between(p, final, n)
           same == SeparatedBy(p, {s[final].sep})
<1>5. m \in SUBSET (1..n) /\ same \in SUBSET (1..n)
  BY <1>1, <1>3 DEF SeparatedBy
<1>6. m # {} => final \in m /\ \A i \in m : i <= final
  <2> HIDE DEF m
  <2>1. QED BY <1>3, <1>5, FirstAndLastPlace
<1>7. m # {} => /\ tail \in Nat /\ tail >= s[final].digits
               /\ Between(p, n, n) = s[n].digits
  <2> HIDE DEF m
  <2>1. ASSUME m # {} PROVE final \in 1..n
    BY <1>5, <1>6, <2>1
  <2>2. PICK l : l = final
    OBVIOUS
  <2>3. ASSUME m # {} PROVE /\ Between(p, l, n) \in Nat /\ Between(p, l, n) >= s[l].digits
                            /\ Between(p, n, n) = s[n].digits
    BY <1>1, <2>1, <2>2, <2>3, DigitsBetween
  <2>4. QED BY <2>2, <2>3
<1>8. IsFiniteSet(same) /\ Cardinality(same) \in Nat /\ (m # {} => final \in same /\ Cardinality(same) # 0)
  <2>1. m # {} => final \in same
    <3> HIDE DEF final
    <3>1. ASSUME m # {} PROVE final \in 1..n
      BY <1>5, <1>6, <3>1
    <3>2. QED BY <1>1, <1>3, <3>1 DEF SeparatedBy
  <2>2. IsFiniteSet(1..n)
    BY <1>3, FS_Interval
  <2> HIDE DEF same
  <2>3. IsFiniteSet(same)
    BY <1>5, <2>2, FS_Subset
  <2>4. QED BY <2>1, <2>3, FS_EmptySet, FS_CardinalityType
<1>9. ParseDecimal(p) = CASE m = {} -> Figure(Digits(p), 0)
        [] m # {} /\ m # same /\ Cardinality(same) > 1 -> Unreadable
        [] m # {} /\ m # same /\ Cardinality(same) = 1 -> Figure(Digits(p), tail)
        [] m # {} /\ m = same ->
             Figure(Digits(p), IF Cardinality(same) = 1 /\ tail # 3 THEN tail ELSE 0)
  BY <1>1 DEF ParseDecimal
<1> DEFINE c == Cardinality(same)
<1>10. c \in Nat /\ (m # {} => c = 1 \/ c > 1)
  BY <1>8
<1>11. NoDigitLost(p)
  <2> HIDE DEF m, final, tail, same, c
  <2>1. \A d : Figure(Digits(p), d).digits = Digits(p)
    BY DEF Figure
  <2>2. ParseDecimal(p) = Unreadable \/ \E d : ParseDecimal(p) = Figure(Digits(p), d)
    BY <1>9, <1>10 DEF c
  <2>3. QED BY <2>1, <2>2 DEF NoDigitLost
<1>12. ASSUME Conventional(p), p.lead <= 3
       PROVE  ParseDecimal(p) = Meaning(p) /\ ParsePrice(p) = Meaning(p)
  <2> DEFINE cents == n > 0 /\ s[n].digits < 3
             k == IF cents THEN n - 1 ELSE n
             used == {s[i].sep : i \in 1..k}
  <2>1. /\ \A i \in 1..k : s[i].digits = 3
        /\ Cardinality(used) <= 1
        /\ cents => s[n].sep \in Marks \ used
    BY <1>1, <1>12 DEF Conventional
  <2>2. Meaning(p) = Figure(Digits(p), IF cents THEN s[n].digits ELSE 0)
    BY <1>1 DEF Meaning
  <2>3. ParsePrice(p) = Figure(Digits(p), IF m # {} /\ tail <= 2 THEN tail ELSE 0)
    <3>1. PICK r : r = [lead |-> p.lead, groups |-> s]
      OBVIOUS
    <3>2. Matched(p) = r
      BY <1>1, <1>12, <3>1, WholeIsMatched
    <3>3. /\ SeparatedBy(r, Marks) = m /\ Digits(r) = Digits(p) /\ Len(r.groups) = n
          /\ \A i, j : Between(r, i, j) = Between(p, i, j)
      BY <1>1, <3>1 DEF SeparatedBy, Digits, Between
    <3> HIDE DEF m
    <3>4. QED BY <3>2, <3>3 DEF ParsePrice
  <2>4. CASE cents
    <3>1. n \in 1..n /\ s[n].sep \in Marks /\ s[n].sep \notin used
      BY <1>3, <2>1, <2>4
    <3>2. n \in m
      BY <1>1, <1>3, <3>1 DEF SeparatedBy
    <3>3. final = n
      <4> HIDE DEF m
      <4>1. final \in m /\ n <= final /\ final \in 1..n
        BY <1>5, <1>6, <3>2
      <4>2. QED BY <1>3, <4>1
    <3>4. tail = s[n].digits /\ s[n].digits \in Nat
      <4> HIDE DEF m
      <4>1. QED BY <1>4, <1>7, <3>1, <3>2, <3>3
    <3>5. same = {n}
      <4>1. ASSUME NEW i \in same PROVE i = n
        <5>1. i \in 1..n /\ s[i].sep = s[n].sep
          BY <1>1, <1>3, <3>3 DEF SeparatedBy
        <5>2. i \notin 1..k
          BY <3>1, <5>1
        <5>3. QED BY <1>3, <2>4, <5>1, <5>2
      <4>2. n \in same
        <5> HIDE DEF same
        <5>1. QED BY <1>8, <3>2, <3>3
      <4> HIDE DEF same
      <4>3. QED BY <4>1, <4>2
    <3>6. Cardinality(same) = 1
      BY <3>5, FS_Singleton
    <3>7. m # {}
      BY <3>2
    <3> HIDE DEF m, final, tail, same
    <3>8. s[n].digits # 3 /\ s[n].digits <= 2 /\ ~(1 > 1)
      BY <2>4, <3>4
    <3>9. ParseDecimal(p) = Figure(Digits(p), tail)
      BY <1>9, <3>4, <3>6, <3>7, <3>8
    <3>10. ParsePrice(p) = Figure(Digits(p), tail)
      BY <2>3, <3>4, <3>7, <3>8
    <3>11. QED BY <2>2, <2>4, <3>4, <3>9, <3>10
  <2>5. CASE ~cents
    <3>1. k = n /\ \A i \in 1..n : s[i].digits = 3
      BY <2>1, <2>5
    <3>2. Meaning(p) = Figure(Digits(p), 0)
      BY <2>2, <2>5
    <3>3. CASE m = {}
      <4> HIDE DEF m, tail
      <4>1. QED BY <1>9, <2>3, <3>2, <3>3
    <3>4. CASE m # {}
      <4>1. final \in m /\ final \in 1..n
        <5> HIDE DEF m
        <5>1. QED BY <1>5, <1>6, <3>4
      <4>2. tail \in Nat /\ tail >= 3
        <5> HIDE DEF m, tail, final
        <5>1. QED BY <1>7, <3>1, <3>4, <4>1
      <4>3. ParsePrice(p) = Figure(Digits(p), 0)
        <5> HIDE DEF m, tail
        <5>1. ~(tail <= 2)
          BY <4>2
        <5>2. QED BY <2>3, <5>1
      <4>4. \A i, j \in 1..n : s[i].sep = s[j].sep
        <5>1. ASSUME NEW i \in 1..n, NEW j \in 1..n PROVE s[i].sep = s[j].sep
          <6>1. s[i].sep \in used /\ s[j].sep \in used
            BY <3>1
          <6>2. used \in SUBSET Seps
            BY <1>3, <3>1
          <6>3. Seps = {"dot", "comma"} \cup {"space"}
            BY DEF Seps
          <6>4. IsFiniteSet(Seps)
            <7>1. IsFiniteSet({"dot", "comma"} \cup {"space"})
              <8>1. {"dot", "comma"} = {"dot"} \cup {"comma"}
                OBVIOUS
              <8>2. IsFiniteSet({"dot"}) /\ IsFiniteSet({"comma"}) /\ IsFiniteSet({"space"})
                BY FS_Singleton
              <8>3. QED BY <8>1, <8>2, FS_Union
            <7>2. QED BY <6>3, <7>1
          <6> HIDE DEF used
          <6>5. IsFiniteSet(used) /\ Cardinality(used) \in Nat
            BY <6>2, <6>4, FS_Subset, FS_CardinalityType
          <6>6. Cardinality(used) # 0
            BY <6>1, <6>5, FS_EmptySet
          <6>7. Cardinality(used) = 1
            BY <2>1, <6>5, <6>6
          <6>8. PICK x : used = {x}
            BY <6>5, <6>7, FS_Singleton
          <6>9. QED BY <6>1, <6>8
        <5>2. QED BY <5>1
      <4>5. m = 1..n /\ same = 1..n
        <5>1. s[final].sep \in Marks
          BY <1>1, <4>1 DEF SeparatedBy
        <5> HIDE DEF final
        <5>2. \A i \in 1..n : s[i].sep = s[final].sep /\ s[i].sep \in Marks
          BY <4>1, <4>4, <5>1
        <5>3. QED BY <1>1, <1>3, <5>2 DEF SeparatedBy
      <4>6. Cardinality(same) = 1 => tail = 3
        <5>1. ASSUME Cardinality(same) = 1 PROVE tail = 3
          <6>1. Cardinality(1..n) = n
            BY <1>3, FS_Interval
          <6>2. n = 1 /\ final = 1
            <7> HIDE DEF same, final, m
            <7>1. QED BY <1>3, <4>1, <4>5, <5>1, <6>1
          <6>3. tail = Between(p, n, n) /\ 1 \in 1..n
            BY <6>2
          <6> HIDE DEF m, tail
          <6>4. QED BY <1>7, <3>1, <3>4, <6>2, <6>3
        <5>2. QED BY <5>1
      <4>7. m = same
        BY <4>5
      <4> HIDE DEF m, same, tail
      <4>8. ParseDecimal(p) = Figure(Digits(p), 0)
        BY <1>9, <3>4, <4>6, <4>7
      <4>9. QED BY <3>2, <4>3, <4>8
    <3>5. QED BY <3>3, <3>4
  <2>6. QED BY <2>4, <2>5
<1>13. QED BY <1>11, <1>12 DEF PriceReadersAgree
\* A metric weight is read alike, whatever the number.
LEMMA WeightsReadAlike ==
  ASSUME NEW n, NEW unit
  PROVE  WeightReadersAgree(n, unit)
BY DEF WeightReadersAgree, DocumentWeight, VariantWeight

-----------------------------------------------------------------------------
(* Barcodes *)

\* One digit more or less never leaves the check digit as it was.
LEMMA DigitIsSeen ==
  ASSUME NEW r \in Nat, NEW a \in 0..9, NEW b \in 0..9, a # b, NEW w \in {1, 3}
  PROVE  Complement(r + a * w) # Complement(r + b * w)
<1>1. PICK x \in Nat, y \in Nat : x = r + a * w /\ y = r + b * w
  <2>1. r + a * w \in Nat /\ r + b * w \in Nat
    BY SMT
  <2>2. QED BY <2>1
<1>2. x % 10 # y % 10
  <2>1. CASE w = 1
    <3>1. x = r + a /\ y = r + b
      BY <1>1, <2>1
    <3>2. QED BY <3>1
  <2>2. CASE w = 3
    <3>1. x = r + 3 * a /\ y = r + 3 * b
      BY <1>1, <2>2
    <3>2. QED BY <3>1
  <2>3. QED BY <2>1, <2>2
<1>3. \A k, l \in 0..9 : (10 - k) % 10 = (10 - l) % 10 => k = l
  OBVIOUS
<1>4. x % 10 \in 0..9 /\ y % 10 \in 0..9
  BY <1>1
<1>5. QED BY <1>1, <1>2, <1>3, <1>4 DEF Complement

Weight(n, i) == IF (n - i) % 2 = 0 THEN 3 ELSE 1
Weighted(s) == [i \in DOMAIN s |-> s[i] * Weight(Len(s), i)]

\* The terms of a check digit.
LEMMA WeightedTerms ==
  ASSUME NEW s \in Seq(0..9)
  PROVE  /\ Len(s) \in Nat /\ DOMAIN s = 1..Len(s) /\ \A i \in DOMAIN s : s[i] \in 0..9
         /\ Counts(Weighted(s), DOMAIN s)
         /\ CheckDigit(s) = Complement(SumOver(Weighted(s), DOMAIN s))
         /\ CheckDigit(s) \in 0..9
<1>1. Len(s) \in Nat /\ DOMAIN s = 1..Len(s) /\ \A i \in DOMAIN s : s[i] \in 0..9
  BY LenProperties, ElementOfSeq
<1>2. IsFiniteSet(DOMAIN s)
  BY <1>1, FS_Interval
<1>3. \A i \in DOMAIN s : Weighted(s)[i] \in Nat
  <2>1. ASSUME NEW i \in DOMAIN s PROVE Weighted(s)[i] \in Nat
    <3>1. PICK a \in 0..9, w \in {1, 3} : a = s[i] /\ w = Weight(Len(s), i)
      BY <1>1 DEF Weight
    <3>2. a * w \in Nat
      BY <3>1
    <3>3. QED BY <3>1, <3>2 DEF Weighted
  <2>2. QED BY <2>1
<1>4. Counts(Weighted(s), DOMAIN s)
  BY <1>2, <1>3 DEF Counts
<1>5. CheckDigit(s) = Complement(SumOver(Weighted(s), DOMAIN s))
  BY DEF CheckDigit, Weighted, Weight
<1>6. \A k \in Nat : Complement(k) \in 0..9
  BY DEF Complement
<1>7. QED BY <1>1, <1>4, <1>5, <1>6, SumIsNumber

\* The front and the last digit of a code.
LEMMA CodeParts ==
  ASSUME NEW s \in Seq(0..9), NEW d \in 0..9
  PROVE  /\ Append(s, d) \in Seq(0..9) /\ Len(Append(s, d)) = Len(s) + 1
         /\ Front(Append(s, d)) = s /\ Last(Append(s, d)) = d
         /\ \A i \in 1..Len(s) : Append(s, d)[i] = s[i]
<1>1. PICK t, n : t = Append(s, d) /\ n = Len(s)
  OBVIOUS
<1>2. n \in Nat /\ t \in Seq(0..9) /\ Len(t) = n + 1 /\ t[n + 1] = d /\ \A i \in 1..n : t[i] = s[i]
  BY <1>1, LenProperties, AppendProperties
<1>3. /\ SubSeq(t, 1, n) \in Seq(0..9) /\ Len(SubSeq(t, 1, n)) = n
      /\ \A i \in 1..n : SubSeq(t, 1, n)[i] = t[1 + i - 1]
  <2>1. 1 \in Int /\ n \in Int /\ \A i \in 1..n : t[i] \in 0..9
    BY <1>1, <1>2, ListIs
  <2>2. PICK u : u = SubSeq(t, 1, n)
    OBVIOUS
  <2>3. u \in Seq(0..9) /\ Len(u) = (IF 1 <= n THEN n - 1 + 1 ELSE 0)
        /\ \A i \in 1..(n - 1 + 1) : u[i] = t[1 + i - 1]
    BY <2>1, <2>2, SubSeqProperties
  <2>4. n - 1 + 1 = n /\ (IF 1 <= n THEN n - 1 + 1 ELSE 0) = n
    BY <1>2
  <2>5. QED BY <2>2, <2>3, <2>4
<1>4. \A i \in 1..n : SubSeq(t, 1, n)[i] = s[i]
  <2>1. \A i \in 1..n : 1 + i - 1 = i
    BY <1>2
  <2>2. QED BY <1>2, <1>3, <2>1
<1>5. SubSeq(t, 1, n) = s
  <2>1. PICK u : u = SubSeq(t, 1, n)
    OBVIOUS
  <2>2. QED BY <1>1, <1>3, <1>4, <2>1, SeqEqual
<1>6. Len(t) - 1 = n
  BY <1>2
<1>7. QED BY <1>1, <1>2, <1>5, <1>6 DEF Front, Last

\* A wrong digit in front makes another check digit.
LEMMA WrongDigitChanges ==
  ASSUME NEW s \in Seq(0..9), NEW t \in Seq(0..9), Len(s) = Len(t), NEW i \in 1..Len(s),
         t[i] # s[i], \A j \in 1..Len(s) : j # i => t[j] = s[j]
  PROVE  CheckDigit(t) # CheckDigit(s)
<1>1. PICK S, n : S = 1..n /\ n = Len(s)
  OBVIOUS
<1>2. /\ n \in Nat /\ DOMAIN s = S /\ DOMAIN t = S /\ Len(t) = n
      /\ s[i] \in 0..9 /\ t[i] \in 0..9 /\ i \in S
      /\ Counts(Weighted(s), S) /\ Counts(Weighted(t), S)
      /\ CheckDigit(s) = Complement(SumOver(Weighted(s), S))
      /\ CheckDigit(t) = Complement(SumOver(Weighted(t), S))
  BY <1>1, WeightedTerms
<1>3. PICK f, g : f = Weighted(s) /\ g = Weighted(t)
  OBVIOUS
<1>4. \A j \in S : f[j] = s[j] * Weight(n, j) /\ g[j] = t[j] * Weight(n, j)
  BY <1>1, <1>2, <1>3 DEF Weighted
<1>5. \A j \in S \ {i} : g[j] = f[j]
  BY <1>1, <1>4
<1>6. SumOver(g, S \ {i}) = SumOver(f, S \ {i})
  BY <1>5, SumOfEqual
<1>7. /\ SumOver(f, S) = SumOver(f, S \ {i}) + f[i] /\ SumOver(f, S \ {i}) \in Nat
      /\ SumOver(g, S) = SumOver(g, S \ {i}) + g[i]
  BY <1>2, <1>3, SumButOne
<1>8. PICK r \in Nat : r = SumOver(f, S \ {i})
  BY <1>7
<1>9. PICK w \in {1, 3} : w = Weight(n, i)
  BY DEF Weight
<1>10. PICK a \in 0..9, b \in 0..9 : a = s[i] /\ b = t[i]
  BY <1>2
<1>11. f[i] = a * w /\ g[i] = b * w
  BY <1>2, <1>4, <1>9, <1>10
<1>12. CheckDigit(s) = Complement(r + a * w) /\ CheckDigit(t) = Complement(r + b * w)
  BY <1>2, <1>3, <1>6, <1>7, <1>8, <1>11
<1>13. QED BY <1>10, <1>12, DigitIsSeen

\* Zeros in front count for nothing.
LEMMA ZeroInFront ==
  ASSUME NEW s \in Seq(0..9), NEW t \in Seq(0..9), Len(t) = Len(s) + 1, t[1] = 0,
         \A j \in 1..Len(s) : t[j + 1] = s[j]
  PROVE  CheckDigit(t) = CheckDigit(s)
<1>1. PICK n : n = Len(s)
  OBVIOUS
<1>2. /\ n \in Nat /\ DOMAIN s = 1..n /\ DOMAIN t = 1..(n + 1)
      /\ Counts(Weighted(s), 1..n) /\ Counts(Weighted(t), 1..(n + 1))
      /\ CheckDigit(s) = Complement(SumOver(Weighted(s), 1..n))
      /\ CheckDigit(t) = Complement(SumOver(Weighted(t), 1..(n + 1)))
  BY <1>1, WeightedTerms
<1>3. PICK f, g, S, T, W : f = Weighted(s) /\ g = Weighted(t) /\ S = 1..n /\ W = 1..(n + 1) /\ T = 2..(n + 1)
  OBVIOUS
<1>4. \A j \in S : j + 1 \in T /\ g[j + 1] = f[j]
  <2>1. ASSUME NEW j \in S PROVE j + 1 \in T /\ g[j + 1] = f[j]
    <3>1. j \in 1..n /\ j + 1 \in 1..(n + 1) /\ j + 1 \in 2..(n + 1) /\ j \in Int
      BY <1>2, <1>3
    <3>2. (n + 1) - (j + 1) = n - j
      BY <1>2, <3>1
    <3>3. Weight(n + 1, j + 1) = Weight(n, j)
      BY <3>2 DEF Weight
    <3>4. f[j] = s[j] * Weight(n, j) /\ g[j + 1] = t[j + 1] * Weight(n + 1, j + 1)
      BY <1>1, <1>2, <1>3, <3>1 DEF Weighted
    <3>5. QED BY <1>1, <1>3, <3>1, <3>3, <3>4
  <2>2. QED BY <2>1
<1>5. PICK h : h = [j \in S |-> j + 1]
  OBVIOUS
<1>6. h \in Bijection(S, T)
  <2>1. h \in [S -> T] /\ S \subseteq Int
    BY <1>3, <1>4, <1>5
  <2>2. \A j, k \in S : h[j] = h[k] => j = k
    BY <1>5, <2>1
  <2>3. \A k \in T : \E j \in S : h[j] = k
    <3>1. ASSUME NEW k \in T PROVE \E j \in S : h[j] = k
      <4>1. k - 1 \in S /\ (k - 1) + 1 = k
        BY <1>2, <1>3
      <4>2. QED BY <1>5, <4>1
    <3>2. QED BY <3>1
  <2>4. h \in Injection(S, T)
    BY <2>1, <2>2 DEF Injection, IsInjective
  <2>5. h \in Surjection(S, T)
    BY <2>1, <2>3 DEF Surjection
  <2>6. QED BY <2>4, <2>5 DEF Bijection
<1>7. \A j \in S : g[h[j]] = f[j]
  BY <1>4, <1>5
<1>8. SumOver(g, T) = SumOver(f, S)
  BY <1>2, <1>3, <1>6, <1>7, SumOfSame
<1>9. 1 \in W /\ W \ {1} = T
  BY <1>2, <1>3
<1>10. SumOver(g, W) = SumOver(g, T) + g[1]
  <2>1. Counts(g, W) /\ 1 \in W
    BY <1>2, <1>3, <1>9
  <2>2. SumOver(g, W) = SumOver(g, W \ {1}) + g[1]
    BY <2>1, SumButOne
  <2>3. QED BY <1>9, <2>2
<1>11. g[1] = 0
  <2>1. g[1] = t[1] * Weight(Len(t), 1)
    BY <1>2, <1>3, <1>9 DEF Weighted
  <2>2. \A w \in {1, 3} : 0 * w = 0
    OBVIOUS
  <2>3. Weight(Len(t), 1) \in {1, 3}
    BY DEF Weight
  <2>4. QED BY <2>1, <2>2, <2>3
<1>12. SumOver(f, S) \in Nat
  BY <1>2, <1>3, SumIsNumber
<1>13. SumOver(g, W) = SumOver(f, S)
  BY <1>8, <1>10, <1>11, <1>12
<1>14. QED BY <1>2, <1>3, <1>13

\* A code with its check digit is valid, shows any wrong digit, is valid with a zero in
\* front, and is so for both validations.
LEMMA CodesAreChecked ==
  ASSUME NEW payload \in Seq(0..9), Len(payload) \in {7, 11, 12, 13}
  PROVE  BarcodeChecked(payload)
<1>1. PICK n, c, code : n = Len(payload) /\ c = CheckDigit(payload) /\ code = Append(payload, c)
  OBVIOUS
<1>2. /\ n \in {7, 11, 12, 13} /\ c \in 0..9 /\ DOMAIN payload = 1..n
      /\ \A i \in 1..n : payload[i] \in 0..9
  BY <1>1, WeightedTerms
<1>3. /\ code \in Seq(0..9) /\ Len(code) = n + 1 /\ Front(code) = payload /\ Last(code) = c
      /\ \A i \in 1..n : code[i] = payload[i]
  BY <1>1, <1>2, CodeParts
<1>4. code[n + 1] = c /\ DOMAIN code = 1..(n + 1)
  BY <1>3, LenProperties DEF Last
<1>5. BarcodeIsValid(code)
  <2>1. n + 1 \in {8, 12, 13, 14}
    BY <1>2
  <2>2. Len(code) \in {8, 12, 13, 14} /\ CheckDigit(Front(code)) = Last(code)
    BY <1>1, <1>3, <2>1
  <2>3. QED BY <2>2 DEF BarcodeIsValid
<1>6. ASSUME NEW i \in DOMAIN code, NEW d \in 0..9, d # code[i]
      PROVE  ~BarcodeIsValid([code EXCEPT ![i] = d])
  <2>1. PICK t : t = [code EXCEPT ![i] = d]
    OBVIOUS
  <2>2. t \in Seq(0..9) /\ Len(t) = n + 1 /\ \A j \in 1..(n + 1) : t[j] = IF j = i THEN d ELSE code[j]
    BY <1>3, <1>4, <2>1, ExceptSeq
  <2>3. Last(t) = t[n + 1]
    BY <2>2 DEF Last
  <2>4. PICK u, e : e = t[n + 1] /\ u = [j \in 1..n |-> t[j]]
    OBVIOUS
  <2>5. e \in 0..9 /\ \A j \in 1..n : t[j] \in 0..9 /\ u[j] = t[j]
    <3>1. n + 1 \in 1..(n + 1) /\ \A j \in 1..n : j \in 1..(n + 1)
      BY <1>2
    <3>2. \A j \in 1..(n + 1) : t[j] \in 0..9
      BY <2>2, ListIs
    <3>3. QED BY <2>4, <3>1, <3>2
  <2>6. u \in Seq(0..9) /\ Len(u) = n
    BY <1>2, <2>4, <2>5
  <2>7. t = Append(u, e)
    <3>1. Append(u, e) \in Seq(0..9) /\ Len(Append(u, e)) = n + 1 /\ Append(u, e)[n + 1] = e
          /\ \A j \in 1..n : Append(u, e)[j] = u[j]
      BY <2>5, <2>6, AppendProperties
    <3>2. \A j \in 1..(n + 1) : j \in 1..n \/ j = n + 1
      BY <1>2
    <3>3. \A j \in 1..(n + 1) : t[j] = Append(u, e)[j]
      BY <2>4, <2>5, <3>1, <3>2
    <3>4. PICK v : v = Append(u, e)
      OBVIOUS
    <3>5. QED BY <2>2, <3>1, <3>3, <3>4, SeqEqual
  <2>8. Front(t) = u /\ Last(t) = e
    BY <2>5, <2>6, <2>7, CodeParts
  <2>9. CheckDigit(u) # e
    <3>1. CASE i = n + 1
      <4>1. e = d /\ d # c
        BY <1>2, <1>4, <1>6, <2>2, <2>4, <3>1
      <4>2. \A j \in 1..n : u[j] = payload[j]
        BY <1>2, <1>3, <2>2, <2>5, <3>1
      <4>3. u = payload
        BY <1>1, <2>6, <4>2, SeqEqual
      <4>4. QED BY <1>1, <4>1, <4>3
    <3>2. CASE i # n + 1
      <4>1. i \in 1..n /\ e = c
        BY <1>2, <1>4, <2>2, <2>4, <3>2
      <4>2. u[i] # payload[i] /\ \A j \in 1..n : j # i => u[j] = payload[j]
        BY <1>2, <1>3, <1>6, <2>2, <2>5, <4>1
      <4>3. CheckDigit(u) # CheckDigit(payload)
        BY <1>1, <2>6, <4>1, <4>2, WrongDigitChanges
      <4>4. QED BY <1>1, <4>1, <4>3
    <3>3. QED BY <3>1, <3>2
  <2>10. QED BY <2>1, <2>8, <2>9 DEF BarcodeIsValid
<1>7. ASSUME Len(code) \in {12, 13} PROVE BarcodeIsValid(<<0>> \o code)
  <2>1. PICK z, w : z = <<0>> \o code /\ w = <<0>> \o payload
    OBVIOUS
  <2>2. <<0>> \in Seq(0..9) /\ Len(<<0>>) = 1 /\ <<0>>[1] = 0
    OBVIOUS
  <2>3. /\ z \in Seq(0..9) /\ Len(z) = n + 2
        /\ \A i \in 1..(n + 2) : z[i] = IF i <= 1 THEN <<0>>[i] ELSE code[i - 1]
    <3>1. PICK o : o = <<0>>
      OBVIOUS
    <3>2. o \o code \in Seq(0..9) /\ Len(o \o code) = 1 + (n + 1)
          /\ \A i \in 1..(1 + (n + 1)) : (o \o code)[i] = IF i <= 1 THEN o[i] ELSE code[i - 1]
      BY <1>3, <2>2, <3>1, ConcatProperties
    <3>3. 1 + (n + 1) = n + 2
      BY <1>2
    <3>4. QED BY <2>1, <3>1, <3>2, <3>3
  <2>4. /\ w \in Seq(0..9) /\ Len(w) = n + 1
        /\ \A i \in 1..(n + 1) : w[i] = IF i <= 1 THEN <<0>>[i] ELSE payload[i - 1]
    <3>1. PICK o : o = <<0>>
      OBVIOUS
    <3>2. o \o payload \in Seq(0..9) /\ Len(o \o payload) = 1 + n
          /\ \A i \in 1..(1 + n) : (o \o payload)[i] = IF i <= 1 THEN o[i] ELSE payload[i - 1]
      BY <1>1, <2>2, <3>1, ConcatProperties
    <3>3. 1 + n = n + 1
      BY <1>2
    <3>4. QED BY <2>1, <3>1, <3>2, <3>3
  <2>5. w[1] = 0 /\ \A j \in 1..n : w[j + 1] = payload[j]
    <3>1. w[1] = 0
      BY <1>2, <2>2, <2>4
    <3>2. \A j \in 1..n : j + 1 \in 1..(n + 1) /\ ~(j + 1 <= 1) /\ j + 1 - 1 = j
      BY <1>2
    <3>3. QED BY <2>4, <3>1, <3>2
  <2>6. CheckDigit(w) = c
    BY <1>1, <2>4, <2>5, ZeroInFront
  <2>7. z = Append(w, c)
    <3>1. PICK v : v = Append(w, c)
      OBVIOUS
    <3>2. v \in Seq(0..9) /\ Len(v) = n + 1 + 1 /\ v[n + 1 + 1] = c /\ \A i \in 1..(n + 1) : v[i] = w[i]
      BY <1>2, <2>4, <3>1, AppendProperties
    <3>3. n + 1 + 1 = n + 2 /\ n + 2 - 1 = n + 1 /\ n + 2 \in 1..(n + 2) /\ ~(n + 2 <= 1)
      BY <1>2
    <3>4. z[n + 2] = v[n + 2]
      <4>1. z[n + 2] = code[n + 1]
        <5>1. PICK m : m = n + 2
          OBVIOUS
        <5>2. m \in 1..(n + 2) /\ ~(m <= 1)
          BY <3>3, <5>1
        <5>3. z[m] = code[m - 1]
          BY <2>3, <5>2
        <5>4. m - 1 = n + 1
          BY <1>2, <5>1
        <5>5. QED BY <5>1, <5>3, <5>4
      <4>2. v[n + 1 + 1] = v[n + 2]
        BY <3>3
      <4>3. QED BY <1>4, <3>2, <4>1, <4>2
    <3>5. ASSUME NEW i \in 1..(n + 1) PROVE z[i] = v[i]
      <4>1. i \in 1..(n + 2) /\ (~(i <= 1) => i - 1 \in 1..n)
        BY <1>2
      <4>2. v[i] = IF i <= 1 THEN <<0>>[i] ELSE payload[i - 1]
        BY <2>4, <3>2
      <4>3. z[i] = IF i <= 1 THEN <<0>>[i] ELSE code[i - 1]
        BY <2>3, <4>1
      <4>4. ~(i <= 1) => code[i - 1] = payload[i - 1]
        BY <1>3, <4>1
      <4>5. QED BY <4>2, <4>3, <4>4
    <3>6. \A i \in 1..(n + 2) : i \in 1..(n + 1) \/ i = n + 2
      BY <1>2
    <3>7. \A i \in 1..(n + 2) : z[i] = v[i]
      BY <3>4, <3>5, <3>6
    <3>8. Len(z) = Len(v)
      BY <2>3, <3>2, <3>3
    <3>9. z = v
      BY <2>3, <3>2, <3>7, <3>8, SeqEqual
    <3>10. QED BY <3>1, <3>9
  <2>8. Front(z) = w /\ Last(z) = c
    BY <1>2, <2>4, <2>7, CodeParts
  <2>9. n + 2 \in {8, 12, 13, 14}
    BY <1>2, <1>3, <1>7
  <2>10. BarcodeIsValid(z)
    BY <2>3, <2>6, <2>8, <2>9 DEF BarcodeIsValid
  <2>11. QED BY <2>1, <2>10
<1>8. ASSUME Len(code) = 13, NEW d \in 0..9
      PROVE  BarcodeIsValid(Append(payload, d)) <=> Ean13IsValid(Append(payload, d))
  <2>1. n = 12
    <3>1. n \in Nat
      BY <1>2
    <3>2. Len(code) = n + 1 /\ Len(code) = 13
      BY <1>3, <1>8
    <3>3. n + 1 = 13
      BY <3>2
    <3>4. QED BY <3>1, <3>3
  <2>2. PICK t : t = Append(payload, d)
    OBVIOUS
  <2>3. /\ t \in Seq(0..9) /\ Len(t) = 13 /\ Front(t) = payload /\ Last(t) = d
        /\ \A i \in 1..12 : t[i] = payload[i]
    <3>1. /\ t \in Seq(0..9) /\ Len(t) = n + 1 /\ Front(t) = payload /\ Last(t) = d
          /\ \A i \in 1..n : t[i] = payload[i]
      BY <1>1, <2>2, CodeParts
    <3>2. 12 + 1 = 13
      OBVIOUS
    <3>3. QED BY <2>1, <3>1, <3>2
  <2>4. t[13] = d
    BY <2>3 DEF Last
  <2>5. PICK f, g : f = Weighted(payload)
                    /\ g = [i \in 1..12 |-> t[i] * (IF i % 2 = 1 THEN 1 ELSE 3)]
    OBVIOUS
  <2>6. \A i \in 1..12 : g[i] = f[i]
    <3>1. ASSUME NEW i \in 1..12 PROVE g[i] = f[i]
      <4>1. (i % 2 = 1 /\ (12 - i) % 2 # 0) \/ (i % 2 # 1 /\ (12 - i) % 2 = 0)
        OBVIOUS
      <4>2. (IF i % 2 = 1 THEN 1 ELSE 3) = Weight(12, i)
        BY <4>1 DEF Weight
      <4>3. f[i] = payload[i] * Weight(12, i)
        BY <1>1, <1>2, <2>1, <2>5 DEF Weighted
      <4>4. QED BY <2>3, <2>5, <4>2, <4>3
    <3>2. QED BY <3>1
  <2>7. SumOver(g, 1..12) = SumOver(f, 1..12)
    BY <2>6, SumOfEqual
  <2>8. CheckDigit(payload) = Complement(SumOver(g, 1..12))
    BY <1>1, <1>2, <2>1, <2>5, <2>7, WeightedTerms
  <2>9. Ean13IsValid(t) <=> d = Complement(SumOver(g, 1..12))
    BY <2>3, <2>4, <2>5 DEF Ean13IsValid
  <2>10. BarcodeIsValid(t) <=> CheckDigit(payload) = d
    BY <2>3 DEF BarcodeIsValid
  <2>11. QED BY <2>2, <2>8, <2>9, <2>10
<1>9. QED BY <1>1, <1>5, <1>6, <1>7, <1>8 DEF BarcodeChecked
-----------------------------------------------------------------------------
(* What the model answers, and what is left of it *)

\* A variant of the answer: where there is nothing, the confidence says so, and no
\* field is found before it is looked for.
Answered(v) ==
  /\ v = [value |-> v.value, conf |-> v.conf]
  /\ v.conf = [f \in Fields |-> v.conf[f]]
  /\ \A f \in Fields : v.value[f] = NoValue => v.conf[f] \in {NoValue, "zero"}
  /\ \A f \in Fields : v.conf[f] # "one"

\* What is made of the answer is so, however sure the model is.
LEMMA AnswersAre ==
  ASSUME NEW raw, NEW c, c \notin {"zero", "one"}
  PROVE  Answered(ToVariant(raw, [f \in Fields |-> c]))
<1>1. PICK conf : conf = [f \in Fields |-> c]
  OBVIOUS
<1>2. PICK v : v = ToVariant(raw, conf)
  OBVIOUS
<1> DEFINE value == [f \in Fields |-> IF raw[f] = "illegible" THEN NoValue ELSE raw[f]]
           sure == [f \in Fields |-> IF raw[f] = "illegible" /\ f # "quantity" THEN "zero"
                                     ELSE Kept(conf, value)[f]]
<1>3. v = [value |-> value, conf |-> sure]
  BY <1>2 DEF ToVariant
<1>4. \A f \in Fields : Kept(conf, value)[f] = IF value[f] = NoValue THEN NoValue ELSE c
  BY <1>1 DEF Kept
<1>5. \A f \in Fields : sure[f] \in {"zero", NoValue} \/ (sure[f] = c /\ value[f] # NoValue)
  BY <1>4
<1>6. v.value = value /\ v.conf = sure /\ v = [value |-> v.value, conf |-> v.conf]
  BY <1>3
<1>7. sure = [f \in Fields |-> sure[f]]
  OBVIOUS
<1>8. NoValue # "one"
  BY DEF NoValue
<1> HIDE DEF value, sure
<1>9. QED BY <1>1, <1>2, <1>5, <1>6, <1>7, <1>8 DEF Answered

\* What a check leaves of a variant: what it has not taken out, as it was.
LEMMA ChecksLeave ==
  ASSUME NEW v, Answered(v), NEW F, NEW G
  PROVE  /\ \A f \in Fields : /\ TakeOut(Confirm(v, F), G).value[f]
                                    = IF f \in G THEN NoValue ELSE v.value[f]
                              /\ TakeOut(Confirm(v, F), G).conf[f]
                                    = IF f \in G THEN "zero" ELSE IF f \in F THEN "one" ELSE v.conf[f]
         /\ Confirm(v, {}) = v
<1>1. PICK a, b : v = [value |-> a, conf |-> b] /\ a = v.value /\ b = v.conf
                  /\ b = [f \in Fields |-> b[f]]
  BY DEF Answered
<1>2. \A H : Confirm(v, H) = [value |-> a, conf |-> [f \in Fields |-> IF f \in H THEN "one" ELSE b[f]]]
  BY <1>1 DEF Confirm
<1>3. Confirm(v, {}) = [value |-> a, conf |-> [f \in Fields |-> b[f]]]
  BY <1>2
<1>4. Confirm(v, {}) = v
  BY <1>1, <1>3
<1>5. PICK u : u = Confirm(v, F)
  OBVIOUS
<1>6. u.value = a /\ \A f \in Fields : u.conf[f] = IF f \in F THEN "one" ELSE b[f]
  BY <1>2, <1>5
<1>7. \A f \in Fields : /\ TakeOut(u, G).value[f] = IF f \in G THEN NoValue ELSE u.value[f]
                        /\ TakeOut(u, G).conf[f] = IF f \in G THEN "zero" ELSE u.conf[f]
  BY DEF TakeOut
<1>8. QED BY <1>1, <1>4, <1>5, <1>6, <1>7

\* A lot, and the kinds of its files.
IsLot(docs) == docs \in Seq(Documents) /\ docs # <<>>

\* The files of a lot, and the lot of one.
LEMMA LotsAre ==
  ASSUME NEW docs, IsLot(docs)
  PROVE  /\ Len(docs) \in Nat \ {0} /\ DOMAIN docs = 1..Len(docs)
         /\ \A i \in DOMAIN docs : docs[i] \in Documents /\ docs[i].kind \in {"tabular", "pdf"}
         /\ Len(docs) = 1 => docs = <<docs[1]>>
<1>1. docs \in Seq(Documents) /\ docs # <<>>
  BY DEF IsLot
<1>2. /\ Len(docs) \in Nat \ {0} /\ DOMAIN docs = 1..Len(docs)
      /\ \A i \in DOMAIN docs : docs[i] \in Documents
  BY <1>1, LenProperties, ElementOfSeq, EmptySeq
<1>3. \A i \in DOMAIN docs : docs[i].kind \in {"tabular", "pdf"}
  BY <1>2, ImportAssumption DEF ImportAssumption
<1>4. ASSUME Len(docs) = 1 PROVE docs = <<docs[1]>>
  <2>1. docs[1] \in Documents
    BY <1>2, <1>4
  <2>2. PICK s : s = <<docs[1]>>
    OBVIOUS
  <2>3. s \in Seq(Documents) /\ Len(s) = 1 /\ s[1] = docs[1]
    BY <2>1, <2>2
  <2>4. \A i \in 1..1 : docs[i] = s[i]
    BY <2>3
  <2>5. QED BY <1>1, <1>4, <2>2, <2>3, <2>4, SeqEqual
<1>5. QED BY <1>2, <1>3, <1>4

\* A lone file is checked as a lot of one.
LEMMA LotsOfOneAgree ==
  ASSUME NEW d, d.kind \in {"tabular", "pdf"}, NEW v, Answered(v), NEW valid
  PROVE  LotOfOneAgrees(d, v, valid)
<1>1. PICK docs : docs = <<d>>
  OBVIOUS
<1>2. DOMAIN docs = {1} /\ docs[1] = d
  BY <1>1
<1>3. PICK cells : cells = CellsOf(docs)
  OBVIOUS
<1>4. CASE d.kind = "tabular"
  <2>1. Tabular(docs) # {} /\ ~(\E i \in DOMAIN docs : docs[i].kind = "pdf")
    BY <1>2, <1>4 DEF Tabular
  <2>2. CrossCheck(docs, v, valid)
          = TakeOut(Confirm(v, Found(v, {"ean"} \cup Prices, cells)),
                    Absent(v, {"ean"}, cells \cup {}) \cup Absent(v, Prices, cells))
    BY <1>3, <2>1 DEF CrossCheck
  <2>3. Absent(v, {"ean"}, cells \cup {}) \cup Absent(v, Prices, cells) = Absent(v, Checked, cells)
    BY DEF Absent, Checked
  <2>4. CrossCheckOne(d, v, valid)
          = TakeOut(Confirm(v, Found(v, Checked, cells)), Absent(v, Checked, cells))
    BY <1>1, <1>3, <1>4 DEF CrossCheckOne
  <2>5. QED BY <1>1, <2>2, <2>3, <2>4 DEF LotOfOneAgrees, Checked
<1>5. CASE d.kind = "pdf"
  <2>1. Tabular(docs) = {} /\ \E i \in DOMAIN docs : docs[i].kind = "pdf"
    BY <1>2, <1>5 DEF Tabular
  <2>2. cells = {}
    BY <1>3, <2>1 DEF CellsOf
  <2>3. CrossCheck(docs, v, valid)
          = TakeOut(Confirm(v, Found(v, {"ean"} \cup {}, cells)),
                    Absent(v, {"ean"}, cells \cup valid) \cup Absent(v, {}, cells))
    BY <1>3, <2>1 DEF CrossCheck
  <2>4. /\ Found(v, {"ean"} \cup {}, cells) = {}
        /\ Absent(v, {"ean"}, cells \cup valid) \cup Absent(v, {}, cells) = Absent(v, {"ean"}, valid)
    BY <2>2 DEF Found, Absent
  <2>5. Confirm(v, {}) = v
    BY ChecksLeave
  <2>6. CrossCheckOne(d, v, valid) = TakeOut(v, Absent(v, {"ean"}, valid))
    BY <1>5 DEF CrossCheckOne
  <2>7. QED BY <1>1, <2>3, <2>4, <2>5, <2>6 DEF LotOfOneAgrees
<1>6. QED BY <1>4, <1>5

\* So a lot is checked by one rule, whatever its length.
LEMMA OneRule ==
  ASSUME NEW docs, IsLot(docs), NEW v, Answered(v), NEW valid
  PROVE  Check(docs, v, valid) = CrossCheck(docs, v, valid)
<1>1. CASE Len(docs) = 1
  <2>1. PICK d : d = docs[1]
    OBVIOUS
  <2>2. docs = <<d>> /\ d.kind \in {"tabular", "pdf"}
    BY <1>1, <2>1, LotsAre
  <2>3. CrossCheck(<<d>>, v, valid) = CrossCheckOne(d, v, valid)
    BY <2>2, LotsOfOneAgree DEF LotOfOneAgrees
  <2>4. QED BY <1>1, <2>1, <2>2, <2>3 DEF Check
<1>2. CASE Len(docs) # 1
  BY <1>2 DEF Check
<1>3. QED BY <1>1, <1>2

\* What the check of a lot takes out, and confirms.
HasPdf(docs) == \E i \in DOMAIN docs : docs[i].kind = "pdf"
PricesOf(docs) == IF Tabular(docs) = {} THEN {} ELSE Prices
Confirmed(docs, v) == Found(v, {"ean"} \cup PricesOf(docs), CellsOf(docs))
Struck(docs, v, valid) ==
  Absent(v, {"ean"}, CellsOf(docs) \cup (IF HasPdf(docs) THEN valid ELSE {}))
  \cup Absent(v, PricesOf(docs), CellsOf(docs))

\* One rule for every lot: the value and the confidence it leaves in each field.
LEMMA RuleIs ==
  ASSUME NEW docs, NEW v, Answered(v), NEW valid, NEW r, r = CrossCheck(docs, v, valid)
  PROVE  /\ \A f \in Fields :
              /\ r.value[f] = IF f \in Struck(docs, v, valid) THEN NoValue ELSE v.value[f]
              /\ r.conf[f] = IF f \in Struck(docs, v, valid) THEN "zero"
                             ELSE IF f \in Confirmed(docs, v) THEN "one" ELSE v.conf[f]
         /\ "ean" \in Struck(docs, v, valid) <=>
              /\ v.value["ean"] # NoValue /\ v.value["ean"] \notin CellsOf(docs)
              /\ ~(HasPdf(docs) /\ v.value["ean"] \in valid)
         /\ \A f \in Prices : f \in Struck(docs, v, valid) <=>
              Tabular(docs) # {} /\ v.value[f] # NoValue /\ v.value[f] \notin CellsOf(docs)
         /\ \A f \in Confirmed(docs, v) : v.value[f] \in CellsOf(docs)
<1>1. CrossCheck(docs, v, valid) = TakeOut(Confirm(v, Confirmed(docs, v)), Struck(docs, v, valid))
  BY DEF CrossCheck, Confirmed, Struck, HasPdf, PricesOf
<1>2. PICK F, G : F = Confirmed(docs, v) /\ G = Struck(docs, v, valid)
  OBVIOUS
<1>3. \A f \in Fields : /\ r.value[f] = IF f \in G THEN NoValue ELSE v.value[f]
                        /\ r.conf[f] = IF f \in G THEN "zero" ELSE IF f \in F THEN "one" ELSE v.conf[f]
  BY <1>1, <1>2, ChecksLeave
<1>4. "ean" \notin Prices
  BY DEF Prices
<1>5. /\ "ean" \in Struck(docs, v, valid) <=>
           /\ v.value["ean"] # NoValue /\ v.value["ean"] \notin CellsOf(docs)
           /\ ~(HasPdf(docs) /\ v.value["ean"] \in valid)
      /\ \A f \in Prices : f \in Struck(docs, v, valid) <=>
           Tabular(docs) # {} /\ v.value[f] # NoValue /\ v.value[f] \notin CellsOf(docs)
  BY <1>4 DEF Struck, Absent, PricesOf
<1>6. \A f \in Confirmed(docs, v) : v.value[f] \in CellsOf(docs)
  BY DEF Confirmed, Found
<1>7. QED BY <1>2, <1>3, <1>5, <1>6

\* Nothing the model made up is left by the check of any lot.
LEMMA NothingIsInvented ==
  ASSUME NEW docs, IsLot(docs), NEW raw, NEW c, c \notin {"zero", "one"}, NEW valid
  PROVE  NothingInvented(docs, raw, [f \in Fields |-> c], valid)
<1>1. PICK conf : conf = [f \in Fields |-> c]
  OBVIOUS
<1>2. PICK v, r : v = ToVariant(raw, conf) /\ r = Check(docs, v, valid)
  OBVIOUS
<1>3. Answered(v)
  BY <1>1, <1>2, AnswersAre
<1>4. r = CrossCheck(docs, v, valid)
  BY <1>2, <1>3, OneRule
<1>5. PICK cells : cells = CellsOf(docs)
  OBVIOUS
<1>6. PICK F, G : F = Confirmed(docs, v) /\ G = Struck(docs, v, valid)
  OBVIOUS
<1>7. /\ \A f \in Fields : /\ r.value[f] = IF f \in G THEN NoValue ELSE v.value[f]
                           /\ r.conf[f] = IF f \in G THEN "zero" ELSE IF f \in F THEN "one" ELSE v.conf[f]
      /\ "ean" \in G <=> /\ v.value["ean"] # NoValue /\ v.value["ean"] \notin cells
                         /\ ~(HasPdf(docs) /\ v.value["ean"] \in valid)
      /\ \A f \in Prices : f \in G <=>
           Tabular(docs) # {} /\ v.value[f] # NoValue /\ v.value[f] \notin cells
      /\ \A f \in F : v.value[f] \in cells
  BY <1>3, <1>4, <1>5, <1>6, RuleIs
<1>8. "ean" \in Fields /\ Prices \subseteq Fields /\ Checked \subseteq Fields
  BY DEF Fields, Checked
<1>9. r.value["ean"] # NoValue => \/ r.value["ean"] \in cells
                                  \/ r.value["ean"] \in valid /\ HasPdf(docs)
  BY <1>7, <1>8
<1>10. Tabular(docs) # {} => \A f \in Prices : r.value[f] \in cells \cup {NoValue}
  BY <1>7, <1>8
<1>11. ASSUME NEW f \in Fields
       PROVE  /\ r.conf[f] = "one" => r.value[f] \in cells
              /\ r.value[f] = NoValue => r.conf[f] \in {NoValue, "zero"} \/ f \in F
  <2>1. v.conf[f] # "one" /\ (v.value[f] = NoValue => v.conf[f] \in {NoValue, "zero"})
    BY <1>3 DEF Answered
  <2>2. QED BY <1>7, <2>1
<1>12. \A f \in F : f \notin G => r.value[f] # NoValue
  BY <1>6, <1>7, <1>8 DEF Confirmed, Found, PricesOf, Fields, Checked, Prices
<1>13. ASSUME NEW f \in Fields, r.value[f] = NoValue PROVE r.conf[f] \in {NoValue, "zero"}
  <2>1. CASE f \in G
    BY <1>7, <2>1
  <2>2. CASE f \notin G
    BY <1>11, <1>12, <1>13, <2>2
  <2>3. QED BY <2>1, <2>2
<1>14. \A f \in Checked : r.conf[f] = "one" => r.value[f] \in cells
  BY <1>8, <1>11
<1>15. QED BY <1>1, <1>2, <1>5, <1>9, <1>10, <1>13, <1>14 DEF NothingInvented, HasPdf

\* A file more keeps what was kept.
LEMMA MoreIsKept ==
  ASSUME NEW docs, IsLot(docs), NEW d \in Documents, NEW v, Answered(v), NEW valid
  PROVE  MoreFilesKeepMore(docs, d, v, valid)
<1>1. PICK more, n : more = Append(docs, d) /\ n = Len(docs)
  OBVIOUS
<1>2. n \in Nat /\ DOMAIN docs = 1..n
  BY <1>1, LotsAre
<1>3. more \in Seq(Documents) /\ more # <<>> /\ Len(more) = n + 1 /\ \A i \in 1..n : more[i] = docs[i]
  BY <1>1, AppendProperties DEF IsLot
<1>4. IsLot(more) /\ DOMAIN more = 1..(n + 1)
  BY <1>3, LenProperties DEF IsLot
<1>5. \A i \in DOMAIN docs : i \in DOMAIN more /\ more[i] = docs[i]
  BY <1>2, <1>3, <1>4
<1>6. Tabular(docs) \subseteq Tabular(more) /\ (HasPdf(docs) => HasPdf(more))
  BY <1>5 DEF Tabular, HasPdf
<1>7. CellsOf(docs) \subseteq CellsOf(more)
  <2>1. \A i \in Tabular(docs) : UNION Range(docs[i].rows) = UNION Range(more[i].rows)
    BY <1>5 DEF Tabular
  <2>2. QED BY <1>6, <2>1 DEF CellsOf
<1>8. PICK one, two : one = Check(docs, v, valid) /\ two = Check(more, v, valid)
  OBVIOUS
<1>9. one = CrossCheck(docs, v, valid) /\ two = CrossCheck(more, v, valid)
  BY <1>4, <1>8, OneRule
<1>10. PICK G, H, cells, wider : /\ G = Struck(docs, v, valid) /\ H = Struck(more, v, valid)
                                 /\ cells = CellsOf(docs) /\ wider = CellsOf(more)
  OBVIOUS
<1>11. /\ \A f \in Fields : one.value[f] = IF f \in G THEN NoValue ELSE v.value[f]
       /\ "ean" \in G <=> /\ v.value["ean"] # NoValue /\ v.value["ean"] \notin cells
                          /\ ~(HasPdf(docs) /\ v.value["ean"] \in valid)
       /\ \A f \in Prices : f \in G <=>
            Tabular(docs) # {} /\ v.value[f] # NoValue /\ v.value[f] \notin cells
  BY <1>9, <1>10, RuleIs
<1>12. /\ \A f \in Fields : two.value[f] = IF f \in H THEN NoValue ELSE v.value[f]
       /\ "ean" \in H <=> /\ v.value["ean"] # NoValue /\ v.value["ean"] \notin wider
                          /\ ~(HasPdf(more) /\ v.value["ean"] \in valid)
       /\ \A f \in Prices : f \in H <=>
            Tabular(more) # {} /\ v.value[f] # NoValue /\ v.value[f] \notin wider
  BY <1>9, <1>10, RuleIs
<1>13. Checked \subseteq Fields /\ Checked = {"ean"} \cup Prices
  BY DEF Fields, Checked
<1>14. ASSUME NEW f \in Checked, one.value[f] # NoValue, f = "ean" \/ Tabular(docs) # {}
       PROVE  two.value[f] = one.value[f]
  <2>1. f \notin G /\ v.value[f] # NoValue
    BY <1>11, <1>13, <1>14
  <2>2. f \notin H
    <3>1. CASE f = "ean"
      BY <1>6, <1>7, <1>10, <1>11, <1>12, <2>1, <3>1
    <3>2. CASE f # "ean"
      <4>1. f \in Prices /\ Tabular(docs) # {}
        BY <1>13, <1>14, <3>2
      <4>2. v.value[f] \in cells
        BY <1>11, <2>1, <4>1
      <4>3. QED BY <1>7, <1>10, <1>12, <4>1, <4>2
    <3>3. QED BY <3>1, <3>2
  <2>3. QED BY <1>11, <1>12, <1>13, <2>1, <2>2
<1>15. QED BY <1>1, <1>8, <1>14 DEF MoreFilesKeepMore

\* A table that was cut says so.
LEMMA CutsAreAnnounced ==
  ASSUME NEW d \in Documents
  PROVE  TruncationAnnounced(d)
<1>1. PICK rows, n : rows = d.rows /\ n = Len(d.rows)
  OBVIOUS
<1>2. rows \in Seq(Range(rows))
  BY <1>1, ImportAssumption DEF ImportAssumption
<1>3. PICK T : T = Range(rows)
  OBVIOUS
<1>4. rows \in Seq(T) /\ n \in Nat /\ DOMAIN rows = 1..n /\ n = Len(rows) /\ \A i \in 1..n : rows[i] \in T
  BY <1>1, <1>2, <1>3, ListIs
<1>5. PICK m : m = IF MaxTableRows < n THEN MaxTableRows ELSE n
  OBVIOUS
<1>6. Serialized(d) = SubSeq(rows, 1, m)
  BY <1>1, <1>5 DEF Serialized, Prefix
<1>7. MaxTableRows = 3 /\ m \in Nat /\ m <= n /\ (m = n <=> ~(n > 3)) /\ \A i \in 1..m : i \in 1..n
  <2>1. MaxTableRows = 3
    BY DEF MaxTableRows
  <2>2. n \in Nat /\ m = IF 3 < n THEN 3 ELSE n
    BY <1>4, <1>5, <2>1
  <2>3. m \in Nat /\ m <= n /\ (m = n <=> ~(n > 3))
    BY <2>2
  <2>4. \A i \in 1..m : i \in 1..n
    BY <2>2, <2>3
  <2>5. QED BY <2>1, <2>3, <2>4
<1>8. PICK s : s = SubSeq(rows, 1, m)
  OBVIOUS
<1>9. s \in Seq(T) /\ Len(s) = m
  <2>1. 1 \in Int /\ m \in Int /\ \A i \in 1..m : rows[i] \in T
    <3>1. \A i \in 1..m : rows[i] \in T
      BY <1>4, <1>7
    <3>2. QED BY <1>7, <3>1
  <2>2. s \in Seq(T) /\ Len(s) = IF 1 <= m THEN m - 1 + 1 ELSE 0
    BY <1>8, <2>1, SubSeqProperties
  <2>3. (IF 1 <= m THEN m - 1 + 1 ELSE 0) = m
    BY <1>7
  <2>4. QED BY <2>2, <2>3
<1>10. m = n => s = rows
  BY <1>4, <1>8, SubSeqFull
<1>11. m # n => s # rows
  BY <1>4, <1>9
<1>12. Serialized(d) # d.rows <=> Truncated(d)
  BY <1>1, <1>6, <1>7, <1>8, <1>10, <1>11 DEF Truncated
<1>13. Range(s) \subseteq Range(rows)
  BY <1>3, <1>9, RangeOfSeq
<1>14. d.kind = "tabular" => UNION Range(Serialized(d)) \subseteq CellsOf(<<d>>)
  <2>1. ASSUME d.kind = "tabular" PROVE UNION Range(rows) \subseteq CellsOf(<<d>>)
    <3>1. PICK docs : docs = <<d>>
      OBVIOUS
    <3>2. DOMAIN docs = {1} /\ docs[1] = d
      BY <3>1
    <3>3. 1 \in Tabular(docs)
      BY <2>1, <3>2 DEF Tabular
    <3>4. UNION Range(docs[1].rows) \subseteq CellsOf(docs)
      BY <3>3 DEF CellsOf
    <3>5. QED BY <1>1, <3>1, <3>2, <3>4
  <2>2. QED BY <1>6, <1>8, <1>13, <2>1
<1>15. QED BY <1>12, <1>14 DEF TruncationAnnounced

\* The path of a category ends with the category.
LEMMA PathEndsThere ==
  ASSUME NEW tree, 0 \notin DOMAIN tree, NEW c \in DOMAIN tree
  PROVE  Last(PathOf(tree, c)) = tree[c].title
<1>1. PICK line : line = Ancestry(tree, c)
  OBVIOUS
<1>2. line[1] = c
  BY <1>1 DEF Ancestry
<1>3. PICK S, known : S = {i \in 1..7 : line[i] # 0} /\ known = Cardinality(S)
  OBVIOUS
<1>4. S \in SUBSET (1..7) /\ 1 \in S
  BY <1>2, <1>3
<1>5. known \in Nat \ {0}
  <2>1. IsFiniteSet(1..7)
    <3>1. 1 \in Int /\ 7 \in Int
      OBVIOUS
    <3>2. QED BY <3>1, FS_Interval
  <2>2. IsFiniteSet(S)
    BY <1>4, <2>1, FS_Subset
  <2>3. QED BY <1>3, <1>4, <2>2, FS_CardinalityType, FS_EmptySet
<1>6. PICK path : path = PathOf(tree, c)
  OBVIOUS
<1>7. path = [i \in 1..known |-> tree[line[known + 1 - i]].title]
  BY <1>1, <1>3, <1>6 DEF PathOf
<1>8. Len(path) = known /\ known \in 1..known /\ known + 1 - known = 1
  BY <1>5, <1>7
<1>9. path[known] = tree[line[1]].title
  BY <1>7, <1>8
<1>10. QED BY <1>2, <1>6, <1>8, <1>9 DEF Last

\* A label kept is a category the boutique shows.
LEMMA LabelsAreShown ==
  ASSUME NEW tree, 0 \notin DOMAIN tree, NEW label
  PROVE  CategoryIsVisible(tree, label)
<1>1. PICK paths : paths = KnownPaths(tree)
  OBVIOUS
<1>2. ASSUME paths # {}, Canonical(paths, label) # NoValue
      PROVE  \E c \in DOMAIN tree : tree[c].visible /\ Canonical(paths, label) = tree[c].title
  <2>1. PICK p \in paths : Last(p) = label /\ Canonical(paths, label) = label
    BY <1>2 DEF Canonical
  <2>2. PICK c \in DOMAIN tree : tree[c].visible /\ p = PathOf(tree, c)
    BY <1>1, <2>1 DEF KnownPaths
  <2>3. QED BY <2>1, <2>2, PathEndsThere
<1>3. QED BY <1>1, <1>2 DEF CategoryIsVisible
-----------------------------------------------------------------------------
(* Names of colors, profiles *)

\* What stands between two places of a list.
LEMMA PartOfList ==
  ASSUME NEW T, NEW s \in Seq(T), NEW i \in 1..Len(s), NEW j \in 1..Len(s), i <= j
  PROVE  /\ SubSeq(s, i, j) \in Seq(T) /\ Len(SubSeq(s, i, j)) = j - i + 1
         /\ SubSeq(s, i, j)[1] = s[i] /\ Last(SubSeq(s, i, j)) = s[j]
<1>1. PICK n, t : n = Len(s) /\ t = SubSeq(s, i, j)
  OBVIOUS
<1>2. n \in Nat
  BY <1>1, LenProperties
<1>3. i \in Int /\ j \in Int /\ i <= j /\ 1 <= i /\ j <= n
  BY <1>1, <1>2
<1>4. \A k \in i..j : s[k] \in T
  <2>1. \A k \in i..j : k \in 1..n
    BY <1>2, <1>3
  <2>2. QED BY <1>1, <2>1, ListIs
<1>5. t \in Seq(T) /\ Len(t) = (IF i <= j THEN j - i + 1 ELSE 0)
      /\ \A k \in 1..(j - i + 1) : t[k] = s[i + k - 1]
  BY <1>1, <1>3, <1>4, SubSeqProperties
<1>6. PICK m : m = j - i + 1
  OBVIOUS
<1>7. m \in Nat /\ 1 \in 1..m /\ m \in 1..m /\ i + 1 - 1 = i /\ i + m - 1 = j
  BY <1>3, <1>6
<1>8. t[1] = s[i] /\ t[m] = s[j] /\ Len(t) = m
  BY <1>3, <1>5, <1>6, <1>7
<1>9. QED BY <1>1, <1>5, <1>6, <1>8 DEF Last

\* A color keeps its name.
LEMMA NamesAreKept ==
  ASSUME NEW tokens \in PrintedColors
  PROVE  ColorKeepsItsName(tokens)
<1>1. PICK T, n : T = UNION {Range(c) : c \in PrintedColors} /\ n = Len(tokens)
  OBVIOUS
<1>2. tokens \in Seq(T) /\ tokens # <<>>
  BY <1>1, ImportAssumption DEF ImportAssumption
<1>3. n \in Nat \ {0} /\ DOMAIN tokens = 1..n
  BY <1>1, <1>2, LenProperties, EmptySeq
<1>4. \A i \in 1..n : tokens[i].text # NoValue
  <2>1. \A t \in Range(tokens) : t.text # NoValue
    BY ImportAssumption DEF ImportAssumption
  <2>2. \A i \in 1..n : tokens[i] \in Range(tokens)
    BY <1>3 DEF Range
  <2>3. QED BY <2>1, <2>2
<1>5. PICK names : names = {i \in DOMAIN tokens : ~tokens[i].code}
  OBVIOUS
<1>6. PICK r : r = SplitColorCode(tokens)
  OBVIOUS
<1>7. CASE names = {}
  <2>1. r.name = tokens
    BY <1>5, <1>6, <1>7 DEF SplitColorCode
  <2>2. ~(\E i \in DOMAIN tokens : ~tokens[i].code)
    BY <1>5, <1>7
  <2>3. ~(n < n)
    BY <1>3
  <2>4. QED BY <1>1, <1>2, <1>6, <2>1, <2>2, <2>3 DEF ColorKeepsItsName
<1>8. CASE names # {}
  <2>1. PICK a, b : a = Min(names) /\ b = Max(names)
    OBVIOUS
  <2>2. names \in SUBSET (1..n)
    BY <1>3, <1>5
  <2>3. a \in names /\ b \in names /\ a <= b
    BY <1>3, <1>8, <2>1, <2>2, FirstAndLastPlace
  <2>4. a \in 1..n /\ b \in 1..n /\ ~tokens[a].code /\ ~tokens[b].code
    BY <1>3, <1>5, <2>3
  <2>5. PICK name : name = SubSeq(tokens, a, b)
    OBVIOUS
  <2>6. name \in Seq(T) /\ Len(name) = b - a + 1 /\ name[1] = tokens[a] /\ Last(name) = tokens[b]
    BY <1>1, <1>2, <2>3, <2>4, <2>5, PartOfList
  <2>7. r.name = name /\ r.code = IF b < n THEN Last(tokens).text
                                  ELSE IF a > 1 THEN tokens[1].text ELSE NoValue
    BY <1>1, <1>5, <1>6, <1>8, <2>1, <2>5 DEF SplitColorCode
  <2>8. name # <<>>
    <3>1. b - a + 1 # 0
      BY <2>3, <2>4
    <3>2. QED BY <2>6, <3>1, EmptySeq
  <2>9. Len(name) < n => b < n \/ a > 1
    BY <1>3, <2>4, <2>6
  <2>10. Last(tokens) = tokens[n] /\ 1 \in 1..n /\ n \in 1..n
    BY <1>1, <1>3 DEF Last
  <2>11. Len(name) < n => r.code # NoValue
    BY <1>4, <2>7, <2>9, <2>10
  <2>12. QED BY <1>1, <1>6, <2>4, <2>6, <2>7, <2>8, <2>11 DEF ColorKeepsItsName
<1>9. QED BY <1>7, <1>8

\* Of rows with an id each, at most one is the one asked for.
LEMMA ProfilesAreOwn ==
  ASSUME NEW chosen, NEW owner, NEW profiles \in SUBSET AccountProfiles, Rows(profiles),
         NEW supplier, NEW typed
  PROVE  ProfileIsOwn(chosen, owner, profiles, supplier, typed)
<1>1. PICK r : r = ResolveProfile(chosen, owner, profiles, supplier)
  OBVIOUS
<1>2. \A p \in profiles : p.id \in Nat
  BY ImportAssumption DEF ImportAssumption
<1>3. \A p \in r : p \in profiles /\ p.account = owner /\ (chosen # 0 => p.id = chosen)
  BY <1>1 DEF ResolveProfile
<1>4. \A p, q \in r : chosen = 0 => p.id <= q.id
  BY <1>1 DEF ResolveProfile
<1>5. \A p, q \in r : p = q
  <2>1. ASSUME NEW p \in r, NEW q \in r PROVE p = q
    <3>1. p.id = q.id
      BY <1>2, <1>3, <1>4
    <3>2. QED BY <1>3, <3>1 DEF Rows
  <2>2. QED BY <2>1
<1>6. Cardinality(r) <= 1
  <2>1. CASE r = {}
    BY <2>1, FS_EmptySet
  <2>2. CASE r # {}
    <3>1. PICK p : p \in r
      BY <2>2
    <3>2. r = {p}
      BY <1>5, <3>1
    <3>3. Cardinality({p}) = 1
      BY FS_Singleton
    <3>4. QED BY <3>2, <3>3
  <2>3. QED BY <2>1, <2>2
<1> DEFINE own == {p \in ResolveProfile(chosen, owner, profiles, {}) :
                     chosen # 0 /\ p.instructions # ""}
           x == IF own = {} THEN <<>> ELSE <<(CHOOSE p \in own : TRUE).instructions>>
           y == IF typed = "" THEN <<>> ELSE <<typed>>
<1>8. \A p \in own : p \in r /\ chosen # 0
  BY <1>1 DEF ResolveProfile
<1>9. PICK W : W = {typed} \cup {p.instructions : p \in {q \in r : chosen # 0}}
  OBVIOUS
<1>10. <<>> \in Seq(W)
  BY EmptySeq
<1>11. x \in Seq(W)
  <2>1. CASE own = {}
    BY <1>10, <2>1
  <2>2. CASE own # {}
    <3>1. PICK p : p = CHOOSE q \in own : TRUE
      OBVIOUS
    <3>2. p \in own /\ x = <<p.instructions>>
      <4> HIDE DEF own
      <4>1. QED BY <2>2, <3>1
    <3>3. p.instructions \in W
      BY <1>8, <1>9, <3>2
    <3>4. PICK z : z = p.instructions
      OBVIOUS
    <3>5. <<z>> \in Seq(W)
      BY <3>3, <3>4
    <3> HIDE DEF x
    <3>6. QED BY <3>2, <3>4, <3>5
  <2>3. QED BY <2>1, <2>2
<1>12. y \in Seq(W)
  <2>1. typed \in W
    BY <1>9
  <2>2. CASE typed = ""
    BY <1>10, <2>2
  <2>3. CASE typed # ""
    <3>1. <<typed>> \in Seq(W)
      BY <2>1
    <3>2. QED BY <2>3, <3>1
  <2>4. QED BY <2>2, <2>3
<1>13. PromptParts(chosen, owner, profiles, typed) = x \o y
  BY DEF PromptParts
<1> HIDE DEF own, x, y
<1>14. Range(x \o y) \subseteq W
  <2>1. x \o y \in Seq(W)
    BY <1>11, <1>12, ConcatProperties
  <2>2. QED BY <2>1, RangeOfSeq
<1>15. QED BY <1>1, <1>3, <1>6, <1>9, <1>13, <1>14 DEF ProfileIsOwn
-----------------------------------------------------------------------------
(* Products split by color *)

\* Nothing is taken from a list at no places.
LEMMA AtNowhere ==
  ASSUME NEW s, NEW t
  PROVE  At(s, {}) = At(t, {})
<1>1. Cardinality({}) = 0 /\ 1..0 = {}
  BY FS_EmptySet
<1>2. QED BY <1>1 DEF At

\* A list of places that rises, and leaves none out.
Rises(q, m, n) ==
  /\ q \in [1..m -> 1..n]
  /\ \A k, l \in 1..m : k < l => q[k] < q[l]
  /\ \A j \in 1..n : \E k \in 1..m : q[k] = j

\* It is the list of the places.
LEMMA RisesThroughAll ==
  ASSUME NEW m \in Nat, NEW n \in Nat, NEW q, Rises(q, m, n)
  PROVE  m = n /\ \A k \in 1..m : q[k] = k
<1>1. PICK M, N : M = 1..m /\ N = 1..n
  OBVIOUS
<1>2. q \in [M -> N] /\ M \subseteq Int /\ N \subseteq Int
  BY <1>1 DEF Rises
<1>3. \A k, l \in M : k < l => q[k] < q[l]
  BY <1>1 DEF Rises
<1>4. \A k, l \in M : q[k] = q[l] => k = l
  <2>1. ASSUME NEW k \in M, NEW l \in M, q[k] = q[l] PROVE k = l
    <3>1. ~(k < l) /\ ~(l < k)
      <4>1. q[k] \in Int /\ q[l] \in Int
        BY <1>2
      <4>2. QED BY <1>3, <2>1, <4>1
    <3>2. QED BY <1>2, <3>1
  <2>2. QED BY <2>1
<1>5. q \in Bijection(M, N)
  <2>1. \A j \in N : \E k \in M : q[k] = j
    BY <1>1 DEF Rises
  <2>2. QED BY <1>2, <1>4, <2>1 DEF Bijection, Injection, IsInjective, Surjection
<1>6. IsFiniteSet(M) /\ IsFiniteSet(N) /\ Cardinality(M) = m /\ Cardinality(N) = n
  BY <1>1, FS_Interval
<1>7. ExistsBijection(M, N)
  BY <1>5 DEF ExistsBijection
<1>8. m = n
  BY <1>6, <1>7, FS_Bijection
<1>9. PICK R : R = {p \in N \X N : p[1] < p[2]}
  OBVIOUS
<1>10. \A i, j \in N : <<i, j>> \in R <=> i < j
  BY <1>9
<1>11. Ranks(R, N)
  BY <1>2, <1>10 DEF Ranks
<1>12. N = 1..Cardinality(N) /\ M = N
  BY <1>1, <1>6, <1>8
<1>13. Sorted(q, N, R)
  <2>1. q \in [1..Cardinality(N) -> N]
    BY <1>2, <1>12
  <2>2. \A k, l \in 1..Cardinality(N) : k < l => <<q[k], q[l]>> \in R
    <3>1. ASSUME NEW k \in N, NEW l \in N, k < l PROVE <<q[k], q[l]>> \in R
      <4>1. q[k] < q[l] /\ q[k] \in N /\ q[l] \in N
        BY <1>2, <1>3, <1>12, <3>1
      <4>2. QED BY <1>10, <4>1
    <3>2. QED BY <1>12, <3>1
  <2>3. QED BY <2>1, <2>2 DEF Sorted
<1>14. PICK e : e = [k \in N |-> k]
  OBVIOUS
<1>15. Sorted(e, N, R)
  BY <1>10, <1>12, <1>14 DEF Sorted
<1>16. InOrder(N, R) = q /\ InOrder(N, R) = e
  BY <1>6, <1>11, <1>13, <1>15, InOrderIs
<1>17. QED BY <1>1, <1>8, <1>14, <1>16

\* The variants of a product.
Variant == [color : Seq(Seq(Letters)), code : Seq(Letters)]

\* The colors of a list of variants are finitely many, and each is somewhere.
LEMMA ColorsAre ==
  ASSUME NEW vs \in Seq(Variant)
  PROVE  /\ Len(vs) \in Nat /\ DOMAIN vs = 1..Len(vs) /\ \A i \in DOMAIN vs : vs[i] \in Variant
         /\ IsFiniteSet(ColorsOf(vs)) /\ ColorsOf(vs) \in SUBSET Seq(Seq(Letters))
         /\ \A c : InColor(vs, c) \in SUBSET DOMAIN vs
         /\ \A c : c \in ColorsOf(vs) <=> InColor(vs, c) # {}
         /\ \A c : \A i \in InColor(vs, c) : vs[i].color = c
<1>1. Len(vs) \in Nat /\ DOMAIN vs = 1..Len(vs) /\ \A i \in DOMAIN vs : vs[i] \in Variant
  BY ListIs
<1>2. \A i \in DOMAIN vs : vs[i].color \in Seq(Seq(Letters))
  BY <1>1 DEF Variant
<1>3. ColorsOf(vs) \in SUBSET Seq(Seq(Letters))
  BY <1>2 DEF ColorsOf
<1>4. IsFiniteSet(ColorsOf(vs))
  <2>1. PICK g, D, C : g = [i \in DOMAIN vs |-> vs[i].color] /\ D = DOMAIN vs /\ C = ColorsOf(vs)
    OBVIOUS
  <2>2. g \in Surjection(D, C)
    BY <2>1 DEF ColorsOf, Surjection
  <2>3. IsFiniteSet(D)
    BY <1>1, <2>1, FS_Interval
  <2>4. QED BY <2>1, <2>2, <2>3, FS_Surjection
<1>5. /\ \A c : InColor(vs, c) \in SUBSET DOMAIN vs
      /\ \A c : c \in ColorsOf(vs) <=> InColor(vs, c) # {}
      /\ \A c : \A i \in InColor(vs, c) : vs[i].color = c
  BY DEF InColor, ColorsOf
<1>6. QED BY <1>1, <1>3, <1>4, <1>5

\* The variants of a color.
LEMMA OneColor ==
  ASSUME NEW vs \in Seq(Variant), NEW c, NEW t, t = At(vs, InColor(vs, c))
  PROVE  /\ t \in Seq(Variant) /\ Len(t) \in Nat /\ DOMAIN t = 1..Len(t)
         /\ \A k \in DOMAIN t : t[k].color = c
         /\ c \in ColorsOf(vs) => t # <<>> /\ ColorsOf(t) = {c}
<1>1. PICK S : S = InColor(vs, c)
  OBVIOUS
<1>2. S \in SUBSET DOMAIN vs /\ \A i \in S : vs[i].color = c
  BY <1>1, ColorsAre
<1>3. t \in Seq(Variant) /\ InPlaces(t, vs, S)
  BY <1>1, <1>2, AtInPlaces
<1>4. Len(t) \in Nat /\ DOMAIN t = 1..Len(t)
  BY <1>3, LenProperties
<1>5. PICK f \in [DOMAIN t -> S] : /\ \A k \in DOMAIN t : t[k] = vs[f[k]]
                                   /\ \A i \in S : \E k \in DOMAIN t : f[k] = i
  BY <1>3 DEF InPlaces
<1>6. \A k \in DOMAIN t : t[k].color = c
  BY <1>2, <1>5
<1>7. ASSUME c \in ColorsOf(vs) PROVE t # <<>> /\ ColorsOf(t) = {c}
  <2>1. PICK i : i \in S
    BY <1>1, <1>7, ColorsAre
  <2>2. PICK k \in DOMAIN t : f[k] = i
    BY <1>5, <2>1
  <2>3. t # <<>>
    BY <2>2
  <2>4. QED BY <1>6, <2>2, <2>3 DEF ColorsOf
<1>8. QED BY <1>3, <1>4, <1>6, <1>7

\* The colors in some order, each once, and what each takes of the variants.
ListsColors(cs, n, vs) ==
  /\ DOMAIN cs = 1..n
  /\ \A i \in 1..n : cs[i] \in ColorsOf(vs)
  /\ \A i, j \in 1..n : cs[i] = cs[j] => i = j
  /\ \A c \in ColorsOf(vs) : \E i \in 1..n : cs[i] = c
TakesColors(ss, cs, n, vs) ==
  /\ ListsColors(cs, n, vs)
  /\ DOMAIN ss = 1..n /\ \A i \in 1..n : ss[i] = At(vs, InColor(vs, cs[i]))

\* Lists of one color each, no color twice, laid one after the other, are the list they
\* were taken from, color by color.
LEMMA LaidByColor ==
  ASSUME NEW vs \in Seq(Variant), NEW n \in Nat, NEW cs, NEW ss,
         TakesColors(ss, cs, n, vs),
         NEW all, all = Laid(ss), NEW c
  PROVE  At(all, InColor(all, c)) = At(vs, InColor(vs, c))
<1>0. /\ DOMAIN ss = 1..n /\ \A i \in 1..n : ss[i] = At(vs, InColor(vs, cs[i]))
      /\ \A i \in 1..n : cs[i] \in ColorsOf(vs)
      /\ \A i, j \in 1..n : cs[i] = cs[j] => i = j
      /\ \A d \in ColorsOf(vs) : \E i \in 1..n : cs[i] = d
  BY DEF TakesColors, ListsColors
<1>1. ASSUME NEW i \in 1..n
      PROVE  /\ ss[i] \in Seq(Variant) /\ Len(ss[i]) \in Nat /\ DOMAIN ss[i] = 1..Len(ss[i])
             /\ \A k \in DOMAIN ss[i] : ss[i][k].color = cs[i]
  <2>1. PICK t : t = ss[i]
    OBVIOUS
  <2>2. t = At(vs, InColor(vs, cs[i]))
    BY <1>0, <2>1
  <2>3. PICK d : d = cs[i]
    OBVIOUS
  <2>4. QED BY <2>1, <2>2, <2>3, OneColor
<1>2. ListsOf(ss, n, Variant)
  BY <1>0, <1>1 DEF ListsOf
<1>3. all \in Seq(Variant) /\ LaidOut(all, ss)
  BY <1>2, LaidIsLaidOut
<1>4. Len(all) \in Nat /\ DOMAIN all = 1..Len(all)
  BY <1>3, LenProperties
<1>5. PICK f \in [DOMAIN all -> Places(ss)] :
        /\ \A k \in DOMAIN all : all[k] = ss[f[k][1]][f[k][2]]
        /\ \A k, l \in DOMAIN all : k < l => Earlier(f[k], f[l])
        /\ \A p \in Places(ss) : \E k \in DOMAIN all : f[k] = p
  BY <1>3 DEF LaidOut
<1>6. \A p \in Places(ss) : p[1] \in 1..n /\ p[2] \in Nat /\ p[2] \in DOMAIN ss[p[1]] /\ p = <<p[1], p[2]>>
  BY <1>2, PlacesInOrder
<1>7. \A k \in DOMAIN all : /\ f[k] \in Places(ss) /\ f[k][1] \in 1..n /\ f[k][2] \in DOMAIN ss[f[k][1]]
                            /\ all[k].color = cs[f[k][1]]
  BY <1>1, <1>5, <1>6
<1>8. CASE c \notin ColorsOf(vs)
  <2>1. InColor(vs, c) = {}
    BY <1>8, ColorsAre
  <2>2. \A k \in DOMAIN all : all[k].color # c
    BY <1>0, <1>7, <1>8
  <2>3. InColor(all, c) = {}
    BY <2>2 DEF InColor
  <2>4. QED BY <2>1, <2>3, AtNowhere
<1>9. CASE c \in ColorsOf(vs)
  <2>1. PICK i \in 1..n : cs[i] = c
    BY <1>0, <1>9
  <2>2. PICK u, P, t : u = ss[i] /\ P = InColor(all, c) /\ t = At(all, P)
    OBVIOUS
  <2>3. u = At(vs, InColor(vs, c))
    BY <1>0, <2>1, <2>2
  <2>4. u \in Seq(Variant) /\ Len(u) \in Nat /\ DOMAIN u = 1..Len(u)
    BY <1>1, <2>2
  <2>5. P \in SUBSET DOMAIN all /\ \A k \in DOMAIN all : k \in P <=> all[k].color = c
    BY <2>2 DEF InColor
  <2>6. t \in Seq(Variant) /\ InPlaces(t, all, P)
    BY <1>3, <2>2, <2>5, AtInPlaces
  <2>7. Len(t) \in Nat /\ DOMAIN t = 1..Len(t)
    BY <2>6, LenProperties
  <2>8. PICK g \in [DOMAIN t -> P] : /\ \A k \in DOMAIN t : t[k] = all[g[k]]
                                     /\ \A k, l \in DOMAIN t : k < l => g[k] < g[l]
                                     /\ \A m \in P : \E k \in DOMAIN t : g[k] = m
    BY <2>6 DEF InPlaces
  <2>9. ASSUME NEW k \in DOMAIN t
        PROVE  g[k] \in DOMAIN all /\ f[g[k]] = <<i, f[g[k]][2]>> /\ f[g[k]][2] \in DOMAIN u
               /\ t[k] = u[f[g[k]][2]] /\ f[g[k]] \in Places(ss) /\ f[g[k]][1] = i
    <3>1. PICK m : m = g[k]
      OBVIOUS
    <3>2. m \in DOMAIN all /\ all[m].color = c
      BY <2>5, <2>8, <3>1
    <3>3. PICK p : p = f[m]
      OBVIOUS
    <3>4. p \in Places(ss) /\ p[1] \in 1..n /\ p[2] \in DOMAIN ss[p[1]] /\ cs[p[1]] = c
      BY <1>7, <3>2, <3>3
    <3>5. p[1] = i
      BY <1>0, <2>1, <3>4
    <3>6. p = <<i, p[2]>>
      BY <1>6, <3>4, <3>5
    <3>7. t[k] = u[p[2]]
      BY <1>5, <2>2, <2>8, <3>1, <3>2, <3>3, <3>5
    <3>8. QED BY <2>2, <3>1, <3>2, <3>3, <3>4, <3>5, <3>6, <3>7
  <2>10. PICK q : q = [k \in DOMAIN t |-> f[g[k]][2]]
    OBVIOUS
  <2>11. PICK a, b : a = Len(t) /\ b = Len(u)
    OBVIOUS
  <2>12. q \in [1..a -> 1..b]
    BY <2>4, <2>7, <2>9, <2>10, <2>11
  <2>13. ASSUME NEW k \in 1..a, NEW l \in 1..a, k < l PROVE q[k] < q[l]
    <3>1. k \in DOMAIN t /\ l \in DOMAIN t
      BY <2>7, <2>11
    <3>2. g[k] < g[l] /\ g[k] \in DOMAIN all /\ g[l] \in DOMAIN all
      BY <2>8, <2>9, <2>13, <3>1
    <3>3. Earlier(f[g[k]], f[g[l]])
      BY <1>5, <3>2
    <3>4. f[g[k]][1] = i /\ f[g[l]][1] = i
      BY <2>9, <3>1
    <3>5. f[g[k]][2] < f[g[l]][2]
      BY <2>1, <3>3, <3>4 DEF Earlier
    <3>6. QED BY <2>10, <3>1, <3>5
  <2>14. ASSUME NEW j \in 1..b PROVE \E k \in 1..a : q[k] = j
    <3>1. j \in DOMAIN ss[i]
      BY <2>2, <2>4, <2>11
    <3>2. <<i, j>> \in Places(ss)
      BY <1>0, <3>1 DEF Places
    <3>3. PICK m \in DOMAIN all : f[m] = <<i, j>>
      BY <1>5, <3>2
    <3>4. all[m].color = c
      BY <1>7, <2>1, <3>3
    <3>5. PICK k \in DOMAIN t : g[k] = m
      BY <2>5, <2>8, <3>4
    <3>6. q[k] = j
      BY <2>10, <3>3, <3>5
    <3>7. QED BY <2>7, <2>11, <3>5, <3>6
  <2>15. a = b /\ \A k \in 1..a : q[k] = k
    <3>1. a \in Nat /\ b \in Nat
      BY <2>4, <2>7, <2>11
    <3>2. \A k, l \in 1..a : k < l => q[k] < q[l]
      BY <2>13
    <3>3. \A j \in 1..b : \E k \in 1..a : q[k] = j
      BY <2>14
    <3>4. Rises(q, a, b)
      BY <2>12, <3>2, <3>3 DEF Rises
    <3>5. QED BY <3>1, <3>4, RisesThroughAll
  <2>16. \A k \in 1..a : t[k] = u[k]
    BY <2>7, <2>9, <2>10, <2>11, <2>15
  <2>17. t = u
    BY <2>4, <2>6, <2>11, <2>15, <2>16, SeqEqual
  <2>18. QED BY <2>2, <2>3, <2>17
<1>10. QED BY <1>8, <1>9
\* The order in which the colors appear, and the sheet of a color.
OrderOf(vs) ==
  InOrder(ColorsOf(vs), {p \in ColorsOf(vs) \X ColorsOf(vs) :
                           Min(InColor(vs, p[1])) < Min(InColor(vs, p[2]))})
RefOf(ref, sep, s) == IF s = <<>> THEN ref ELSE ref \o sep \o s
SheetOf(product, mode, sep, c) ==
  [ref |-> RefOf(product.ref, sep, Suffix(mode, sep, product.variants, c)),
   variants |-> At(product.variants, InColor(product.variants, c))]
FewColors(vs) == Cardinality(ColorsOf(vs) \ {Colorless}) <= 1

\* Splitting said with them.
LEMMA SplitIs ==
  ASSUME NEW product, NEW mode, NEW sep, NEW vs, vs = product.variants
  PROVE  Split(product, mode, sep)
           = IF FewColors(vs) THEN <<product>>
             ELSE [i \in DOMAIN OrderOf(vs) |-> SheetOf(product, mode, sep, OrderOf(vs)[i])]
<1>1. CASE FewColors(vs)
  BY <1>1 DEF Split, FewColors
<1>2. CASE ~FewColors(vs)
  <2>1. Split(product, mode, sep)
          = [i \in DOMAIN OrderOf(vs) |->
               [ref |-> IF Suffix(mode, sep, vs, OrderOf(vs)[i]) = <<>> THEN product.ref
                        ELSE product.ref \o sep \o Suffix(mode, sep, vs, OrderOf(vs)[i]),
                variants |-> At(vs, InColor(vs, OrderOf(vs)[i]))]]
    BY <1>2 DEF Split, FewColors, OrderOf
  <2>2. QED BY <1>2, <2>1 DEF SheetOf, RefOf
<1>3. QED BY <1>1, <1>2

\* The colors in their order.
LEMMA ColorsInOrder ==
  ASSUME NEW vs \in Seq(Variant)
  PROVE  /\ Cardinality(ColorsOf(vs)) \in Nat
         /\ ListsColors(OrderOf(vs), Cardinality(ColorsOf(vs)), vs)
<1>1. PICK C, N : C = ColorsOf(vs) /\ N = Len(vs)
  OBVIOUS
<1>2. /\ N \in Nat /\ DOMAIN vs = 1..N /\ IsFiniteSet(C)
      /\ \A c \in C : InColor(vs, c) \in SUBSET (1..N) /\ InColor(vs, c) # {}
      /\ \A c \in C : \A i \in InColor(vs, c) : vs[i].color = c
  BY <1>1, ColorsAre
<1>3. \A c \in C : Min(InColor(vs, c)) \in InColor(vs, c)
  <2>1. ASSUME NEW c \in C PROVE Min(InColor(vs, c)) \in InColor(vs, c)
    <3>1. PICK S : S = InColor(vs, c)
      OBVIOUS
    <3>2. S \in SUBSET (1..N) /\ S # {}
      BY <1>2, <3>1
    <3>3. Min(S) \in S
      BY <1>2, <3>2, FirstAndLastPlace
    <3>4. QED BY <3>1, <3>3
  <2>2. QED BY <2>1
<1>4. PICK first : first = [c \in C |-> Min(InColor(vs, c))]
  OBVIOUS
<1>5. first \in [C -> Int] /\ \A c \in C : vs[first[c]].color = c
  BY <1>2, <1>3, <1>4
<1>6. PICK R : R = {p \in C \X C : Min(InColor(vs, p[1])) < Min(InColor(vs, p[2]))}
  OBVIOUS
<1>7. \A c, d \in C : <<c, d>> \in R <=> first[c] < first[d]
  BY <1>4, <1>6
<1>8. \A c, d \in C : c # d => first[c] # first[d]
  BY <1>5
<1>9. Ranks(R, C)
  BY <1>5, <1>7, <1>8 DEF Ranks
<1>10. PICK cs, n : cs = InOrder(C, R) /\ n = Cardinality(C)
  OBVIOUS
<1>11. Sorted(cs, C, R)
  BY <1>2, <1>9, <1>10, InOrderSorts
<1>12. /\ n \in Nat /\ \A i, j \in 1..n : cs[i] = cs[j] => i = j
       /\ \A c \in C : \E i \in 1..n : cs[i] = c
  BY <1>2, <1>9, <1>10, <1>11, SortedOnce
<1>13. cs \in [1..n -> C]
  BY <1>10, <1>11 DEF Sorted
<1>14. cs = OrderOf(vs)
  BY <1>1, <1>6, <1>10 DEF OrderOf
<1>15. QED BY <1>1, <1>10, <1>12, <1>13, <1>14 DEF ListsColors

\* What splitting makes of a product: it, or a sheet for each of its colors.
LEMMA SplitShape ==
  ASSUME NEW product \in Parts, NEW mode, NEW sep, NEW vs, vs = product.variants,
         NEW sheets, sheets = Split(product, mode, sep)
  PROVE  /\ vs \in Seq(Variant) /\ product.ref \in Seq(Letters)
         /\ \/ FewColors(vs) /\ sheets = <<product>>
            \/ \E n \in Nat : \E cs : /\ ~FewColors(vs) /\ ListsColors(cs, n, vs) /\ DOMAIN sheets = 1..n
                                      /\ \A i \in 1..n : sheets[i] = SheetOf(product, mode, sep, cs[i])
<1>1. vs \in Seq(Variant) /\ product.ref \in Seq(Letters)
  BY DEF Parts, Variant
<1>2. PICK cs, n : cs = OrderOf(vs) /\ n = Cardinality(ColorsOf(vs))
  OBVIOUS
<1>3. n \in Nat /\ ListsColors(cs, n, vs)
  BY <1>1, <1>2, ColorsInOrder
<1>4. DOMAIN cs = 1..n
  BY <1>3 DEF ListsColors
<1>5. sheets = IF FewColors(vs) THEN <<product>>
               ELSE [i \in 1..n |-> SheetOf(product, mode, sep, cs[i])]
  <2>1. sheets = IF FewColors(vs) THEN <<product>>
                 ELSE [i \in DOMAIN OrderOf(vs) |-> SheetOf(product, mode, sep, OrderOf(vs)[i])]
    BY SplitIs
  <2>2. QED BY <1>2, <1>4, <2>1
<1>6. CASE FewColors(vs)
  BY <1>1, <1>5, <1>6
<1>7. CASE ~FewColors(vs)
  <2>1. DOMAIN sheets = 1..n /\ \A i \in 1..n : sheets[i] = SheetOf(product, mode, sep, cs[i])
    BY <1>5, <1>7
  <2>2. QED BY <1>1, <1>3, <1>7, <2>1
<1>8. QED BY <1>6, <1>7

\* No variant is lost, and no colors are mixed.
LEMMA SplitKeepsAll ==
  ASSUME NEW product \in Parts, NEW mode, NEW sep, NEW vs, vs = product.variants,
         NEW sheets, sheets = Split(product, mode, sep)
  PROVE  /\ \A c : At(AllVariants(sheets), InColor(AllVariants(sheets), c)) = At(vs, InColor(vs, c))
         /\ Len(sheets) > 1 => \A i \in DOMAIN sheets : Cardinality(ColorsOf(sheets[i].variants)) = 1
         /\ \E m \in Nat : DOMAIN sheets = 1..m
         /\ \A i \in DOMAIN sheets : sheets[i].variants \in Seq(Variant)
         /\ vs # <<>> <=> \E i \in DOMAIN sheets : sheets[i].variants # <<>>
<1>1. vs \in Seq(Variant)
  BY SplitShape
<1>2. CASE FewColors(vs) /\ sheets = <<product>>
  <2>1. DOMAIN sheets = 1..1 /\ Len(sheets) = 1 /\ sheets[1].variants = vs
    BY <1>2
  <2>2. [i \in DOMAIN sheets |-> sheets[i].variants] = <<vs>>
    BY <2>1
  <2>3. AllVariants(sheets) = vs
    BY <1>1, <2>2, LaidOne DEF AllVariants
  <2>4. 1..1 = {1} /\ 1 \in Nat /\ ~(1 > 1)
    OBVIOUS
  <2>5. QED BY <1>1, <2>1, <2>3, <2>4
<1>3. ASSUME NEW n \in Nat, NEW cs, ~FewColors(vs), ListsColors(cs, n, vs), DOMAIN sheets = 1..n,
             \A i \in 1..n : sheets[i] = SheetOf(product, mode, sep, cs[i])
      PROVE  /\ \A c : At(AllVariants(sheets), InColor(AllVariants(sheets), c)) = At(vs, InColor(vs, c))
             /\ \A i \in DOMAIN sheets : /\ Cardinality(ColorsOf(sheets[i].variants)) = 1
                                         /\ sheets[i].variants \in Seq(Variant)
                                         /\ sheets[i].variants # <<>>
             /\ (n = 0 => vs = <<>>)
             /\ (vs = <<>> => n = 0)
  <2>1. PICK ss, all : ss = [i \in DOMAIN sheets |-> sheets[i].variants] /\ all = Laid(ss)
    OBVIOUS
  <2>2. DOMAIN ss = 1..n /\ \A i \in 1..n : ss[i] = At(vs, InColor(vs, cs[i]))
    BY <1>3, <2>1 DEF SheetOf
  <2>3. /\ \A i \in 1..n : cs[i] \in ColorsOf(vs)
        /\ \A i, j \in 1..n : cs[i] = cs[j] => i = j
        /\ \A c \in ColorsOf(vs) : \E i \in 1..n : cs[i] = c
    BY <1>3 DEF ListsColors
  <2>4. TakesColors(ss, cs, n, vs)
    BY <1>3, <2>2 DEF TakesColors
  <2>5. \A c : At(all, InColor(all, c)) = At(vs, InColor(vs, c))
    <3>1. ASSUME NEW c PROVE At(all, InColor(all, c)) = At(vs, InColor(vs, c))
      BY <1>1, <2>1, <2>4, LaidByColor
    <3>2. QED BY <3>1
  <2>6. AllVariants(sheets) = all
    BY <2>1 DEF AllVariants
  <2>7. ASSUME NEW i \in DOMAIN sheets
        PROVE  /\ Cardinality(ColorsOf(sheets[i].variants)) = 1
               /\ sheets[i].variants \in Seq(Variant) /\ sheets[i].variants # <<>>
    <3>1. PICK t, c : t = sheets[i].variants /\ c = cs[i]
      OBVIOUS
    <3>2. t = At(vs, InColor(vs, c)) /\ c \in ColorsOf(vs)
      BY <1>3, <2>1, <2>2, <2>3, <3>1
    <3>3. t \in Seq(Variant) /\ t # <<>> /\ ColorsOf(t) = {c}
      BY <1>1, <3>2, OneColor
    <3>4. Cardinality({c}) = 1
      BY FS_Singleton
    <3>5. QED BY <3>1, <3>3, <3>4
  <2>8. n = 0 => vs = <<>>
    <3>1. ASSUME n = 0, vs # <<>> PROVE FALSE
      <4>1. 1 \in DOMAIN vs
        BY <1>1, <3>1, EmptySeq, LenProperties
      <4>2. vs[1].color \in ColorsOf(vs)
        BY <4>1 DEF ColorsOf
      <4>3. PICK i \in 1..n : cs[i] = vs[1].color
        BY <2>3, <4>2
      <4>4. QED BY <3>1, <4>3
    <3>2. QED BY <3>1
  <2>9. vs = <<>> => n = 0
    <3>1. ASSUME vs = <<>>, n # 0 PROVE FALSE
      <4>1. 1 \in 1..n
        BY <3>1
      <4>2. cs[1] \in ColorsOf(vs)
        BY <2>3, <4>1
      <4>3. PICK i \in DOMAIN vs : TRUE
        BY <4>2 DEF ColorsOf
      <4>4. DOMAIN vs = {}
        BY <3>1
      <4>5. QED BY <4>3, <4>4
    <3>2. QED BY <3>1
  <2>10. QED BY <2>5, <2>6, <2>7, <2>8, <2>9
<1>4. ASSUME NEW n \in Nat, NEW cs, ~FewColors(vs), ListsColors(cs, n, vs), DOMAIN sheets = 1..n,
             \A i \in 1..n : sheets[i] = SheetOf(product, mode, sep, cs[i])
      PROVE  /\ \A c : At(AllVariants(sheets), InColor(AllVariants(sheets), c)) = At(vs, InColor(vs, c))
             /\ \A i \in DOMAIN sheets : /\ Cardinality(ColorsOf(sheets[i].variants)) = 1
                                         /\ sheets[i].variants \in Seq(Variant)
             /\ \E m \in Nat : DOMAIN sheets = 1..m
             /\ vs # <<>> <=> \E i \in DOMAIN sheets : sheets[i].variants # <<>>
  <2>1. /\ \A c : At(AllVariants(sheets), InColor(AllVariants(sheets), c)) = At(vs, InColor(vs, c))
        /\ \A i \in DOMAIN sheets : /\ Cardinality(ColorsOf(sheets[i].variants)) = 1
                                    /\ sheets[i].variants \in Seq(Variant)
                                    /\ sheets[i].variants # <<>>
        /\ (n = 0 => vs = <<>>) /\ (vs = <<>> => n = 0)
    BY <1>3, <1>4
  <2>2. n # 0 => 1 \in DOMAIN sheets
    BY <1>4
  <2>3. n = 0 => DOMAIN sheets = {}
    BY <1>4
  <2>4. QED BY <1>4, <2>1, <2>2, <2>3
<1>5. \/ FewColors(vs) /\ sheets = <<product>>
      \/ \E n \in Nat : \E cs : /\ ~FewColors(vs) /\ ListsColors(cs, n, vs) /\ DOMAIN sheets = 1..n
                                /\ \A i \in 1..n : sheets[i] = SheetOf(product, mode, sep, cs[i])
  BY SplitShape
<1>6. QED BY <1>2, <1>4, <1>5
\* The first part of a list.
LEMMA PrefixIs ==
  ASSUME NEW T, NEW s \in Seq(T), NEW n \in Nat
  PROVE  /\ Prefix(s, n) \in Seq(T)
         /\ Len(s) <= n => Prefix(s, n) = s
         /\ s # <<>> /\ n # 0 => Prefix(s, n) # <<>>
<1>1. PICK m, l : l = Len(s) /\ m = IF n < l THEN n ELSE l
  OBVIOUS
<1>2. l \in Nat /\ \A i \in 1..l : s[i] \in T
  BY <1>1, ListIs
<1>3. m \in Nat /\ m <= l /\ (l <= n => m = l)
  BY <1>1, <1>2
<1>4. 1 \in Int /\ m \in Int /\ \A i \in 1..m : s[i] \in T
  <2>1. \A i \in 1..m : i \in 1..l
    BY <1>2, <1>3
  <2>2. QED BY <1>2, <1>3, <2>1
<1>5. PICK t : t = SubSeq(s, 1, m)
  OBVIOUS
<1>6. t \in Seq(T) /\ Len(t) = IF 1 <= m THEN m - 1 + 1 ELSE 0
  BY <1>4, <1>5, SubSeqProperties
<1>7. Prefix(s, n) = t
  BY <1>1, <1>5 DEF Prefix
<1>8. l <= n => t = s
  BY <1>1, <1>3, <1>5, SubSeqFull
<1>9. ASSUME s # <<>>, n # 0 PROVE t # <<>>
  <2>1. l # 0
    BY <1>1, <1>9, EmptySeq
  <2>2. m # 0
    BY <1>1, <1>2, <1>9, <2>1
  <2>3. Len(t) = m
    BY <1>3, <1>6, <2>2
  <2>4. Len(<<>>) = 0
    OBVIOUS
  <2>5. QED BY <2>2, <2>3, <2>4
<1>10. QED BY <1>1, <1>6, <1>7, <1>8, <1>9

\* A color cleaned is a text.
LEMMA CleanIs ==
  ASSUME NEW color \in Seq(Seq(Letters)), NEW joiner \in Seq(Letters)
  PROVE  Clean(color, joiner) \in Seq(Letters)
<1>1. PICK n, W : n = Len(color) /\ W = Seq(Letters)
  OBVIOUS
<1>2. color \in Seq(W) /\ joiner \in W
  BY <1>1
<1>3. n \in Nat /\ DOMAIN color = 1..n /\ \A i \in 1..n : color[i] \in W
  BY <1>1, <1>2, ListIs
<1>4. PICK ss : ss = [i \in DOMAIN color |-> IF i = 1 THEN color[1] ELSE joiner \o color[i]]
  OBVIOUS
<1>5. ASSUME NEW i \in 1..n PROVE ss[i] \in Seq(Letters)
  <2>1. color[i] \in Seq(Letters)
    BY <1>1, <1>3
  <2>2. joiner \o color[i] \in Seq(Letters)
    BY <2>1, ConcatProperties
  <2>3. ss[i] = IF i = 1 THEN color[1] ELSE joiner \o color[i]
    BY <1>3, <1>4
  <2>4. QED BY <2>1, <2>2, <2>3
<1>6. ListsOf(ss, n, Letters)
  BY <1>3, <1>4, <1>5 DEF ListsOf
<1>7. Laid(ss) \in Seq(Letters)
  BY <1>3, <1>6, LaidIsLaidOut
<1>8. QED BY <1>4, <1>7 DEF Clean

\* Prefixes that tell texts apart are found, when the texts are apart themselves.
LEMMA InitialsApart ==
  ASSUME NEW colors \in SUBSET Seq(Seq(Letters)), IsFiniteSet(colors), CleanApart(colors, <<>>)
  PROVE  \A c, d \in colors :
           /\ InitialSuffixes(colors)[c] \in Seq(Letters) /\ InitialSuffixes(colors)[c] # <<>>
           /\ InitialSuffixes(colors)[c] = InitialSuffixes(colors)[d] => c = d
<1>1. SUFFICES ASSUME colors # {}
      PROVE  \A c, d \in colors :
               /\ InitialSuffixes(colors)[c] \in Seq(Letters) /\ InitialSuffixes(colors)[c] # <<>>
               /\ InitialSuffixes(colors)[c] = InitialSuffixes(colors)[d] => c = d
  OBVIOUS
<1>2. PICK text : text = [c \in colors |-> Clean(c, <<>>)]
  OBVIOUS
<1>3. \A c \in colors : text[c] \in Seq(Letters) /\ text[c] # <<>>
  <2>1. <<>> \in Seq(Letters)
    BY EmptySeq
  <2>2. \A c \in colors : Clean(c, <<>>) \in Seq(Letters)
    BY <2>1, CleanIs
  <2>3. QED BY <1>2, <2>2 DEF CleanApart
<1>4. \A c, d \in colors : text[c] = text[d] => c = d
  BY <1>2 DEF CleanApart
<1>5. \A c \in colors : Len(text[c]) \in Nat \ {0}
  BY <1>3, EmptySeq
<1>6. PICK L, longest : L = {Len(Clean(c, <<>>)) : c \in colors} /\ longest = Max(L)
  OBVIOUS
<1>7. \A l : l \in L <=> \E c \in colors : l = Len(text[c])
  BY <1>2, <1>6
<1>8. IsFiniteSet(L)
  <2>1. PICK g : g = [c \in colors |-> Len(text[c])]
    OBVIOUS
  <2>2. g \in Surjection(colors, L)
    BY <1>7, <2>1 DEF Surjection
  <2>3. QED BY <2>2, FS_Surjection
<1>9. L \in SUBSET Int /\ L # {}
  BY <1>1, <1>5, <1>7
<1>10. longest \in L /\ \A l \in L : l <= longest
  BY <1>6, <1>8, <1>9, FirstAndLast
<1>11. longest \in Nat \ {0} /\ \A c \in colors : Len(text[c]) <= longest
  BY <1>5, <1>7, <1>10
<1> DEFINE cut(n) == [c \in colors |-> Prefix(Clean(c, <<>>), n)]
           apart == {n \in 1..longest : Cardinality({cut(n)[c] : c \in colors}) = Cardinality(colors)}
<1>12. \A n : \A c \in colors : cut(n)[c] = Prefix(text[c], n)
  BY <1>2
<1>13. InitialSuffixes(colors) = cut(IF apart = {} THEN longest ELSE Min(apart))
  BY <1>6 DEF InitialSuffixes
<1>14. longest \in apart
  <2>1. \A c \in colors : cut(longest)[c] = text[c]
    <3>1. ASSUME NEW c \in colors PROVE cut(longest)[c] = text[c]
      <4>1. PICK s : s = text[c]
        OBVIOUS
      <4>2. s \in Seq(Letters) /\ Len(s) <= longest
        BY <1>3, <1>11, <4>1
      <4>3. Prefix(s, longest) = s
        BY <1>11, <4>2, PrefixIs
      <4>4. QED BY <1>12, <4>1, <4>3
    <3>2. QED BY <3>1
  <2>2. PICK T : T = {cut(longest)[c] : c \in colors}
    OBVIOUS
  <2>3. \A t : t \in T <=> \E c \in colors : t = text[c]
    BY <2>1, <2>2
  <2>4. text \in Surjection(colors, T)
    BY <1>2, <2>3 DEF Surjection
  <2>5. text \in Injection(colors, T)
    BY <1>2, <1>4, <2>3 DEF Injection, IsInjective
  <2>6. Cardinality(T) = Cardinality(colors)
    BY <2>4, <2>5, FS_Surjection
  <2>7. longest \in 1..longest
    BY <1>11
  <2>8. QED BY <2>2, <2>6, <2>7
<1>15. PICK n : n = Min(apart)
  OBVIOUS
<1>16. n \in apart
  <2>1. apart \in SUBSET (1..longest) /\ apart # {} /\ longest \in Nat
    BY <1>11, <1>14
  <2> HIDE DEF apart
  <2>2. QED BY <1>15, <2>1, FirstAndLastPlace
<1>17. InitialSuffixes(colors) = cut(n)
  <2>1. apart # {}
    BY <1>16
  <2> HIDE DEF apart, cut
  <2>2. QED BY <1>13, <1>15, <2>1
<1>18. n \in Nat \ {0}
  BY <1>11, <1>16
<1>19. PICK h : h = cut(n)
  OBVIOUS
<1>20. \A c \in colors : h[c] = Prefix(text[c], n)
  BY <1>12, <1>19
<1>21. \A c \in colors : h[c] \in Seq(Letters) /\ h[c] # <<>>
  <2>1. ASSUME NEW c \in colors PROVE h[c] \in Seq(Letters) /\ h[c] # <<>>
    <3>1. PICK s : s = text[c]
      OBVIOUS
    <3>2. s \in Seq(Letters) /\ s # <<>> /\ n \in Nat /\ n # 0
      BY <1>3, <1>18, <3>1
    <3>3. Prefix(s, n) \in Seq(Letters) /\ Prefix(s, n) # <<>>
      BY <3>2, PrefixIs
    <3>4. QED BY <1>20, <3>1, <3>3
  <2>2. QED BY <2>1
<1>22. \A c, d \in colors : h[c] = h[d] => c = d
  <2>1. PICK T : T = {cut(n)[c] : c \in colors}
    OBVIOUS
  <2>2. Cardinality(T) = Cardinality(colors)
    BY <1>16, <2>1
  <2>3. \A t : t \in T <=> \E c \in colors : t = h[c]
    <3> HIDE DEF cut
    <3>1. QED BY <1>19, <2>1
  <2>4. h = [c \in colors |-> Prefix(Clean(c, <<>>), n)]
    BY <1>19
  <2>5. h \in Surjection(colors, T)
    BY <2>3, <2>4 DEF Surjection
  <2>6. h \in Injection(colors, T)
    BY <2>2, <2>5, FS_Surjection
  <2>7. QED BY <2>6 DEF Injection, IsInjective
<1> HIDE DEF cut, apart
<1>23. QED BY <1>17, <1>19, <1>21, <1>22

\* What the suffixes of the colors of a product need.
ApartBy(colors, mode, sep) ==
  \/ mode = "color" /\ CleanApart(colors, sep)
  \/ mode = "initial" /\ CleanApart(colors, <<>>)

\* Different colors have different suffixes.
LEMMA SuffixesApart ==
  ASSUME NEW vs \in Seq(Variant), NEW mode, NEW sep \in Seq(Letters),
         ApartBy(ColorsOf(vs) \ {Colorless}, mode, sep), NEW c \in ColorsOf(vs), NEW d \in ColorsOf(vs)
  PROVE  /\ Suffix(mode, sep, vs, c) \in Seq(Letters)
         /\ Suffix(mode, sep, vs, c) = Suffix(mode, sep, vs, d) => c = d
<1>1. PICK C : C = ColorsOf(vs) \ {Colorless}
  OBVIOUS
<1>2. C \in SUBSET Seq(Seq(Letters)) /\ IsFiniteSet(C) /\ ColorsOf(vs) = C \cup (ColorsOf(vs) \cap {Colorless})
  <2>1. IsFiniteSet(ColorsOf(vs)) /\ ColorsOf(vs) \in SUBSET Seq(Seq(Letters))
    BY ColorsAre
  <2>2. IsFiniteSet(C)
    BY <1>1, <2>1, FS_Subset
  <2>3. QED BY <1>1, <2>1, <2>2
<1>3. PICK s : s = [e \in ColorsOf(vs) |-> Suffix(mode, sep, vs, e)]
  OBVIOUS
<1>4. mode \in {"color", "initial"} /\ ApartBy(C, mode, sep)
  BY <1>1 DEF ApartBy
<1>5. \A e \in ColorsOf(vs) : e = Colorless => s[e] = <<>>
  BY <1>3 DEF Suffix
<1>6. \A e \in C : s[e] \in Seq(Letters) /\ s[e] # <<>>
  <2>1. CASE mode = "initial"
    <3>1. \A e \in C : s[e] = InitialSuffixes(C)[e]
      BY <1>1, <1>3, <2>1 DEF Suffix
    <3>2. CleanApart(C, <<>>)
      BY <1>4, <2>1 DEF ApartBy
    <3>3. QED BY <1>2, <3>1, <3>2, InitialsApart
  <2>2. CASE mode = "color"
    <3>1. \A e \in C : s[e] = Clean(e, sep)
      BY <1>1, <1>3, <2>2 DEF Suffix
    <3>2. CleanApart(C, sep)
      BY <1>4, <2>2 DEF ApartBy
    <3>3. \A e \in C : Clean(e, sep) \in Seq(Letters)
      BY <1>2, CleanIs
    <3>4. QED BY <3>1, <3>2, <3>3 DEF CleanApart
  <2>3. QED BY <1>4, <2>1, <2>2
<1>7. \A e, f \in C : s[e] = s[f] => e = f
  <2>1. CASE mode = "initial"
    <3>1. \A e \in C : s[e] = InitialSuffixes(C)[e]
      BY <1>1, <1>3, <2>1 DEF Suffix
    <3>2. CleanApart(C, <<>>)
      BY <1>4, <2>1 DEF ApartBy
    <3>3. QED BY <1>2, <3>1, <3>2, InitialsApart
  <2>2. CASE mode = "color"
    <3>1. \A e \in C : s[e] = Clean(e, sep)
      BY <1>1, <1>3, <2>2 DEF Suffix
    <3>2. CleanApart(C, sep)
      BY <1>4, <2>2 DEF ApartBy
    <3>3. QED BY <3>1, <3>2 DEF CleanApart
  <2>3. QED BY <1>4, <2>1, <2>2
<1>8. <<>> \in Seq(Letters)
  BY EmptySeq
<1>9. \A e \in ColorsOf(vs) : e \in C \/ e = Colorless
  BY <1>1
<1>10. s[c] \in Seq(Letters) /\ (s[c] = s[d] => c = d)
  BY <1>5, <1>6, <1>7, <1>8, <1>9
<1>11. QED BY <1>3, <1>10

\* A reference tells the suffix behind it.
LEMMA RefsTell ==
  ASSUME NEW ref \in Seq(Letters), NEW sep \in Seq(Letters), NEW s \in Seq(Letters),
         NEW t \in Seq(Letters), RefOf(ref, sep, s) = RefOf(ref, sep, t)
  PROVE  s = t
<1>1. PICK a : a = ref \o sep
  OBVIOUS
<1>2. a \in Seq(Letters)
  BY <1>1, ConcatProperties
<1>3. \A u \in Seq(Letters) : RefOf(ref, sep, u) = IF u = <<>> THEN ref ELSE a \o u
  BY <1>1 DEF RefOf
<1>4. ASSUME NEW u \in Seq(Letters), u # <<>> PROVE a \o u # ref
  <2>1. PICK b : b = sep \o u
    OBVIOUS
  <2>2. b \in Seq(Letters) /\ b # <<>>
    <3>1. b \in Seq(Letters)
      BY <2>1, ConcatProperties
    <3>2. b # <<>>
      BY <1>4, <2>1, ConcatEqualIffEmpty
    <3>3. QED BY <3>1, <3>2
  <2>3. a \o u = ref \o b
    BY SMTT(20), <1>1, <2>1, ConcatAssociative
  <2>4. ref \o b # ref
    BY <2>2, ConcatEqualIffEmpty
  <2>5. QED BY <2>3, <2>4
<1>5. a \o s = a \o t => s = t
  BY <1>2, ConcatSimplifications
<1>6. QED BY <1>3, <1>4, <1>5

\* Splitting is a partition, whatever the product and the profile.
LEMMA SplitsPart ==
  ASSUME NEW product \in Parts, NEW mode, NEW sep \in Seq(Letters)
  PROVE  SplitIsPartition(product, mode, sep)
<1>1. PICK vs, sheets, ref : vs = product.variants /\ sheets = Split(product, mode, sep) /\ ref = product.ref
  OBVIOUS
<1>2. /\ \A c : At(AllVariants(sheets), InColor(AllVariants(sheets), c)) = At(vs, InColor(vs, c))
      /\ Len(sheets) > 1 => \A i \in DOMAIN sheets : Cardinality(ColorsOf(sheets[i].variants)) = 1
  BY <1>1, SplitKeepsAll
<1>3. /\ vs \in Seq(Variant) /\ ref \in Seq(Letters)
      /\ \/ FewColors(vs) /\ sheets = <<product>>
         \/ \E n \in Nat : \E cs : /\ ~FewColors(vs) /\ ListsColors(cs, n, vs) /\ DOMAIN sheets = 1..n
                                   /\ \A i \in 1..n : sheets[i] = SheetOf(product, mode, sep, cs[i])
  BY <1>1, SplitShape
<1>4. ASSUME ApartBy(ColorsOf(vs) \ {Colorless}, mode, sep),
             NEW i \in DOMAIN sheets, NEW j \in DOMAIN sheets, sheets[i].ref = sheets[j].ref
      PROVE  i = j
  <2>1. CASE FewColors(vs) /\ sheets = <<product>>
    BY <1>4, <2>1
  <2>2. ASSUME NEW n \in Nat, NEW cs, ListsColors(cs, n, vs), DOMAIN sheets = 1..n,
               \A k \in 1..n : sheets[k] = SheetOf(product, mode, sep, cs[k])
        PROVE  i = j
    <3>1. PICK c, d : c = cs[i] /\ d = cs[j]
      OBVIOUS
    <3>2. c \in ColorsOf(vs) /\ d \in ColorsOf(vs) /\ (c = d => i = j)
      BY <1>4, <2>2, <3>1 DEF ListsColors
    <3>3. PICK s, t : s = Suffix(mode, sep, vs, c) /\ t = Suffix(mode, sep, vs, d)
      OBVIOUS
    <3>4. sheets[i].ref = RefOf(ref, sep, s) /\ sheets[j].ref = RefOf(ref, sep, t)
      BY <1>1, <1>4, <2>2, <3>1, <3>3 DEF SheetOf
    <3>5. s \in Seq(Letters) /\ t \in Seq(Letters) /\ (s = t => c = d)
      BY <1>3, <1>4, <3>2, <3>3, SuffixesApart
    <3>6. s = t
      BY <1>3, <1>4, <3>4, <3>5, RefsTell
    <3>7. QED BY <3>2, <3>5, <3>6
  <2>3. QED BY <1>3, <2>1, <2>2
<1>5. PICK sets : sets = [i \in DOMAIN sheets |-> ColorsOf(sheets[i].variants)]
  OBVIOUS
<1>6. Len(sheets) > 1 => \A i \in DOMAIN sheets : Cardinality(sets[i]) = 1
  BY <1>2, <1>5
<1>7. QED BY <1>1, <1>2, <1>4, <1>5, <1>6 DEF SplitIsPartition, ApartBy
-----------------------------------------------------------------------------
(* What an import stages *)

\* A list that holds what n lists hold.
HoldsAll(t, ss, n) ==
  /\ \A k \in DOMAIN t : \E i \in 1..n : \E j \in DOMAIN ss[i] : t[k] = ss[i][j]
  /\ \A i \in 1..n : \A j \in DOMAIN ss[i] : \E k \in DOMAIN t : t[k] = ss[i][j]

\* What lists laid one after the other hold is what they held.
LEMMA LaidHolds ==
  ASSUME NEW T, NEW n \in Nat, NEW ss, ListsOf(ss, n, T)
  PROVE  Laid(ss) \in Seq(T) /\ HoldsAll(Laid(ss), ss, n)
<1>1. PICK t, P : t = Laid(ss) /\ P = Places(ss)
  OBVIOUS
<1>2. t \in Seq(T) /\ LaidOut(t, ss)
  BY <1>1, LaidIsLaidOut
<1>3. DOMAIN ss = 1..n
  BY DEF ListsOf
<1>4. /\ \A p \in P : p[1] \in 1..n /\ p[2] \in DOMAIN ss[p[1]]
      /\ \A i \in 1..n : \A j \in DOMAIN ss[i] : <<i, j>> \in P
  BY <1>1, <1>3 DEF Places
<1>5. PICK f \in [DOMAIN t -> P] : /\ \A k \in DOMAIN t : t[k] = ss[f[k][1]][f[k][2]]
                                   /\ \A p \in P : \E k \in DOMAIN t : f[k] = p
  BY <1>1, <1>2 DEF LaidOut
<1>6. ASSUME NEW k \in DOMAIN t PROVE \E i \in 1..n : \E j \in DOMAIN ss[i] : t[k] = ss[i][j]
  <2>1. f[k] \in P
    BY <1>5, <1>6
  <2>2. QED BY <1>4, <1>5, <1>6, <2>1
<1>7. ASSUME NEW i \in 1..n, NEW j \in DOMAIN ss[i] PROVE \E k \in DOMAIN t : t[k] = ss[i][j]
  <2>1. PICK k \in DOMAIN t : f[k] = <<i, j>>
    BY <1>4, <1>5, <1>7
  <2>2. f[k][1] = i /\ f[k][2] = j
    BY <2>1
  <2>3. QED BY <1>5, <2>1, <2>2
<1>8. HoldsAll(t, ss, n)
  BY <1>6, <1>7 DEF HoldsAll
<1>9. QED BY <1>1, <1>2, <1>8

\* A list is empty where it has no place.
LEMMA EmptyNowhere ==
  ASSUME NEW T, NEW s \in Seq(T)
  PROVE  s # <<>> <=> \E k \in DOMAIN s : TRUE
<1>1. DOMAIN s = 1..Len(s) /\ Len(s) \in Nat
  BY LenProperties
<1>2. s = <<>> <=> Len(s) = 0
  BY EmptySeq
<1>3. Len(s) # 0 <=> \E k \in 1..Len(s) : TRUE
  <2>1. Len(s) # 0 => 1 \in 1..Len(s)
    BY <1>1
  <2>2. Len(s) = 0 => 1..Len(s) = {}
    OBVIOUS
  <2>3. QED BY <2>1, <2>2
<1>4. QED BY <1>1, <1>2, <1>3

\* Lists laid one after the other are empty when all of them are.
LEMMA LaidEmpty ==
  ASSUME NEW T, NEW n \in Nat, NEW ss, ListsOf(ss, n, T)
  PROVE  Laid(ss) # <<>> <=> \E i \in 1..n : ss[i] # <<>>
<1>1. PICK t : t = Laid(ss)
  OBVIOUS
<1>2. t \in Seq(T) /\ HoldsAll(t, ss, n)
  BY <1>1, LaidHolds
<1>3. \A i \in 1..n : ss[i] \in Seq(T)
  BY DEF ListsOf
<1>4. t # <<>> <=> \E k \in DOMAIN t : TRUE
  BY <1>2, EmptyNowhere
<1>5. \A i \in 1..n : ss[i] # <<>> <=> \E j \in DOMAIN ss[i] : TRUE
  <2>1. ASSUME NEW i \in 1..n PROVE ss[i] # <<>> <=> \E j \in DOMAIN ss[i] : TRUE
    <3>1. ss[i] \in Seq(T)
      BY <1>3, <2>1
    <3>2. QED BY <3>1, EmptyNowhere
  <2>2. QED BY <2>1
<1>6. (\E k \in DOMAIN t : TRUE) <=> \E i \in 1..n : \E j \in DOMAIN ss[i] : TRUE
  BY <1>2 DEF HoldsAll
<1>7. QED BY <1>1, <1>4, <1>5, <1>6

\* The sheets of one product, split or not.
SheetsOf(product, profile) ==
  IF profile.split THEN Split(product, profile.mode, profile.sep) ELSE <<product>>

\* They are a list, and hold the variants of the product.
LEMMA SheetsOfOne ==
  ASSUME NEW product \in Parts, NEW profile, NEW sheets, sheets = SheetsOf(product, profile)
  PROVE  /\ \E m \in Nat : DOMAIN sheets = 1..m
         /\ sheets \in Seq(Range(sheets))
         /\ \A i \in DOMAIN sheets : sheets[i].variants \in Seq(Variant)
         /\ product.variants # <<>> <=> \E i \in DOMAIN sheets : sheets[i].variants # <<>>
<1>1. /\ \E m \in Nat : DOMAIN sheets = 1..m
      /\ \A i \in DOMAIN sheets : sheets[i].variants \in Seq(Variant)
      /\ product.variants # <<>> <=> \E i \in DOMAIN sheets : sheets[i].variants # <<>>
  <2>1. CASE profile.split
    <3>1. PICK vs : vs = product.variants
      OBVIOUS
    <3>2. sheets = Split(product, profile.mode, profile.sep)
      BY <2>1 DEF SheetsOf
    <3>3. /\ \E m \in Nat : DOMAIN sheets = 1..m
          /\ \A i \in DOMAIN sheets : sheets[i].variants \in Seq(Variant)
          /\ vs # <<>> <=> \E i \in DOMAIN sheets : sheets[i].variants # <<>>
      BY <3>1, <3>2, SplitKeepsAll
    <3>4. QED BY <3>1, <3>3
  <2>2. CASE ~profile.split
    <3>1. sheets = <<product>>
      BY <2>2 DEF SheetsOf
    <3>2. DOMAIN sheets = 1..1 /\ 1..1 = {1} /\ sheets[1] = product /\ 1 \in Nat
      BY <3>1
    <3>3. product.variants \in Seq(Variant)
      BY DEF Parts, Variant
    <3>4. QED BY <3>2, <3>3
  <2>3. QED BY <2>1, <2>2
<1>2. sheets \in Seq(Range(sheets))
  <2>1. PICK m \in Nat : DOMAIN sheets = 1..m
    BY <1>1
  <2>2. sheets = [i \in 1..m |-> sheets[i]]
    <3>1. CASE profile.split
      <4>1. sheets = Split(product, profile.mode, profile.sep)
        BY <3>1 DEF SheetsOf
      <4>2. PICK vs : vs = product.variants
        OBVIOUS
      <4>3. sheets = IF FewColors(vs) THEN <<product>>
              ELSE [i \in DOMAIN OrderOf(vs) |-> SheetOf(product, profile.mode, profile.sep, OrderOf(vs)[i])]
        BY <4>1, <4>2, SplitIs
      <4>4. CASE FewColors(vs)
        BY <2>1, <4>3, <4>4
      <4>5. CASE ~FewColors(vs)
        BY <2>1, <4>3, <4>5
      <4>6. QED BY <4>4, <4>5
    <3>2. CASE ~profile.split
      BY <2>1, <3>2 DEF SheetsOf
    <3>3. QED BY <3>1, <3>2
  <2>3. \A i \in 1..m : sheets[i] \in Range(sheets)
    BY <2>1 DEF Range
  <2>4. sheets \in [1..m -> Range(sheets)]
    BY <2>2, <2>3
  <2>5. QED BY <2>1, <2>4
<1>3. QED BY <1>1, <1>2
\* The sheets of a list of products: a list, and no variant comes or goes.
LEMMA SheetsAre ==
  ASSUME NEW products \in Seq(Parts), NEW profile, NEW sheets, sheets = Sheets(products, profile)
  PROVE  /\ Len(sheets) \in Nat /\ DOMAIN sheets = 1..Len(sheets)
         /\ sheets = [i \in DOMAIN sheets |-> sheets[i]]
         /\ AllVariants(sheets) # <<>> <=> \E i \in DOMAIN products : products[i].variants # <<>>
<1>1. PICK n, ss, T : /\ n = Len(products) /\ ss = [i \in DOMAIN products |-> SheetsOf(products[i], profile)]
                      /\ T = UNION {Range(SheetsOf(p, profile)) : p \in Parts}
  OBVIOUS
<1>2. n \in Nat /\ DOMAIN products = 1..n
  BY <1>1, ListIs
<1>3. \A i \in 1..n : products[i] \in Parts
  BY <1>1, ListIs
<1>4. \A i \in 1..n : ss[i] = SheetsOf(products[i], profile)
  BY <1>1, <1>2
<1>5. sheets = Laid(ss)
  <2>1. ss = [i \in DOMAIN products |-> IF profile.split THEN Split(products[i], profile.mode, profile.sep)
                                        ELSE <<products[i]>>]
    BY <1>1 DEF SheetsOf
  <2>2. QED BY <2>1 DEF Sheets
<1>6. ASSUME NEW i \in 1..n
      PROVE  /\ ss[i] \in Seq(T) /\ \A j \in DOMAIN ss[i] : ss[i][j].variants \in Seq(Variant)
             /\ products[i].variants # <<>> <=> \E j \in DOMAIN ss[i] : ss[i][j].variants # <<>>
  <2>1. PICK product, s : product = products[i] /\ s = SheetsOf(product, profile)
    OBVIOUS
  <2>2. product \in Parts /\ ss[i] = s
    BY <1>3, <1>4, <1>6, <2>1
  <2>3. /\ s \in Seq(Range(s)) /\ \A j \in DOMAIN s : s[j].variants \in Seq(Variant)
        /\ product.variants # <<>> <=> \E j \in DOMAIN s : s[j].variants # <<>>
    BY <2>1, <2>2, SheetsOfOne
  <2>4. Range(s) \subseteq T
    BY <1>1, <2>1, <2>2
  <2>5. s \in Seq(T)
    BY <2>3, <2>4
  <2>6. QED BY <2>1, <2>2, <2>3, <2>5
<1>7. ListsOf(ss, n, T)
  <2>1. DOMAIN ss = 1..n
    BY <1>1, <1>2
  <2>2. QED BY <1>6, <2>1 DEF ListsOf
<1>8. /\ sheets \in Seq(T)
      /\ \A k \in DOMAIN sheets : \E i \in 1..n : \E j \in DOMAIN ss[i] : sheets[k] = ss[i][j]
      /\ \A i \in 1..n : \A j \in DOMAIN ss[i] : \E k \in DOMAIN sheets : sheets[k] = ss[i][j]
  <2>1. n \in Nat
    BY <1>2
  <2>2. sheets \in Seq(T) /\ HoldsAll(sheets, ss, n)
    BY <1>5, <1>7, <2>1, LaidHolds
  <2>3. QED BY <2>2 DEF HoldsAll
<1>9. Len(sheets) \in Nat /\ DOMAIN sheets = 1..Len(sheets)
  BY <1>8, LenProperties
<1>10. sheets = [i \in DOMAIN sheets |-> sheets[i]]
  BY <1>8
<1>11. PICK m, vs : m = Len(sheets) /\ vs = [i \in DOMAIN sheets |-> sheets[i].variants]
  OBVIOUS
<1>12. m \in Nat /\ DOMAIN vs = 1..m /\ DOMAIN sheets = 1..m
  BY <1>9, <1>11
<1>13. \A k \in 1..m : vs[k] \in Seq(Variant)
  <2>1. ASSUME NEW k \in 1..m PROVE vs[k] \in Seq(Variant)
    <3>1. PICK i \in 1..n : \E j \in DOMAIN ss[i] : sheets[k] = ss[i][j]
      BY <1>8, <1>12, <2>1
    <3>2. PICK j \in DOMAIN ss[i] : sheets[k] = ss[i][j]
      BY <3>1
    <3>3. ss[i][j].variants \in Seq(Variant)
      BY <1>6, <3>1, <3>2
    <3>4. QED BY <1>11, <1>12, <2>1, <3>2, <3>3
  <2>2. QED BY <2>1
<1>14. ListsOf(vs, m, Variant)
  BY <1>12, <1>13 DEF ListsOf
<1>15. AllVariants(sheets) # <<>> <=> \E k \in 1..m : vs[k] # <<>>
  <2>1. Laid(vs) # <<>> <=> \E k \in 1..m : vs[k] # <<>>
    BY <1>12, <1>14, LaidEmpty
  <2>2. QED BY <1>11, <2>1 DEF AllVariants
<1>16. \A k \in 1..m : vs[k] = sheets[k].variants
  BY <1>11, <1>12
<1>17. (\E k \in 1..m : vs[k] # <<>>) <=> \E i \in 1..n : products[i].variants # <<>>
  <2>1. ASSUME NEW k \in 1..m, vs[k] # <<>> PROVE \E i \in 1..n : products[i].variants # <<>>
    <3>1. PICK i \in 1..n : \E j \in DOMAIN ss[i] : sheets[k] = ss[i][j]
      BY <1>8, <1>12, <2>1
    <3>2. PICK j \in DOMAIN ss[i] : sheets[k] = ss[i][j]
      BY <3>1
    <3>3. ss[i][j].variants # <<>>
      BY <1>16, <2>1, <3>2
    <3>4. QED BY <1>6, <3>1, <3>2, <3>3
  <2>2. ASSUME NEW i \in 1..n, products[i].variants # <<>> PROVE \E k \in 1..m : vs[k] # <<>>
    <3>1. PICK j \in DOMAIN ss[i] : ss[i][j].variants # <<>>
      BY <1>6, <2>2
    <3>2. PICK k \in DOMAIN sheets : sheets[k] = ss[i][j]
      BY <1>8, <2>2, <3>1
    <3>3. QED BY <1>12, <1>16, <3>1, <3>2
  <2>3. QED BY <2>1, <2>2
<1>18. QED BY <1>2, <1>9, <1>10, <1>15, <1>17

\* A sheet warns of the reference it has: what staging makes of the sheets.
LEMMA StagedAre ==
  ASSUME NEW sheets, Len(sheets) \in Nat, DOMAIN sheets = 1..Len(sheets),
         sheets = [i \in DOMAIN sheets |-> sheets[i]],
         NEW warned, NEW existing, NEW s, s = StageSheets(sheets, warned, existing)
  PROVE  /\ s.credits = Len(s.items) /\ s.status = "completed"
         /\ [i \in DOMAIN s.items |-> s.items[i].sheet] = sheets
         /\ \A i \in DOMAIN s.items :
              (s.items[i].sheet.ref \in existing) <=> ("existing" \in s.items[i].warnings)
<1>1. PICK n, items : n = Len(sheets) /\ items = s.items
  OBVIOUS
<1>2. /\ s.credits = n /\ s.status = "completed"
      /\ items = [i \in 1..n |-> [sheet |-> sheets[i],
                                  warnings |-> ReplaceWarning({}, sheets[i].ref \in existing)]]
  BY <1>1 DEF StageSheets
<1>3. n \in Nat /\ DOMAIN items = 1..n
  BY <1>1, <1>2
<1>4. Len(items) = n
  BY <1>2, <1>3
<1>5. \A i \in 1..n : /\ items[i].sheet = sheets[i]
                      /\ items[i].warnings = ReplaceWarning({}, sheets[i].ref \in existing)
  BY <1>2
<1>6. [i \in DOMAIN items |-> items[i].sheet] = sheets
  BY <1>1, <1>3, <1>5
<1>7. \A i \in DOMAIN items : (items[i].sheet.ref \in existing) <=> ("existing" \in items[i].warnings)
  <2>1. ASSUME NEW i \in 1..n
        PROVE  (items[i].sheet.ref \in existing) <=> ("existing" \in items[i].warnings)
    BY <1>5, <2>1 DEF ReplaceWarning
  <2>2. QED BY <1>3, <2>1
<1>8. QED BY <1>1, <1>2, <1>4, <1>6, <1>7

\* What is staged is what is paid for, whatever becomes of the call.
LEMMA StagingIsPaid ==
  ASSUME NEW selection, NEW stop, NEW readable, NEW products \in Seq(Parts), NEW profile, NEW existing
  PROVE  StagedIsPaid(selection, stop, readable, products, profile, existing)
<1>1. PICK s, sheets, warned : /\ s = Process(selection, stop, readable, products, profile, existing)
                               /\ sheets = Sheets(products, profile)
                               /\ warned = (Outcome(stop, readable) = "warned")
  OBVIOUS
<1>2. CASE Fileless(selection) \/ Outcome(stop, readable) = "failed"
  <2>1. s = [status |-> "failed", items |-> <<>>, credits |-> 0, warned |-> FALSE]
    BY <1>1, <1>2 DEF Process
  <2>2. s.credits = Len(s.items) /\ s.status = "failed" /\ s.items = <<>> /\ DOMAIN s.items = {}
    BY <2>1
  <2>3. "failed" # "completed"
    OBVIOUS
  <2>4. PaidFor(s, products, existing)
    BY <2>2, <2>3 DEF PaidFor
  <2>5. QED BY <1>1, <2>4 DEF StagedIsPaid
<1>3. CASE ~(Fileless(selection) \/ Outcome(stop, readable) = "failed")
  <2>1. s = StageSheets(sheets, warned, existing)
    BY <1>1, <1>3 DEF Process
  <2>2. /\ Len(sheets) \in Nat /\ DOMAIN sheets = 1..Len(sheets)
        /\ sheets = [i \in DOMAIN sheets |-> sheets[i]]
        /\ AllVariants(sheets) # <<>> <=> \E i \in DOMAIN products : products[i].variants # <<>>
    BY <1>1, SheetsAre
  <2>3. /\ s.credits = Len(s.items) /\ s.status = "completed"
        /\ [i \in DOMAIN s.items |-> s.items[i].sheet] = sheets
        /\ \A i \in DOMAIN s.items :
             (s.items[i].sheet.ref \in existing) <=> ("existing" \in s.items[i].warnings)
    BY <2>1, <2>2, StagedAre
  <2>4. "failed" # "completed"
    OBVIOUS
  <2>5. PaidFor(s, products, existing)
    BY <2>2, <2>3, <2>4 DEF PaidFor
  <2>6. QED BY <1>1, <2>5 DEF StagedIsPaid
<1>4. QED BY <1>2, <1>3
-----------------------------------------------------------------------------
(* ImportIsSound *)

\* What a request of the parsing may carry: the inductive invariant.  Each request is
\* of what its own action takes, so that the lemmas above apply to it.
AskedOfNumbers ==
  /\ parsed.asked = "price" => PrintedForm(parsed.price)
  /\ parsed.asked = "code" => parsed.payload \in Seq(0..9) /\ Len(parsed.payload) \in {7, 11, 12, 13}
AskedOfAnswers ==
  /\ parsed.asked = "answer" =>
       /\ IsLot(parsed.docs)
       /\ \E c : c \notin {"zero", "one"} /\ parsed.conf = [f \in Fields |-> c]
  /\ parsed.asked = "table" => parsed.doc \in Documents
  /\ parsed.asked = "category" => 0 \notin DOMAIN parsed.tree
AskedOfProducts ==
  /\ parsed.asked = "color" => parsed.tokens \in PrintedColors
  /\ parsed.asked = "split" => parsed.product \in Parts /\ parsed.profile.sep \in Seq(Letters)
  /\ parsed.asked = "import" => parsed.products \in Seq(Parts)
  /\ parsed.asked = "profile" => parsed.profiles \in SUBSET AccountProfiles /\ Rows(parsed.profiles)
ParsingAsked == AskedOfNumbers /\ AskedOfAnswers /\ AskedOfProducts

\* Before anything is asked.
LEMMA FirstAsked == ParsedInit => ParsingAsked
BY DEF ParsedInit, ParsingAsked, AskedOfNumbers, AskedOfAnswers, AskedOfProducts

\* Every request carries what it may.
LEMMA ParsingAsks ==
  ASSUME ParsedNext
  PROVE  ParsingAsked'
<1> USE DEF ParsingAsked, AskedOfNumbers, AskedOfAnswers, AskedOfProducts
<1>1. ASSUME NEW p \in PrintedPrices, ReadPrice(p) PROVE ParsingAsked'
  <2>1. PrintedForm(p)
    BY <1>1, ImportAssumption DEF ImportAssumption
  <2>2. QED BY <1>1, <2>1 DEF ReadPrice
<1>2. ASSUME NEW n \in Grams, NEW u \in WeightUnits, ReadWeight(n, u) PROVE ParsingAsked'
  BY <1>2 DEF ReadWeight
<1>3. ASSUME NEW p \in Payloads, ReadCode(p) PROVE ParsingAsked'
  <2>1. p \in Seq(0..9) /\ Len(p) \in {7, 11, 12, 13}
    BY <1>3, ImportAssumption DEF ImportAssumption
  <2>2. QED BY <1>3, <2>1 DEF ReadCode
<1>4. ASSUME NEW docs \in Lots, NEW raw \in RawVariants, NEW c \in Confidences, CheckAnswer(docs, raw, c)
      PROVE  ParsingAsked'
  <2>1. IsLot(docs) /\ c \notin {"zero", "one"}
    BY <1>4, ImportAssumption DEF ImportAssumption, IsLot
  <2>2. parsed'.asked = "answer" /\ parsed'.docs = docs /\ parsed'.conf = [f \in Fields |-> c]
    BY <1>4 DEF CheckAnswer
  <2>3. QED BY <2>1, <2>2
<1>5. ASSUME NEW d \in Documents, ShowTable(d) PROVE ParsingAsked'
  BY <1>5 DEF ShowTable
<1>6. ASSUME NEW t \in Trees, NEW label \in Labels, PlaceCategory(t, label) PROVE ParsingAsked'
  <2>1. 0 \notin DOMAIN t
    BY <1>6, ImportAssumption DEF ImportAssumption
  <2>2. QED BY <1>6, <2>1 DEF PlaceCategory
<1>7. ASSUME NEW tokens \in PrintedColors, ReadColor(tokens) PROVE ParsingAsked'
  BY <1>7 DEF ReadColor
<1>8. ASSUME NEW p \in Products, NEW f \in Profiles, SplitProduct(p, f) PROVE ParsingAsked'
  <2>1. p \in Parts /\ f.sep \in Seq(Letters)
    <3>1. Products \subseteq Parts
          /\ Profiles \subseteq [split : BOOLEAN, mode : {"color", "initial", "code", "none"},
                                 sep : Seq(Letters)]
      BY ImportAssumption DEF ImportAssumption
    <3>2. QED BY <1>8, <3>1
  <2>2. QED BY <1>8, <2>1 DEF SplitProduct
<1>9. ASSUME NEW s \in Selections, NEW stop \in Stops, NEW readable \in BOOLEAN, NEW ps \in Orders,
             NEW f \in Profiles, NEW e \in SUBSET Existing, StageImport(s, stop, readable, ps, f, e)
      PROVE  ParsingAsked'
  <2>1. ps \in Seq(Parts)
    BY <1>9, ImportAssumption DEF ImportAssumption
  <2>2. QED BY <1>9, <2>1 DEF StageImport
<1>10. ASSUME NEW ps \in SUBSET AccountProfiles, Rows(ps),
              NEW chosen, NEW owner, NEW s \in Suppliers, NEW t \in Typed,
              AttachProfile(chosen, owner, ps, s, t)
       PROVE  ParsingAsked'
  BY <1>10 DEF AttachProfile
<1>11. QED BY <1>1, <1>2, <1>3, <1>4, <1>5, <1>6, <1>7, <1>8, <1>9, <1>10 DEF ParsedNext

\* What is asked within these bounds is answered soundly: one step for each request.
LEMMA AskedIsSound == ParsingAsked => ImportIsSound
<1> SUFFICES ASSUME ParsingAsked PROVE ImportIsSound
  OBVIOUS
<1>1. AskedOfNumbers /\ AskedOfAnswers /\ AskedOfProducts
  BY DEF ParsingAsked
<1>2. NumbersReadAlike
  <2>1. ASSUME parsed.asked = "price" PROVE PriceReadersAgree(parsed.price) /\ NoDigitLost(parsed.price)
    <3>1. PrintedForm(parsed.price)
      BY <1>1, <2>1 DEF AskedOfNumbers
    <3>2. QED BY <3>1, PricesReadAlike
  <2>2. WeightReadersAgree(parsed.number, parsed.unit)
    BY WeightsReadAlike
  <2>3. ASSUME parsed.asked = "code" PROVE BarcodeChecked(parsed.payload)
    <3>1. parsed.payload \in Seq(0..9) /\ Len(parsed.payload) \in {7, 11, 12, 13}
      BY <1>1, <2>3 DEF AskedOfNumbers
    <3>2. QED BY <3>1, CodesAreChecked
  <2>4. QED BY <2>1, <2>2, <2>3 DEF NumbersReadAlike
<1>3. ExtractionIsChecked
  <2>1. ASSUME parsed.asked = "answer",
               NEW docs, NEW raw, NEW conf, NEW v, docs = parsed.docs, raw = parsed.raw,
               conf = parsed.conf, v = ToVariant(raw, conf)
        PROVE  /\ NothingInvented(docs, raw, conf, ValidCodes)
               /\ \A i \in DOMAIN docs : LotOfOneAgrees(docs[i], v, ValidCodes)
               /\ \A d \in Documents : MoreFilesKeepMore(docs, d, v, ValidCodes)
    <3>1. PICK c : c \notin {"zero", "one"} /\ conf = [f \in Fields |-> c]
      BY <1>1, <2>1 DEF AskedOfAnswers
    <3>2. IsLot(docs)
      BY <1>1, <2>1 DEF AskedOfAnswers
    <3>3. v = ToVariant(raw, [f \in Fields |-> c])
      BY <2>1, <3>1
    <3>4. Answered(v)
      BY <3>1, <3>3, AnswersAre
    <3>5. NothingInvented(docs, raw, [f \in Fields |-> c], ValidCodes)
      BY <3>1, <3>2, NothingIsInvented
    <3>6. ASSUME NEW i \in DOMAIN docs PROVE LotOfOneAgrees(docs[i], v, ValidCodes)
      <4>1. PICK d : d = docs[i]
        OBVIOUS
      <4>2. d.kind \in {"tabular", "pdf"}
        BY <3>2, <3>6, <4>1, LotsAre
      <4>3. QED BY <3>4, <4>1, <4>2, LotsOfOneAgree
    <3>7. ASSUME NEW d \in Documents PROVE MoreFilesKeepMore(docs, d, v, ValidCodes)
      BY <3>2, <3>4, <3>7, MoreIsKept
    <3>8. QED BY <3>1, <3>5, <3>6, <3>7
  <2>2. ASSUME parsed.asked = "table" PROVE TruncationAnnounced(parsed.doc)
    <3>1. parsed.doc \in Documents
      BY <1>1, <2>2 DEF AskedOfAnswers
    <3>2. QED BY <3>1, CutsAreAnnounced
  <2>3. ASSUME parsed.asked = "category" PROVE CategoryIsVisible(parsed.tree, parsed.label)
    <3>1. 0 \notin DOMAIN parsed.tree
      BY <1>1, <2>3 DEF AskedOfAnswers
    <3>2. QED BY <3>1, LabelsAreShown
  <2>4. QED BY <2>1, <2>2, <2>3 DEF ExtractionIsChecked
<1>4. SheetsAreWhole
  <2>1. ASSUME parsed.asked = "color" PROVE ColorKeepsItsName(parsed.tokens)
    <3>1. parsed.tokens \in PrintedColors
      BY <1>1, <2>1 DEF AskedOfProducts
    <3>2. QED BY <3>1, NamesAreKept
  <2>2. ASSUME parsed.asked = "split"
        PROVE  SplitIsPartition(parsed.product, parsed.profile.mode, parsed.profile.sep)
    <3>1. parsed.product \in Parts /\ parsed.profile.sep \in Seq(Letters)
      BY <1>1, <2>2 DEF AskedOfProducts
    <3>2. QED BY <3>1, SplitsPart
  <2>3. ASSUME parsed.asked = "import"
        PROVE  StagedIsPaid(parsed.selection, parsed.stop, parsed.readable, parsed.products,
                            parsed.profile, parsed.existing)
    <3>1. parsed.products \in Seq(Parts)
      BY <1>1, <2>3 DEF AskedOfProducts
    <3>2. QED BY <3>1, StagingIsPaid
  <2>4. ASSUME parsed.asked = "profile"
        PROVE  ProfileIsOwn(parsed.chosen, parsed.account, parsed.profiles, parsed.supplier, parsed.typed)
    <3>1. parsed.profiles \in SUBSET AccountProfiles /\ Rows(parsed.profiles)
      BY <1>1, <2>4 DEF AskedOfProducts
    <3>2. QED BY <3>1, ProfilesAreOwn
  <2>5. QED BY <2>1, <2>2, <2>3, <2>4 DEF SheetsAreWhole
<1>5. QED BY <1>2, <1>3, <1>4 DEF ImportIsSound

\* What an import stages is what its documents say, for whatever documents, answers,
\* products, profiles and categories: printed numbers read alike by every reader
\* (extract.py, enrich/price.py, enrich/weights.py), nothing the model made up kept,
\* every variant in one sheet of its own color, and exactly the sheets paid for.
THEOREM ImportAlwaysSound == ParsedSpec => []ImportIsSound
<1>1. ParsedInit => ParsingAsked
  BY FirstAsked
<1>2. ParsingAsked /\ [ParsedNext]_parsed => ParsingAsked'
  <2>1. CASE ParsedNext
    BY <2>1, ParsingAsks
  <2>2. ASSUME ParsingAsked, UNCHANGED parsed PROVE ParsingAsked'
    BY <2>2 DEF ParsingAsked, AskedOfNumbers, AskedOfAnswers, AskedOfProducts
  <2>3. QED BY <2>1, <2>2
<1>3. ParsingAsked => ImportIsSound
  BY AskedIsSound
<1>4. QED BY <1>1, <1>2, <1>3, PTL DEF ParsedSpec

=============================================================================
