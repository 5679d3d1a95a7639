--------------------------- MODULE ProductGallery ---------------------------
(***************************************************************************)
(* The gallery of a Tillin product under the requests that edit it: the    *)
(* product page (routes/products.py) and the tools of the assistant        *)
(* (mcp/server.py).  Tillin can append an image, deactivate some and set   *)
(* positions, each in one call; there is no rename and no replacement, so  *)
(* a request reads the gallery and then makes one to three calls, while    *)
(* another does the same, and any of the calls may fail.                   *)
(***************************************************************************)
EXTENDS Ordering, SequencesExt

CONSTANTS
  Editors,       \* requests that may run at one time
  Opening,       \* images of the gallery at the start
  MaxImages,     \* bound: ids given by Tillin
  MaxRequests,   \* bound: requests accepted
  MaxFailures    \* bound: calls that raise

ASSUME GalleryAssumption == Opening \in Nat

VARIABLES
  image,         \* Tillin's rows: the picture shown, whether active, the position
  editor,        \* what each request is doing
  removed,       \* history: pictures somebody asked to take out of the gallery
  last,          \* history: the order the last request has asked for
  requests, failures

galleryVars == <<image, editor, removed, last, requests, failures>>

-----------------------------------------------------------------------------
Ids == DOMAIN image
Active == {i \in Ids : image[i].active}
Before(i, j) == \/ image[i].position < image[j].position
                \/ image[i].position = image[j].position /\ i < j
Order == {p \in Ids \X Ids : Before(p[1], p[2])}

\* get_product lists the active images in their order.
Listed == InOrder(Active, Order)
ListedBut(S) == InOrder(Active \ S, Order)
PictureOf(ids) == [n \in DOMAIN ids |-> image[ids[n]].picture]

\* Fault: the renamed image goes to the end of the gallery.
ReplacedAtEnd(ids, i, new) == Append(SelectSeq(ids, LAMBDA j : j # i), new)

Replaced(ids, i, new) == [n \in DOMAIN ids |-> IF ids[n] = i THEN new ELSE ids[n]]

\* The orders a page or a tool asks for, of images it has seen.
Asked(ids) == {ids, Reverse(ids)} \cup {<<ids[n]>> : n \in DOMAIN ids}

Idle == [pc |-> "idle", op |-> "none", ids |-> <<>>, gone |-> {}, want |-> <<>>, alone |-> TRUE]
Nothing == [want |-> <<>>, sure |-> FALSE]

GalleryInit ==
  /\ image = [i \in 1..Opening |-> [picture |-> i, active |-> TRUE, position |-> i]]
  /\ editor = [e \in Editors |-> Idle]
  /\ removed = {} /\ last = Nothing
  /\ requests = 0 /\ failures = 0

\* A call that changes the gallery spoils what the other requests have read.
Moves(e, r) ==
  editor' = [o \in Editors |-> IF o = e THEN r ELSE [editor[o] EXCEPT !.alone = FALSE]]

\* The request answers: its order stands until somebody else's call.
Ends(e) ==
  /\ Moves(e, Idle)
  /\ last' = [want |-> editor[e].want, sure |-> editor[e].alone]

-----------------------------------------------------------------------------
(* The requests: a page shows ids, the route reads the gallery again.      *)

\* The page or the assistant has read the product.
Open(e) ==
  /\ editor[e].pc = "idle"
  /\ editor' = [editor EXCEPT ![e] = [Idle EXCEPT !.pc = "open", !.ids = Listed]]
  /\ UNCHANGED <<image, removed, last, requests, failures>>

\* The route has read the gallery and refuses ids that are no longer in it.  An
\* image the page does not show yet is not refused, and keeps its position.
Accept(e, op, ids, gone, want, first) ==
  /\ editor[e].pc = "open" /\ requests < MaxRequests
  /\ requests' = requests + 1
  /\ (ToSet(ids) \cup gone) \subseteq Active
  /\ editor' = [editor EXCEPT ![e] =
                  [pc |-> first, op |-> op, ids |-> ids, gone |-> gone, want |-> want,
                   alone |-> first # "position" \/ ToSet(ids) = Active]]
  /\ UNCHANGED <<image, last, failures>>

\* reorder_product_images with the list the page shows.
Reorder(e) ==
  \E ids \in {s \in Asked(editor[e].ids) \ {<<>>} : ToSet(s) = ToSet(editor[e].ids)} :
    /\ Accept(e, "reorder", ids, {}, PictureOf(ids), "position")
    /\ UNCHANGED removed

\* delete_product_image.
Delete(e) ==
  \E i \in ToSet(editor[e].ids) :
    /\ Accept(e, "delete", <<>>, {i}, PictureOf(ListedBut({i})), "deactivate")
    /\ removed' = removed \cup {image[i].picture}

\* rename_product_image, once the bytes of the image were downloaded: the gallery
\* must show the same pictures in the same order.
Rename(e) ==
  \E i \in ToSet(editor[e].ids) :
    /\ Accept(e, "rename", Listed, {i}, PictureOf(Listed), "upload")
    /\ UNCHANGED removed

\* upload_product_images, the signed upload link and catalogai_add_product_images.
Add(e) ==
  /\ Accept(e, "add", <<>>, {}, Append(PictureOf(Listed), Len(image) + 1), "upload")
  /\ UNCHANGED removed

\* catalogai_arrange_product_images: the listed first, the others after them or out.
Arrange(e) ==
  \E wanted \in Asked(editor[e].ids) \ {<<>>}, remove_others \in BOOLEAN :
    LET others == ListedBut(ToSet(wanted))
        gone   == IF remove_others THEN ToSet(others) ELSE {}
        order  == IF remove_others THEN wanted ELSE wanted \o others
    IN
    /\ Accept(e, "arrange", order, gone, PictureOf(order),
              IF gone = {} THEN "position" ELSE "deactivate")
    /\ removed' = removed \cup {image[i].picture : i \in gone}

-----------------------------------------------------------------------------
(* The calls *)

Appended(picture) ==
  Append(image, [picture |-> picture, active |-> TRUE,
                 position |-> 1 + Len(image)])
Deactivated(S) == [i \in Ids |-> [image[i] EXCEPT !.active = @ /\ i \notin S]]
Positioned(ids) ==
  [i \in Ids |-> IF i \in ToSet(ids)
                 THEN [image[i] EXCEPT !.position = CHOOSE n \in DOMAIN ids : ids[n] = i]
                 ELSE image[i]]

PictureSent(r) ==
  IF r.op = "rename" THEN image[CHOOSE i \in r.gone : TRUE].picture ELSE Len(image) + 1

\* Fault: the answer of Tillin is not looked at.
UploadUnchecked(e) ==
  LET r == editor[e] IN
  /\ r.pc = "upload" /\ Len(image) < MaxImages
  /\ \E taken \in BOOLEAN :
       /\ image' = IF taken THEN Appended(PictureSent(r)) ELSE image
       /\ IF r.op = "rename"
          THEN Moves(e, [r EXCEPT !.pc = "deactivate",
                           !.ids = IF taken THEN Replaced(@, CHOOSE i \in r.gone : TRUE, Len(image) + 1)
                                   ELSE @]) /\ last' = Nothing
          ELSE Ends(e)
  /\ UNCHANGED <<removed, requests, failures>>

\* Tillin created the image.
Upload(e) ==
  LET r == editor[e] IN
  /\ r.pc = "upload" /\ Len(image) < MaxImages
  /\ image' = Appended(PictureSent(r))
  /\ IF r.op = "rename"
     THEN /\ Moves(e, [r EXCEPT !.pc = "deactivate",
                         !.ids = Replaced(@, CHOOSE i \in r.gone : TRUE, Len(image) + 1)])
          /\ last' = Nothing
     ELSE Ends(e)
  /\ UNCHANGED <<removed, requests, failures>>

\* It answered 200 with no image, or the bytes could not be read: 502, and nothing
\* was written.
Rejected(e) ==
  /\ editor[e].pc = "upload"
  /\ editor' = [editor EXCEPT ![e] = Idle]
  /\ UNCHANGED <<image, removed, last, requests, failures>>

\* It answered 200 with fewer images than the files sent: 502, and the first are there.
HalfUploaded(e) ==
  /\ editor[e].pc = "upload" /\ editor[e].op = "add" /\ Len(image) < MaxImages
  /\ image' = Appended(PictureSent(editor[e]))
  /\ Moves(e, Idle) /\ last' = Nothing
  /\ UNCHANGED <<removed, requests, failures>>

Deactivate(e) ==
  LET r == editor[e] IN
  /\ r.pc = "deactivate"
  /\ image' = Deactivated(r.gone)
  /\ IF r.op = "delete" THEN Ends(e)
     ELSE Moves(e, [r EXCEPT !.pc = "position"]) /\ last' = Nothing
  /\ UNCHANGED <<removed, requests, failures>>

Position(e) ==
  /\ editor[e].pc = "position"
  /\ image' = Positioned(editor[e].ids)
  /\ Ends(e)
  /\ UNCHANGED <<removed, requests, failures>>

\* The call raises, before Tillin took it or after; the token of a user is never
\* renewed and nothing is sent twice, so the request stops there.
Breaks(e) ==
  LET r == editor[e] IN
  /\ r.pc \in {"upload", "deactivate", "position"} /\ failures < MaxFailures
  /\ failures' = failures + 1
  /\ \/ UNCHANGED image
     \/ r.pc = "upload" /\ Len(image) < MaxImages /\ image' = Appended(PictureSent(r))
     \/ r.pc = "deactivate" /\ image' = Deactivated(r.gone)
     \/ r.pc = "position" /\ image' = Positioned(r.ids)
  /\ Moves(e, Idle) /\ last' = Nothing
  /\ UNCHANGED <<removed, requests>>

\* A refusal, or a preview (confirm=false): nothing is written.
Leave(e) ==
  /\ editor[e].pc = "open"
  /\ editor' = [editor EXCEPT ![e] = Idle]
  /\ UNCHANGED <<image, removed, last, requests, failures>>

GalleryNext ==
  \E e \in Editors :
    \/ Open(e) \/ Leave(e)
    \/ Reorder(e) \/ Delete(e) \/ Rename(e) \/ Add(e) \/ Arrange(e)
    \/ Upload(e) \/ Rejected(e) \/ HalfUploaded(e) \/ Deactivate(e) \/ Position(e) \/ Breaks(e)

GallerySpec == GalleryInit /\ [][GalleryNext]_galleryVars

-----------------------------------------------------------------------------
\* However the requests of the page and of the assistant overlap, and wherever they
\* stop, a picture leaves the gallery only when somebody asked to take it out: a
\* rename deactivates the old row, the only one, after the new one was created.
NoPictureLost ==
  \A i \in Ids : image[i].picture \in removed
                 \/ \E k \in Active : image[k].picture = image[i].picture

\* A request no other one disturbed leaves the pictures in the order it was asked
\* for, once each: a renamed image is where it was, the listed ones come first.
OrderAsAsked == last.sure => PictureOf(Listed) = last.want
=============================================================================
