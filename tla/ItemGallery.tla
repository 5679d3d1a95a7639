----------------------------- MODULE ItemGallery -----------------------------
(***************************************************************************)
(* The staged images of an item that has a source page for each of its     *)
(* colors (enrich/extra_sources.py, api/services/enrichment.py): the main  *)
(* page is the authority for the text, every other page only brings its    *)
(* images, tagged with its color.                                          *)
(*                                                                         *)
(* An image is an entry of a list; its position is its place.  A staged    *)
(* file stands in the list for the image it was made of: entry.file is 0   *)
(* for the image itself.                                                   *)
(***************************************************************************)
EXTENDS Ordering, Functions

CONSTANTS
  Images,        \* images of the brand's pages
  SourcePages,   \* pages of the brand's site, one for each color
  Galleries,     \* what a page may show: no image twice (_source_image_urls)
  PageColors,
  MaxEdits       \* bound: requests

None == "none"

ASSUME ItemGalleryAssumption ==
  /\ None \notin SourcePages
  /\ \A g \in Galleries : g \in Seq(Images) /\ IsInjective(g)
  /\ MaxEdits \in Nat

VARIABLES
  item,          \* the row: main page and its color, other pages, images, selection
  staged,        \* the files of the staging store
  made,          \* files given by the normalization so far
  stale,         \* history: a new main page or a retry left the selection behind
  edits          \* requests so far

itemVars == <<item, staged, made, stale, edits>>

\* The stored selection: none, or a list of urls.
Everything == [partial |-> FALSE, urls |-> <<>>]

\* What an item is before its page is found.
Bare == [main |-> None, color |-> None, sources |-> <<>>, entries |-> <<>>, selected |-> Everything]

Url(e) == <<e.image, e.file>>
Urls(es) == {Url(es[i]) : i \in DOMAIN es}

\* _identities: the urls that stand for the same image.
Identities(e) == {<<e.image, e.file>>, <<e.image, 0>>}
Known(es) == UNION {Identities(es[i]) : i \in DOMAIN es}

Files(es) == {es[i].file : i \in DOMAIN es} \ {0}

OtherPages(row) == {row.sources[i].url : i \in DOMAIN row.sources}
OfPage(es, p) == At(es, {i \in DOMAIN es : es[i].page = p})
NotOfPage(es, p) == At(es, {i \in DOMAIN es : es[i].page # p})
Others(row, p) == At(row.sources, {i \in DOMAIN row.sources : row.sources[i].url # p})

\* Raw entries of a list of images.
Raw(images, color, page) ==
  [i \in DOMAIN images |-> [image |-> images[i], file |-> 0, color |-> color, page |-> page]]

\* _update_selection: the stored selection, when there is one, follows.
Followed(selected, removed, added) ==
  LET urls == selected.urls
      kept == At(urls, {i \in DOMAIN urls : urls[i] \notin removed})
  IN  IF ~selected.partial THEN selected
      ELSE [selected EXCEPT
              !.urls = kept \o At(added, {i \in DOMAIN added : added[i] \notin Range(kept)})]

-----------------------------------------------------------------------------
\* A page joins the others, or comes again: its images go to the end of the list,
\* except those that are in `known'.
AddedBut(row, page, color, images, known) ==
  LET new == Raw(At(images, {i \in DOMAIN images : <<images[i], 0>> \notin known}), color, page) IN
  [row EXCEPT
     !.entries = NotOfPage(@, page) \o new,
     !.sources = Append(Others(row, page), [url |-> page, color |-> color]),
     !.selected = Followed(@, Urls(OfPage(row.entries, page)) \ Urls(new),
                           [i \in DOMAIN new |-> Url(new[i])])]

\* Fault: a new image is looked for among the urls, not among the originals.
AddedByUrl(row, page, color, images) ==
  AddedBut(row, page, color, images, Urls(NotOfPage(row.entries, page)))

\* add_extra_source
Added(row, page, color, images) ==
  AddedBut(row, page, color, images, Known(NotOfPage(row.entries, page)))

\* remove_extra_source
Removed(row, page) ==
  [row EXCEPT !.entries = NotOfPage(@, page), !.sources = Others(row, page),
              !.selected = Followed(@, Urls(OfPage(row.entries, page)), <<>>)]

\* The staged files these two delete once they have committed.
Purged(row, page) == Files(OfPage(row.entries, page))

Tagged(es, pages, color) ==
  [i \in DOMAIN es |-> IF es[i].page \in pages THEN es[i] ELSE [es[i] EXCEPT !.color = color]]

\* set_main_color
MainColored(row, color) ==
  [row EXCEPT !.color = color, !.entries = Tagged(@, OtherPages(row), color)]

\* stage_from_url between snapshot_extras and restore_extras: the images of the new
\* main page, then those of the others it does not have; a page that becomes the
\* main one gives it its color. The selection stays as it was.
Restaged(row, page, images) ==
  LET before == {i \in DOMAIN row.sources : row.sources[i].url = page}
      color  == IF before = {} THEN row.color
                ELSE row.sources[CHOOSE i \in before : TRUE].color
      main   == Raw(images, color, None)
      extra  == At(row.entries, {i \in DOMAIN row.entries :
                  /\ row.entries[i].page \in OtherPages(row) \ {page}
                  /\ Identities(row.entries[i]) \cap Known(main) = {}})
  IN  [row EXCEPT !.main = page, !.color = color, !.sources = Others(row, page),
                  !.entries = main \o extra]

\* normalize_item_image, to the staged file n or, for n = 0, back: the tags and the
\* selection follow the image.
Normalized(row, i, n) ==
  LET e == row.entries[i] IN
  [row EXCEPT !.entries[i].file = n,
              !.selected.urls =
                [k \in DOMAIN @ |-> IF @[k] = Url(e) THEN <<e.image, n>> ELSE @[k]]]

\* A retry forgets the pages and the images, and not the selection; the run that
\* follows stages those of the page it finds.
Rerun(row, page, images) ==
  [Bare EXCEPT !.main = page, !.entries = Raw(images, None, None), !.selected = row.selected]

-----------------------------------------------------------------------------
ItemInit ==
  /\ item = Bare /\ staged = {} /\ made = 0
  /\ stale = FALSE /\ edits = 0

\* The first run finds a page.
FindPage(p, g) ==
  /\ edits = 0 /\ item = Bare /\ item' = Rerun(item, p, g)
  /\ UNCHANGED <<staged, made, stale, edits>>

\* A request of the reviewer: the row and the files after it, and whether it leaves
\* the selection behind.
Edits(row, files, behind) ==
  /\ edits < MaxEdits /\ edits' = edits + 1
  /\ item' = row /\ staged' = files /\ stale' = behind

\* add_item_extra_source, stage_extra_source: the main page is refused, and a page
\* that cannot be read changes nothing.
AddPage(p, c, g) ==
  /\ p # item.main
  /\ Edits(Added(item, p, c, g), staged \ Purged(item, p), stale)
  /\ UNCHANGED made

\* remove_item_extra_source
RemovePage(p) ==
  /\ p \in OtherPages(item)
  /\ Edits(Removed(item, p), staged \ Purged(item, p), stale)
  /\ UNCHANGED made

\* set_item_main_color
ColorMain(c) == Edits(MainColored(item, c), staged, stale) /\ UNCHANGED made

\* resolve_item_from_url
ChangeMain(p, g) ==
  Edits(Restaged(item, p, g), staged, item.selected.partial) /\ UNCHANGED made

\* retry_item and the run that follows
Retry(p, g) ==
  Edits(Rerun(item, p, g), staged, item.selected.partial) /\ UNCHANGED made

\* normalize_item_image, of an image and of one that is normalized
Normalize(i) ==
  /\ item.entries[i].file = 0 /\ made' = made + 1
  /\ Edits(Normalized(item, i, made + 1), staged \cup {made + 1}, stale)

Revert(i) ==
  /\ item.entries[i].file # 0
  /\ Edits(Normalized(item, i, 0), staged \ {item.entries[i].file}, stale)
  /\ UNCHANGED made

\* The reviewer stores a selection of the images he sees.
Select(S) ==
  LET urls == [i \in DOMAIN item.entries |-> Url(item.entries[i])] IN
  /\ Edits([item EXCEPT !.selected = [partial |-> TRUE, urls |-> At(urls, S)]], staged, FALSE)
  /\ UNCHANGED made

SelectAll ==
  Edits([item EXCEPT !.selected = Everything], staged, FALSE) /\ UNCHANGED made

ItemNext ==
  \/ \E p \in SourcePages, g \in Galleries : FindPage(p, g) \/ ChangeMain(p, g) \/ Retry(p, g)
  \/ \E p \in SourcePages, c \in PageColors, g \in Galleries : AddPage(p, c, g)
  \/ \E p \in SourcePages : RemovePage(p)
  \/ \E c \in PageColors \cup {None} : ColorMain(c)
  \/ \E i \in DOMAIN item.entries : Normalize(i) \/ Revert(i)
  \/ \E S \in SUBSET DOMAIN item.entries : Select(S)
  \/ SelectAll

ItemSpec == ItemInit /\ [][ItemNext]_itemVars

-----------------------------------------------------------------------------
\* Each image is there once, whatever stands for it; each entry has the color of
\* the page it came from, and no page is both the main one and another.
EntriesSound ==
  /\ \A i, j \in DOMAIN item.entries : i # j =>
       Identities(item.entries[i]) \cap Identities(item.entries[j]) = {}
  /\ \A i \in DOMAIN item.entries : LET e == item.entries[i] IN
       IF e.page = None THEN e.color = item.color
       ELSE \E k \in DOMAIN item.sources : item.sources[k] = [url |-> e.page, color |-> e.color]
  /\ IsInjective([k \in DOMAIN item.sources |-> item.sources[k].url])
  /\ item.main \notin OtherPages(item)

\* The staged files of the entries are in the store, each under one entry.
FilesSound ==
  /\ Files(item.entries) \subseteq staged
  /\ \A i, j \in DOMAIN item.entries :
       i # j /\ item.entries[i].file # 0 => item.entries[i].file # item.entries[j].file

\* A selection points at images that are there, each once.
SelectionSound ==
  /\ Range(item.selected.urls) \subseteq Urls(item.entries)
  /\ IsInjective(item.selected.urls)

\* Whatever pages are added, replaced, promoted and removed, and whatever images
\* are normalized between, an image is in the gallery once, under the color of
\* its page, over a file that exists; and the selection follows, except a new main
\* page and a retry, which the code does not make it follow (extra_sources.py:63).
GallerySound == EntriesSound /\ FilesSound /\ (~stale => SelectionSound)

=============================================================================
