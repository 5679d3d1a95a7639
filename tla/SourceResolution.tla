-------------------------- MODULE SourceResolution --------------------------
(***************************************************************************)
(* Where the data of an item comes from: the search of its page on the     *)
(* sites of the brand (sources/resolver.py, sources/site_search.py), the   *)
(* fetch of a page (enrich/pipeline.py) and what the run and the reviewer  *)
(* then put on the item.                                                   *)
(*                                                                         *)
(* The sites answer as they like: a call may fail, be empty, or bring any  *)
(* of the site's pages.  What a page says is fixed in `world'; a page is   *)
(* compared to the product by the best identifier it carries and by its    *)
(* color.  Candidates are a set: the code keeps the order of arrival among *)
(* equal scores, here any of them may come first.  A column of the row is  *)
(* the page that wrote it, or `Earlier' once the row no longer names that  *)
(* page.                                                                   *)
(***************************************************************************)
EXTENDS Integers, FiniteSets, FiniteSetsExt

CONSTANTS Pages,        \* pages of the brand's sites
          SiteOf,       \* page -> its site
          NSites,       \* the brand's sites, 1..NSites in order
          Queries,      \* bound: terms a site is asked, of each kind
          SearchGets, PageGets, \* budget of the free search of one item
          WebSites, WebExtracts, \* caps of the paid search
          MaxAttempts,  \* attempts at an item
          MaxReviews,   \* bound: reviewer's requests on what a launch brought
          MaxRetries,   \* bound: items sent through the queue again
          Worlds, Configs, \* the instances checked
          NoPage, Catalogue, Earlier \* not pages: none, the data of the catalogue, and
                                     \* a page the row named before

\* The best a page says of the product: its barcode, its reference, a longer code with
\* the reference in it, or a title like its own.
PageFacts == [says : {"barcode", "reference", "contained", "title"}, bears : BOOLEAN, jsonld : BOOLEAN,
              busy : BOOLEAN]
Options == [method : {"auto", "shopify_json", "firecrawl", "unlocker"}, firecrawl : BOOLEAN,
            claude : BOOLEAN, copy : BOOLEAN, images : BOOLEAN, color : BOOLEAN,
            online : BOOLEAN, override : Pages \cup {NoPage}]

ASSUME SourceAssumption ==
  /\ IsFiniteSet(Pages) /\ NSites \in Nat /\ SiteOf \in [Pages -> 1..NSites]
  /\ Worlds \subseteq [Pages -> PageFacts] /\ Configs \subseteq Options
  /\ {Queries, SearchGets, PageGets, WebSites, WebExtracts, MaxAttempts} \subseteq Nat \ {0}
  /\ MaxReviews \in Nat /\ MaxRetries \in Nat
  /\ NoPage \notin Pages /\ Catalogue \notin Pages \cup {NoPage}
  /\ Earlier \notin Pages \cup {NoPage, Catalogue}

VARIABLES world,    \* page -> what it says
          config,   \* the options of the job and the clients there are
          foreign,  \* sites remembered as not Shopify
          phase,    \* where the run is
          at,       \* the site and the term it is at
          seen,     \* pages looked at by this search
          cands,    \* candidates of this search
          kept,     \* those of the searches before it
          left,     \* what is left of the budgets
          todo,     \* pages the web search brought, still to be read
          got,      \* the page in hand, and how it was read
          item,     \* the row
          behind,   \* the columns that hold what an earlier page wrote
          spent,    \* paid calls made since the launch, and those on record
          attempt, reviews, retries

search == <<foreign, at, seen, cands, kept, left, todo>>
again == <<behind, retries>>
vars == <<world, config, foreign, phase, at, seen, cands, kept, left, todo, got, item,
          behind, spent, attempt, reviews, retries>>

Sites == 1..NSites
\* The images, the text, its rich version and the price proposed.
Fresh == [url |-> NoPage, method |-> "", source |-> NoPage, copy |-> NoPage,
          html |-> NoPage, price |-> NoPage]
Unpaid == [search |-> 0, extract |-> 0, metered |-> 0]
Nothing == [page |-> NoPage, how |-> ""]
FullBudget == [gets |-> SearchGets, pages |-> PageGets, extracts |-> WebExtracts]

Init ==
  /\ world \in Worlds /\ config \in Configs
  /\ foreign \in SUBSET Sites
  /\ phase = "start" /\ at = [site |-> 1, term |-> 1]
  /\ seen = {} /\ cands = {} /\ kept = {} /\ left = FullBudget /\ todo = {}
  /\ got = Nothing /\ item = Fresh /\ behind = {}
  /\ spent = Unpaid
  /\ attempt = 1 /\ reviews = 0 /\ retries = 0

-----------------------------------------------------------------------------
(* Scores, in hundredths *)

Threshold == 75   \* AUTO_STAGE_THRESHOLD

\* The color of the product is known and is nowhere on the page.
Sibling(p) == config.color /\ ~world[p].bears

\* score_product_match
ShopifyScore(p) ==
  CASE world[p].says = "barcode" -> 100
    [] world[p].says = "reference" -> 90
    [] world[p].says = "contained" -> 75
    [] OTHER -> 60

\* _site_page_score: here a reference may be contained in a code.
SiteScore(p) ==
  CASE world[p].says = "barcode" -> 100
    [] world[p].says \in {"reference", "contained"} -> IF Sibling(p) THEN 50 ELSE 90
    [] OTHER -> 30

\* _firecrawl_score: a barcode is a reference like another.
WebScore(p) ==
  IF world[p].says = "title" THEN 30 ELSE IF Sibling(p) THEN 50 ELSE 90

Candidate(p, s) == [page |-> p, score |-> s]
Top(cs) == {c \in cs : \A d \in cs : d.score <= c.score}

\* Fault: among candidates of equal score the first is taken.
FirstOfTie(cs) ==
  IF \A c \in cs : c.score < Threshold THEN {NoPage} ELSE {c.page : c \in Top(cs)}

\* The gate at the end of a search, with _break_color_tie: several pages at the
\* best score, and the one of the product's color is taken, or none.
Gate(cs) ==
  LET best == {c.page : c \in Top(cs)}
      colored == {p \in best : world[p].bears}
  IN  IF \A c \in cs : c.score < Threshold THEN {NoPage}
      ELSE IF Cardinality(best) = 1 \/ ~config.color THEN best
      ELSE IF colored = {} THEN {NoPage} ELSE colored

-----------------------------------------------------------------------------
(* One page, by its address *)

\* A paid extraction that answers is put on record, even when it finds nothing.
Pay(n) == spent' = [spent EXCEPT !.extract = @ + n, !.metered = @ + n]

\* _fetch_source_from_url: the JSON of Shopify, with the text of the page paid on
\* top when a copy is wanted; else the JSON-LD; else, unless the site keeps its
\* visitors waiting, the paid extraction.
Reads(p) ==
  {[how |-> "shopify", paid |-> n] :
     n \in {k \in 0..1 : ~world[p].busy /\ (k = 1 => config.copy /\ config.firecrawl)}}
  \cup {[how |-> "jsonld", paid |-> 0] : x \in {0} \cap {IF world[p].jsonld /\ ~world[p].busy THEN 0 ELSE 1}}
  \cup {[how |-> h, paid |-> 1] : h \in IF config.firecrawl /\ ~world[p].busy
                                         THEN {"extract", "failed"} ELSE {}}
  \cup {[how |-> "failed", paid |-> 0]}

\* _complete_sparse_images: one more extraction for a JSON-LD with a lone image.
Completions(how) == IF how = "jsonld" /\ config.images /\ config.firecrawl THEN 0..1 ELSE {0}

\* Fault: the source stays the one of the first page staged.
StagedOnce(row, p, unpriced) ==
  [row EXCEPT !.source = IF p # NoPage /\ config.images /\ row.source = NoPage THEN p ELSE @,
              !.price = IF p # NoPage /\ unpriced THEN p ELSE @]

\* _stage_source: what a page in hand puts on the row, the price only while the
\* catalogue has none; no page, and the row keeps what it has.
Staged(row, p, unpriced) ==
  [row EXCEPT !.source = IF p # NoPage /\ config.images THEN p ELSE @,
              !.price = IF p # NoPage /\ unpriced THEN p ELSE @]

\* _stage_copy
Copied(row, p) ==
  IF config.copy /\ config.claude
  THEN LET text == IF p = NoPage THEN Catalogue ELSE p
       IN  [row EXCEPT !.copy = text, !.html = text]
  ELSE row

\* A row with nothing on it but what earlier pages wrote to some columns.
Bare(columns) ==
  [Fresh EXCEPT !.html = IF "html" \in columns THEN Earlier ELSE @,
                !.price = IF "price" \in columns THEN Earlier ELSE @]

-----------------------------------------------------------------------------
(* The run: __call__ of the pipeline *)

Goto(p) == phase' = p

\* The search returns: its locals are gone, what it knows of the sites stays.
Return ==
  /\ at' = [site |-> 1, term |-> 1] /\ seen' = {} /\ cands' = {} /\ kept' = {}
  /\ left' = FullBudget /\ todo' = {}

Resolve(p, m) == item' = [item EXCEPT !.url = p, !.method = m]

\* What the options decide before any search.
Start ==
  /\ phase = "start"
  /\ UNCHANGED <<world, config, search, got, spent, attempt, reviews, again>>
  /\ \/ ~config.copy /\ ~config.images /\ Goto("review") /\ UNCHANGED item
     \/ /\ config.copy \/ config.images
        /\ ~config.online
        /\ item' = [item EXCEPT !.method = "skipped"] /\ Goto("copy")
     \/ /\ config.copy \/ config.images
        /\ config.online /\ config.override # NoPage
        /\ Goto("override") /\ UNCHANGED item
     \/ /\ config.copy \/ config.images
        /\ config.online /\ config.override = NoPage
        /\ Goto("resolve") /\ UNCHANGED item

\* The page given at the launch; without a product on it, the search.
Override ==
  /\ phase = "override"
  /\ \E r \in Reads(config.override) :
       /\ Pay(r.paid)
       /\ IF r.how = "failed" THEN Goto("resolve") /\ UNCHANGED <<item, got>>
          ELSE /\ Resolve(config.override, "manual")
               /\ got' = [page |-> config.override, how |-> r.how]
               /\ Goto("stage")
  /\ UNCHANGED <<world, config, search, attempt, reviews, again>>

\* resolve_source_url: which searches the method of the job has.
ChooseSearch ==
  /\ phase = "resolve"
  /\ \/ /\ config.method = "unlocker" \/ (config.method = "firecrawl" /\ ~config.firecrawl)
        /\ item' = [item EXCEPT !.method = "skipped"] /\ Goto("copy")
     \/ config.method = "firecrawl" /\ config.firecrawl /\ Goto("web") /\ UNCHANGED item
     \/ config.method \in {"auto", "shopify_json"} /\ Goto("shopify") /\ UNCHANGED item
  /\ at' = [site |-> 1, term |-> 1]
  /\ UNCHANGED <<world, config, foreign, seen, cands, kept, left, todo, got, spent, attempt, reviews, again>>

NextSite == at' = [site |-> at.site + 1, term |-> 1]
NextTerm == IF at.term = Queries THEN NextSite ELSE at' = [at EXCEPT !.term = @ + 1]

New(s) == {p \in Pages : SiteOf[p] = s} \ seen

\* _resolve_shopify, one term on one site: a site known not to be Shopify is
\* skipped, one that shows it is remembered, and a barcode ends the search.
Suggest ==
  /\ phase = "shopify" /\ at.site <= NSites
  /\ UNCHANGED <<world, config, kept, left, todo, spent, attempt, reviews, again>>
  /\ \/ at.site \in foreign /\ NextSite /\ UNCHANGED <<foreign, seen, cands, got, item, phase>>
     \/ /\ at.site \notin foreign
        /\ \A p \in Pages : SiteOf[p] = at.site => ~world[p].busy
        /\ foreign' = foreign \cup {at.site} /\ NextSite
        /\ UNCHANGED <<seen, cands, got, item, phase>>
     \/ /\ at.site \notin foreign
        /\ \E hits \in SUBSET New(at.site) : \E read \in SUBSET {p \in hits : ~world[p].busy} :
             LET best == {p \in read : ShopifyScore(p) = 100} IN
             /\ seen' = seen \cup hits
             /\ cands' = cands \cup {Candidate(p, ShopifyScore(p)) : p \in read}
             /\ IF best = {} THEN NextTerm /\ UNCHANGED <<got, item, phase>>
                ELSE \E p \in best :
                       /\ Resolve(p, "shopify_json")
                       /\ Goto("fetch") /\ UNCHANGED <<at, got>>
        /\ UNCHANGED foreign

\* What comes after a search without a page: the candidates stay for the review.
Fallback(cs) ==
  /\ kept' = kept \cup cs /\ cands' = {} /\ seen' = {}
  /\ at' = [site |-> 1, term |-> 1]

EndShopify ==
  /\ phase = "shopify" /\ at.site > NSites
  /\ \E p \in Gate(cands) :
       IF p # NoPage
       THEN /\ Resolve(p, "shopify_json") /\ Goto("fetch")
            /\ UNCHANGED <<kept, cands, seen, at>>
       ELSE /\ Fallback(cands) /\ UNCHANGED item
            /\ Goto(CASE config.method = "auto" /\ foreign # {} -> "site"
                      [] config.method = "auto" /\ foreign = {} /\ config.firecrawl -> "web"
                      [] OTHER -> "uncertain")
  /\ UNCHANGED <<world, config, foreign, left, todo, got, spent, attempt, reviews, again>>

\* The first two of the sites that are not Shopify.
Searched == {s \in foreign : Cardinality({t \in foreign : t < s}) < 2}

\* A page found by a site's own search is taken: in hand with its JSON-LD, else
\* still to be fetched.
TakeFound(p) ==
  /\ Resolve(p, "site_search")
  /\ got' = IF world[p].jsonld THEN [page |-> p, how |-> "jsonld"] ELSE got
  /\ Goto(IF world[p].jsonld THEN "stage" ELSE "fetch")

\* search_site, one term: a search takes one GET or more of the budget, a page one
\* of its own unless the search led straight to it.
SearchSite(gets, hits, led, read) ==
  LET pages == IF led THEN 0 ELSE Cardinality(hits)
      best  == {p \in read : SiteScore(p) = 100}
  IN  /\ led => Cardinality(hits) = 1 /\ read = hits
      /\ pages <= left.pages
      /\ left' = [left EXCEPT !.gets = @ - gets, !.pages = @ - pages]
      /\ seen' = seen \cup hits
      /\ cands' = cands \cup {Candidate(p, SiteScore(p)) : p \in read}
      /\ IF best = {} THEN NextTerm /\ UNCHANGED <<item, got, phase>>
         ELSE UNCHANGED at /\ \E p \in best : TakeFound(p)

\* _resolve_site_search: a page above the threshold is the last one asked for.
SiteSearch ==
  /\ phase = "site" /\ at.site <= NSites
  /\ UNCHANGED <<world, config, foreign, kept, todo, spent, attempt, reviews, again>>
  /\ \/ /\ at.site \notin Searched \/ left.gets = 0 \/ \E c \in cands : c.score >= Threshold
        /\ NextSite /\ UNCHANGED <<seen, cands, left, item, got, phase>>
     \/ /\ at.site \in Searched /\ left.gets > 0 /\ \A c \in cands : c.score < Threshold
        /\ \E gets \in 1..left.gets, hits \in SUBSET New(at.site), led \in BOOLEAN :
           \E read \in SUBSET {p \in hits : ~world[p].busy} : SearchSite(gets, hits, led, read)

EndSite ==
  /\ phase = "site" /\ at.site > NSites
  /\ \E p \in Gate(cands) :
       IF p # NoPage
       THEN TakeFound(p) /\ UNCHANGED <<kept, cands, seen, at>>
       ELSE /\ Fallback(cands) /\ UNCHANGED <<item, got>>
            /\ Goto(IF config.firecrawl THEN "web" ELSE "uncertain")
  /\ UNCHANGED <<world, config, foreign, left, todo, spent, attempt, reviews, again>>

\* _resolve_firecrawl: one paid search. The first that brings anything is the
\* last one for the site, and two of its pages at most are read.
WebSearch ==
  /\ phase = "web" /\ todo = {} /\ left.extracts > 0
  /\ at.site <= NSites /\ at.site <= WebSites
  /\ UNCHANGED <<world, config, foreign, phase, seen, cands, kept, left, got, item, attempt, reviews, again>>
  /\ \/ NextTerm /\ UNCHANGED <<spent, todo>>
     \/ /\ spent' = [spent EXCEPT !.search = @ + 1, !.metered = @ + 1]
        /\ \/ NextTerm /\ UNCHANGED todo
           \/ /\ \E hits \in SUBSET {p \in Pages : SiteOf[p] = at.site} :
                   Cardinality(hits) <= 2 /\ todo' = hits
              /\ NextSite

\* Fault: an extraction is not counted against the cap.
WebPageUncapped ==
  /\ phase = "web" /\ todo # {}
  /\ \E p \in todo :
       /\ todo' = todo \ {p} /\ Pay(1)
       /\ cands' = cands \cup {Candidate(p, WebScore(p))}
  /\ UNCHANGED <<world, config, foreign, phase, at, seen, kept, left, got, item, attempt, reviews, again>>

\* One of those pages: its JSON-LD, else the paid extraction. A busy site is not
\* told from one without JSON-LD.
WebPage ==
  /\ phase = "web" /\ todo # {} /\ left.extracts > 0
  /\ \E p \in todo :
       /\ todo' = todo \ {p}
       /\ \E how \in (IF world[p].jsonld /\ ~world[p].busy THEN {"jsonld"} ELSE {})
                     \cup {"extract", "empty", "error"} :
            LET n == IF how \in {"extract", "empty"} THEN 1 ELSE 0 IN
            /\ Pay(n)
            /\ left' = [left EXCEPT !.extracts = @ - n]
            /\ cands' = IF how \in {"jsonld", "extract"} THEN cands \cup {Candidate(p, WebScore(p))} ELSE cands
            /\ IF how \in {"jsonld", "extract"} /\ WebScore(p) >= 90
               THEN /\ Resolve(p, "firecrawl") /\ got' = [page |-> p, how |-> how]
                    /\ Goto("stage")
               ELSE UNCHANGED <<item, got, phase>>
  /\ UNCHANGED <<world, config, foreign, at, seen, kept, attempt, reviews, again>>

EndWeb ==
  /\ phase = "web"
  /\ left.extracts = 0 \/ (todo = {} /\ (at.site > NSites \/ at.site > WebSites))
  /\ Fallback(cands) /\ todo' = {}
  /\ Goto("uncertain")
  /\ UNCHANGED <<world, config, foreign, left, got, item, spent, attempt, reviews, again>>

-----------------------------------------------------------------------------
(* What the run makes of it *)

\* The page is read again: a page of Shopify by its JSON, with the text paid on
\* top in the mode `auto'; a page found by a site's own search by its address.
FetchResolved ==
  /\ phase = "fetch"
  /\ \E r \in Reads(item.url) :
       /\ item.method = "shopify_json" =>
            /\ r.how = "shopify" \/ r = [how |-> "failed", paid |-> 0]
            /\ r.paid = 1 => config.method = "auto"
       /\ Pay(r.paid)
       /\ got' = IF r.how = "failed" THEN Nothing ELSE [page |-> item.url, how |-> r.how]
  /\ Goto("stage")
  /\ UNCHANGED <<world, config, search, item, attempt, reviews, again>>

Stage ==
  /\ phase = "stage"
  /\ \E unpriced \in BOOLEAN : item' = Staged(item, got.page, unpriced)
  /\ \E n \in Completions(got.how) : Pay(n)
  /\ Goto("copy") /\ Return
  /\ UNCHANGED <<world, config, foreign, got, attempt, reviews, again>>

\* Without a page the candidates are shown to the model, which takes one or none;
\* the page it takes is read again, whoever read it before.
Select ==
  /\ phase = "uncertain" /\ Return
  /\ UNCHANGED <<world, config, foreign, attempt, reviews, again>>
  /\ \/ UNCHANGED <<item, got, spent>> /\ Goto("withheld")
     \/ /\ config.claude
        /\ \E c \in kept : \E r \in Reads(c.page) :
             /\ Pay(r.paid)
             /\ IF r.how = "failed" THEN UNCHANGED <<item, got>> /\ Goto("withheld")
                ELSE /\ Resolve(c.page, "llm") /\ got' = [page |-> c.page, how |-> r.how]
                     /\ Goto("stage")

\* complete_item: the end of a run whose source is uncertain.
Withhold ==
  /\ phase = "withheld"
  /\ item' = [item EXCEPT !.method = "needs_manual"]
  /\ Goto("review")
  /\ UNCHANGED <<world, config, search, got, spent, attempt, reviews, again>>

Copy ==
  /\ phase = "copy"
  /\ item' = Copied(item, got.page)
  /\ Goto("review")
  /\ UNCHANGED <<world, config, search, got, spent, attempt, reviews, again>>

\* The copy fails: all that this attempt wrote is rolled back, what it recorded
\* of its paid calls included, and the next attempt starts over.
CopyFails ==
  /\ phase = "copy" /\ config.copy /\ config.claude
  /\ item' = Bare(behind) /\ got' = Nothing /\ Return
  /\ spent' = [spent EXCEPT !.metered = 0]
  /\ attempt' = attempt + 1
  /\ Goto(IF attempt = MaxAttempts THEN "failed" ELSE "start")
  /\ UNCHANGED <<world, config, foreign, reviews, again>>

-----------------------------------------------------------------------------
(* The reviewer *)

Reviewing == phase = "review" /\ reviews < MaxReviews /\ reviews' = reviews + 1

\* What the row no longer names: a price that an earlier page wrote.
Outdated(row) == IF row.price \in {NoPage, row.url} THEN row ELSE [row EXCEPT !.price = Earlier]

\* resolve_item_from_url, stage_from_url. A page without a product, or a copy that
\* fails, rolls everything back: the row, and the record of what was paid.
ResolveByHand ==
  /\ Reviewing
  /\ \E p \in Pages, unpriced, fails \in BOOLEAN : \E r \in Reads(p) : \E n \in Completions(r.how) :
       LET paid == r.paid + n
           row  == Outdated(Staged([item EXCEPT !.url = p, !.method = "manual"], p, unpriced))
       IN  IF r.how = "failed" \/ (fails /\ config.copy /\ config.claude)
           THEN /\ spent' = [spent EXCEPT !.extract = @ + (IF r.how = "failed" THEN r.paid ELSE paid)]
                /\ UNCHANGED <<item, behind>>
           ELSE /\ Pay(paid) /\ item' = Copied(row, p)
                /\ behind' = IF unpriced THEN behind ELSE behind \cup {"price"}
  /\ UNCHANGED <<world, config, search, got, phase, attempt, retries>>

\* generate_item_copy, stage_copy_only: the copy from the catalogue alone.
CopyOnly ==
  /\ Reviewing
  /\ config.copy /\ config.claude
  /\ item' = Copied(item, NoPage)
  /\ UNCHANGED <<world, config, search, got, phase, spent, attempt, again>>

\* retry_item and its kind, _reset_item_for_retry: the row is wiped, but for the rich
\* version of the text and the price, and goes through the queue again.
Retry ==
  /\ phase \in {"review", "failed"} /\ retries < MaxRetries /\ retries' = retries + 1
  /\ behind' = {c \in {"html", "price"} : item[c] # NoPage}
  /\ item' = Bare(behind')
  /\ got' = Nothing /\ Return
  /\ spent' = Unpaid /\ attempt' = 1 /\ reviews' = 0
  /\ Goto("start")
  /\ UNCHANGED <<world, config, foreign>>

-----------------------------------------------------------------------------
Next ==
  \/ Start \/ Override \/ ChooseSearch \/ Suggest \/ EndShopify
  \/ SiteSearch \/ EndSite \/ WebSearch \/ WebPage \/ EndWeb
  \/ FetchResolved \/ Stage \/ Select \/ Withhold \/ Copy \/ CopyFails
  \/ ResolveByHand \/ CopyOnly \/ Retry

Spec == Init /\ [][Next]_vars

-----------------------------------------------------------------------------
(* Properties *)

\* What no human or model chose is verified: the page carries the barcode or the
\* reference of the product; and when it is known to be of another color, which only
\* the search of Shopify may take, no page read beside it that says as much of the
\* product bears the color. A page that says less may bear it and be passed over: the
\* color breaks ties, it is no part of the score (resolver.py:51-54 and 348-374).
ResolvedIsVerified ==
  item.method \in {"shopify_json", "site_search", "firecrawl"} =>
    /\ world[item.url].says # "title"
    /\ Sibling(item.url) /\ world[item.url].says # "barcode" =>
         /\ item.method = "shopify_json"
         /\ \A c \in cands : world[c.page].says = world[item.url].says => ~world[c.page].bears

\* What is under review comes from the page the row names, whatever was tried before
\* it, and only the catalogue may stand in for the text; of what earlier pages wrote,
\* the rich text of a run thrown away stays beside no text at all, and only while the
\* copy is withheld, and a price stays when a retry kept it or the catalogue has got
\* one since (enrichment.py:466-481, pipeline.py:971-973).
OneSource ==
  phase = "review" =>
    /\ item.source \in {NoPage, item.url}
    /\ item.copy \in {NoPage, Catalogue, item.url}
    /\ item.html # item.copy =>
         "html" \in behind /\ item.html = Earlier /\ item.copy = NoPage /\ item.method = "needs_manual"
    /\ item.price \notin {NoPage, item.url} => "price" \in behind /\ item.price = Earlier

\* The attempts an item has had since it was launched, its failed end included.
Runs == IF attempt > MaxAttempts THEN MaxAttempts ELSE attempt

\* The paid calls of an item are bounded whatever the sites answer, from each launch
\* or retry to the next: per attempt the searches of the first sites, the extractions
\* of the search and two more for the page it names, two for each request of the
\* reviewer; the search is never paid in the mode `shopify_json'; and a run that ends
\* at its first attempt has every paid call on record.
PaidBounded ==
  /\ spent.search <= Runs * WebSites * Queries
  /\ spent.extract <= Runs * (WebExtracts + 2) + 2 * reviews
  /\ config.method = "shopify_json" => spent.search = 0
  /\ phase = "review" /\ attempt = 1 /\ reviews = 0 =>
       spent.metered = spent.search + spent.extract
=============================================================================
