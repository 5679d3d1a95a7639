----------------------- MODULE SourceResolutionProofs -----------------------
(***************************************************************************)
(* What the search of an item's page guarantees whatever the sites answer: *)
(* for any brand, any pages and any options of the job, an automatic       *)
(* choice is verified, images and copy come from one page, and the paid    *)
(* calls are bounded and on record.                                        *)
(***************************************************************************)
EXTENDS SourceResolution, FiniteSetTheorems, TLAPS

-----------------------------------------------------------------------------
(* The row, the page in hand and the bill *)

IsRow(r) ==
  /\ r = [url |-> r.url, method |-> r.method, source |-> r.source, copy |-> r.copy,
          html |-> r.html, price |-> r.price]
  /\ r.url \in Pages \cup {NoPage}
IsBill(b) ==
  /\ b = [search |-> b.search, extract |-> b.extract, metered |-> b.metered]
  /\ b.search \in Nat /\ b.extract \in Nat /\ b.metered \in Nat

\* A paid extraction is spent and put on record.
LEMMA Paid ==
  ASSUME IsBill(spent), NEW n \in Nat, Pay(n)
  PROVE  /\ IsBill(spent') /\ spent'.search = spent.search
         /\ spent'.extract = spent.extract + n /\ spent'.metered = spent.metered + n
<1>1. PICK s, e, m \in Nat : spent = [search |-> s, extract |-> e, metered |-> m]
  BY DEF IsBill
<1>2. PICK f, k \in Nat : f = e + n /\ k = m + n
  BY <1>1
<1>3. PICK b : b = [spent EXCEPT !.extract = @ + n]
  OBVIOUS
<1>4. b = [search |-> s, extract |-> f, metered |-> m]
  BY <1>1, <1>2, <1>3
<1>5. spent' = [b EXCEPT !.metered = spent.metered + n]
  BY <1>3 DEF Pay
<1>6. spent' = [search |-> s, extract |-> f, metered |-> k]
  BY <1>1, <1>2, <1>4, <1>5
<1>7. QED BY <1>1, <1>2, <1>6 DEF IsBill

\* Two rows with the same data.
SameData(q, r) ==
  q.source = r.source /\ q.copy = r.copy /\ q.html = r.html /\ q.price = r.price

\* Two columns of the row written.
OfPage(r, x, y) == [r EXCEPT !.url = x, !.method = y]
OfSource(r, x, y) == [r EXCEPT !.source = x, !.price = y]
OfText(r, x, y) == [r EXCEPT !.copy = x, !.html = y]
OfBefore(r, x, y) == [r EXCEPT !.html = x, !.price = y]

\* The method of the row is written.
LEMMA MethodWritten ==
  ASSUME NEW r, IsRow(r), NEW x, NEW q, q = [r EXCEPT !.method = x]
  PROVE  IsRow(q) /\ q.url = r.url /\ q.method = x /\ SameData(q, r)
<1>1. PICK u, m, s, c, h, p :
        /\ r = [url |-> u, method |-> m, source |-> s, copy |-> c, html |-> h, price |-> p]
        /\ u \in Pages \cup {NoPage}
  BY DEF IsRow
<1>2. q = [url |-> u, method |-> x, source |-> s, copy |-> c, html |-> h, price |-> p]
  BY <1>1
<1>3. QED BY <1>1, <1>2 DEF IsRow, SameData

\* The page of the row and the method are.
LEMMA PageWritten ==
  ASSUME NEW r, IsRow(r), NEW x \in Pages \cup {NoPage}, NEW y, NEW q,
         q = OfPage(r, x, y)
  PROVE  IsRow(q) /\ q.url = x /\ q.method = y /\ SameData(q, r)
<1>1. PICK u, m, s, c, h, p :
        /\ r = [url |-> u, method |-> m, source |-> s, copy |-> c, html |-> h, price |-> p]
        /\ u \in Pages \cup {NoPage}
  BY DEF IsRow
<1>2. PICK i : i = [r EXCEPT !.url = x]
  OBVIOUS
<1>3. i = [url |-> x, method |-> m, source |-> s, copy |-> c, html |-> h, price |-> p]
  BY <1>1, <1>2
<1>4. q = [i EXCEPT !.method = y]
  BY <1>2 DEF OfPage
<1>5. q = [url |-> x, method |-> y, source |-> s, copy |-> c, html |-> h, price |-> p]
  BY <1>3, <1>4
<1>6. QED BY <1>1, <1>5 DEF IsRow, SameData

\* The images and the price are.
LEMMA SourceWritten ==
  ASSUME NEW r, IsRow(r), NEW x, NEW y, NEW q, q = OfSource(r, x, y)
  PROVE  /\ IsRow(q) /\ q.url = r.url /\ q.method = r.method
         /\ q.source = x /\ q.price = y /\ q.copy = r.copy /\ q.html = r.html
<1>1. PICK u, m, s, c, h, p :
        /\ r = [url |-> u, method |-> m, source |-> s, copy |-> c, html |-> h, price |-> p]
        /\ u \in Pages \cup {NoPage}
  BY DEF IsRow
<1>2. PICK i : i = [r EXCEPT !.source = x]
  OBVIOUS
<1>3. i = [url |-> u, method |-> m, source |-> x, copy |-> c, html |-> h, price |-> p]
  BY <1>1, <1>2
<1>4. q = [i EXCEPT !.price = y]
  BY <1>2 DEF OfSource
<1>5. q = [url |-> u, method |-> m, source |-> x, copy |-> c, html |-> h, price |-> y]
  BY <1>3, <1>4
<1>6. QED BY <1>1, <1>5 DEF IsRow, SameData

\* Both versions of the text are.
LEMMA TextWritten ==
  ASSUME NEW r, IsRow(r), NEW x, NEW y, NEW q, q = OfText(r, x, y)
  PROVE  /\ IsRow(q) /\ q.url = r.url /\ q.method = r.method
         /\ q.source = r.source /\ q.price = r.price /\ q.copy = x /\ q.html = y
<1>1. PICK u, m, s, c, h, p :
        /\ r = [url |-> u, method |-> m, source |-> s, copy |-> c, html |-> h, price |-> p]
        /\ u \in Pages \cup {NoPage}
  BY DEF IsRow
<1>2. PICK i : i = [r EXCEPT !.copy = x]
  OBVIOUS
<1>3. i = [url |-> u, method |-> m, source |-> s, copy |-> x, html |-> h, price |-> p]
  BY <1>1, <1>2
<1>4. q = [i EXCEPT !.html = y]
  BY <1>2 DEF OfText
<1>5. q = [url |-> u, method |-> m, source |-> s, copy |-> x, html |-> y, price |-> p]
  BY <1>3, <1>4
<1>6. QED BY <1>1, <1>5 DEF IsRow, SameData

\* The columns a retry keeps are.
LEMMA KeptWritten ==
  ASSUME NEW r, IsRow(r), NEW x, NEW y, NEW q, q = OfBefore(r, x, y)
  PROVE  /\ IsRow(q) /\ q.url = r.url /\ q.method = r.method
         /\ q.source = r.source /\ q.copy = r.copy /\ q.html = x /\ q.price = y
<1>1. PICK u, m, s, c, h, p :
        /\ r = [url |-> u, method |-> m, source |-> s, copy |-> c, html |-> h, price |-> p]
        /\ u \in Pages \cup {NoPage}
  BY DEF IsRow
<1>2. PICK i : i = [r EXCEPT !.html = x]
  OBVIOUS
<1>3. i = [url |-> u, method |-> m, source |-> s, copy |-> c, html |-> x, price |-> p]
  BY <1>1, <1>2
<1>4. q = [i EXCEPT !.price = y]
  BY <1>2 DEF OfBefore
<1>5. q = [url |-> u, method |-> m, source |-> s, copy |-> c, html |-> x, price |-> y]
  BY <1>3, <1>4
<1>6. QED BY <1>1, <1>5 DEF IsRow, SameData

\* The price is.
LEMMA PriceWritten ==
  ASSUME NEW r, IsRow(r), NEW x, NEW q, q = [r EXCEPT !.price = x]
  PROVE  /\ IsRow(q) /\ q.url = r.url /\ q.method = r.method
         /\ q.source = r.source /\ q.copy = r.copy /\ q.html = r.html /\ q.price = x
<1>1. PICK u, m, s, c, h, p :
        /\ r = [url |-> u, method |-> m, source |-> s, copy |-> c, html |-> h, price |-> p]
        /\ u \in Pages \cup {NoPage}
  BY DEF IsRow
<1>2. q = [url |-> u, method |-> m, source |-> s, copy |-> c, html |-> h, price |-> x]
  BY <1>1
<1>3. QED BY <1>1, <1>2 DEF IsRow, SameData

\* A page is taken, by a method.
LEMMA Resolved ==
  ASSUME IsRow(item), NEW p \in Pages \cup {NoPage}, NEW m, Resolve(p, m)
  PROVE  IsRow(item') /\ item'.url = p /\ item'.method = m /\ SameData(item', item)
<1>1. item' = OfPage(item, p, m)
  BY DEF Resolve, OfPage
<1>2. QED BY <1>1, PageWritten

\* Products of the bounds.
LEMMA Products ==
  ASSUME NEW a \in Nat, NEW b \in Nat, NEW c \in Nat
  PROVE  /\ a * c \in Nat /\ (a + 1) * c = a * c + c
         /\ a <= b => a * c <= b * c
OBVIOUS


-----------------------------------------------------------------------------
(* Types *)

Phases == {"start", "override", "resolve", "shopify", "site", "web", "fetch", "stage",
           "uncertain", "withheld", "copy", "review", "failed"}

IsAt(a) == a = [site |-> a.site, term |-> a.term] /\ a.site \in Nat \ {0} /\ a.term \in 1..Queries
IsLeft(l) ==
  /\ l = [gets |-> l.gets, pages |-> l.pages, extracts |-> l.extracts]
  /\ l.extracts \in 0..WebExtracts
AreCandidates(S) == \A c \in S : c.page \in Pages /\ c.score \in Int

Typed ==
  /\ world \in [Pages -> PageFacts] /\ config \in Options
  /\ phase \in Phases
  /\ IsAt(at) /\ IsLeft(left)
  /\ AreCandidates(cands) /\ AreCandidates(kept) /\ todo \subseteq Pages
  /\ got.page \in Pages \cup {NoPage}
  /\ IsRow(item) /\ IsBill(spent)
  /\ attempt \in Nat \ {0} /\ reviews \in Nat
  /\ behind \subseteq {"html", "price"} /\ retries \in Nat

\* The constants, by their parts.
LEMMA Bounds ==
  /\ Queries \in Nat \ {0} /\ WebSites \in Nat \ {0} /\ WebExtracts \in Nat \ {0}
  /\ MaxAttempts \in Nat \ {0} /\ IsFiniteSet(Pages)
  /\ NoPage \notin Pages /\ Catalogue \notin Pages \cup {NoPage}
  /\ Earlier \notin Pages \cup {NoPage, Catalogue}
BY SourceAssumption DEF SourceAssumption

\* The next term, or the next site.
LEMMA AtStep ==
  ASSUME IsAt(at), NextTerm \/ NextSite \/ at' = [site |-> 1, term |-> 1]
  PROVE  /\ IsAt(at')
         /\ NextSite => at'.site = at.site + 1 /\ at'.term = 1
         /\ NextTerm => \/ at'.site = at.site + 1 /\ at'.term = 1 /\ at.term = Queries
                        \/ at'.site = at.site /\ at'.term = at.term + 1 /\ at.term < Queries
<1>1. PICK i \in Nat \ {0}, t \in 1..Queries : at = [site |-> i, term |-> t]
  BY DEF IsAt
<1>2. CASE at' = [site |-> at.site + 1, term |-> 1]
  BY <1>1, <1>2, Bounds DEF IsAt, NextTerm, NextSite
<1>3. CASE at' = [at EXCEPT !.term = @ + 1] /\ at.term # Queries
  <2>1. at' = [site |-> i, term |-> t + 1] /\ t # Queries
    BY <1>1, <1>3
  <2>2. at'.site = i /\ at'.term = t + 1 /\ IsAt(at')
    BY <1>1, <2>1, Bounds DEF IsAt
  <2>3. ~NextSite
    BY <1>1, <2>2 DEF NextSite
  <2>4. QED BY <1>1, <2>1, <2>2, <2>3, Bounds DEF NextTerm
<1>4. CASE at' = [site |-> 1, term |-> 1] /\ ~NextTerm /\ ~NextSite
  BY <1>4, Bounds DEF IsAt
<1>5. QED BY <1>2, <1>3, <1>4 DEF NextTerm, NextSite

\* A budget is used.
LEMMA LeftStep ==
  ASSUME IsLeft(left)
  PROVE  /\ \A n, k : left' = [left EXCEPT !.gets = @ - n, !.pages = @ - k] =>
                        IsLeft(left') /\ left'.extracts = left.extracts
         /\ \A n \in 0..1 : left' = [left EXCEPT !.extracts = @ - n] /\ left.extracts > 0 =>
                        IsLeft(left') /\ left'.extracts = left.extracts - n
<1>1. PICK g, p, x : left = [gets |-> g, pages |-> p, extracts |-> x] /\ x \in 0..WebExtracts
  BY DEF IsLeft
<1>2. ASSUME NEW n, NEW k, left' = [left EXCEPT !.gets = @ - n, !.pages = @ - k]
      PROVE  IsLeft(left') /\ left'.extracts = left.extracts
  <2>1. PICK l : l = [left EXCEPT !.gets = left.gets - n]
    OBVIOUS
  <2>2. l = [gets |-> g - n, pages |-> p, extracts |-> x]
    BY <1>1, <2>1
  <2>3. left' = [l EXCEPT !.pages = left.pages - k]
    BY <1>2, <2>1
  <2>4. left' = [gets |-> g - n, pages |-> p - k, extracts |-> x]
    BY <1>1, <2>2, <2>3
  <2>5. QED BY <1>1, <2>4 DEF IsLeft
<1>3. ASSUME NEW n \in 0..1, left' = [left EXCEPT !.extracts = @ - n], left.extracts > 0
      PROVE  IsLeft(left') /\ left'.extracts = left.extracts - n
  <2>1. PICK y : y = x - n
    OBVIOUS
  <2>2. left' = [gets |-> g, pages |-> p, extracts |-> y]
    BY <1>1, <1>3, <2>1
  <2>3. y \in 0..WebExtracts
    BY <1>1, <1>3, <2>1, Bounds
  <2>4. QED BY <1>1, <2>1, <2>2, <2>3 DEF IsLeft
<1>4. QED BY <1>2, <1>3

\* A search that is over is forgotten.
LEMMA Returned ==
  ASSUME Return
  PROVE  /\ IsAt(at') /\ IsLeft(left') /\ left'.extracts = WebExtracts
         /\ cands' = {} /\ kept' = {} /\ todo' = {}
BY Bounds DEF Return, IsAt, IsLeft, FullBudget

\* The score of a page is a number.
LEMMA Scores ==
  ASSUME Typed, NEW p \in Pages
  PROVE  /\ ShopifyScore(p) \in {100, 90, 75, 60} /\ SiteScore(p) \in {100, 90, 50, 30}
         /\ WebScore(p) \in {90, 50, 30}
         /\ Candidate(p, ShopifyScore(p)).page = p
BY DEF ShopifyScore, SiteScore, WebScore, Candidate

\* What a reading of a page may be.
LEMMA Readings ==
  ASSUME NEW p, NEW r \in Reads(p)
  PROVE  /\ r.paid \in 0..1 /\ r.how \in {"shopify", "jsonld", "extract", "failed"}
         /\ r.how = "jsonld" => r.paid = 0
BY DEF Reads

\* Completing a sparse page costs one extraction at most, and only for a page read by JSON-LD.
LEMMA CompletionsBound ==
  ASSUME NEW how, NEW n \in Completions(how)
  PROVE  n \in 0..1 /\ (how # "jsonld" => n = 0)
BY DEF Completions


\* Where the gate leads: one of the candidates, or nowhere.
LEMMA GateOpens ==
  ASSUME NEW cs, AreCandidates(cs), NEW p \in Gate(cs), p # NoPage
  PROVE  \E c \in cs : /\ c.page = p /\ c.score >= Threshold /\ \A d \in cs : d.score <= c.score
<1>1. \E c \in cs : c.score >= Threshold
  BY DEF Gate, AreCandidates, Threshold
<1>2. p \in {c.page : c \in Top(cs)}
  <2>1. PICK B : B = {c.page : c \in Top(cs)}
    OBVIOUS
  <2>2. Gate(cs) \subseteq B \cup {NoPage}
    BY <2>1 DEF Gate
  <2>3. QED BY <2>1, <2>2
<1>3. QED BY <1>1, <1>2 DEF Top, AreCandidates, Threshold

\* The columns the run and the reviewer write: the images and the price of a page.
LEMMA StagedRow ==
  ASSUME NEW r, IsRow(r), NEW p, NEW unpriced \in BOOLEAN, NEW q, q = Staged(r, p, unpriced)
  PROVE  /\ IsRow(q) /\ q.url = r.url /\ q.method = r.method /\ q.copy = r.copy /\ q.html = r.html
         /\ q.source = IF p # NoPage /\ config.images THEN p ELSE r.source
         /\ q.price = IF p # NoPage /\ unpriced THEN p ELSE r.price
<1>1. PICK x : x = IF p # NoPage /\ config.images THEN p ELSE r.source
  OBVIOUS
<1>2. PICK y : y = IF p # NoPage /\ unpriced THEN p ELSE r.price
  OBVIOUS
<1>3. q = OfSource(r, x, y)
  BY <1>1, <1>2 DEF Staged, OfSource
<1>4. QED BY <1>1, <1>2, <1>3, SourceWritten

\* Writing the copy changes the text of the row, in both its versions, and nothing else.
LEMMA CopiedRow ==
  ASSUME NEW r, IsRow(r), NEW p, NEW q, q = Copied(r, p)
  PROVE  /\ IsRow(q) /\ q.url = r.url /\ q.method = r.method /\ q.source = r.source
         /\ q.price = r.price
         /\ q.copy = IF config.copy /\ config.claude
                     THEN (IF p = NoPage THEN Catalogue ELSE p) ELSE r.copy
         /\ q.html = IF config.copy /\ config.claude THEN q.copy ELSE r.html
<1>1. CASE config.copy /\ config.claude
  <2>1. PICK x : x = IF p = NoPage THEN Catalogue ELSE p
    OBVIOUS
  <2>2. q = OfText(r, x, x)
    BY <1>1, <2>1 DEF Copied, OfText
  <2>3. QED BY <1>1, <2>1, <2>2, TextWritten
<1>2. CASE ~(config.copy /\ config.claude)
  BY <1>2 DEF Copied
<1>3. QED BY <1>1, <1>2

\* A row that an earlier price may have outlived.
LEMMA OutdatedRow ==
  ASSUME NEW r, IsRow(r), NEW q, q = Outdated(r)
  PROVE  /\ IsRow(q) /\ q.url = r.url /\ q.method = r.method /\ q.source = r.source
         /\ q.copy = r.copy /\ q.html = r.html
         /\ q.price = IF r.price \in {NoPage, r.url} THEN r.price ELSE Earlier
<1>1. CASE r.price \in {NoPage, r.url}
  BY <1>1 DEF Outdated
<1>2. CASE r.price \notin {NoPage, r.url}
  <2>1. q = [r EXCEPT !.price = Earlier]
    BY <1>2 DEF Outdated
  <2>2. QED BY <1>2, <2>1, PriceWritten
<1>3. QED BY <1>1, <1>2

\* The row of an item that was never run.
LEMMA FreshRow ==
  /\ IsRow(Fresh) /\ Fresh.method = "" /\ Fresh.source = NoPage /\ Fresh.copy = NoPage
  /\ Fresh.html = NoPage /\ Fresh.price = NoPage
BY DEF Fresh, IsRow

\* A row that is not resolved has no source and no method, and of its data only what
\* an earlier page may have written.
LEMMA BareRow ==
  ASSUME NEW columns, NEW q, q = Bare(columns)
  PROVE  /\ IsRow(q) /\ q.method = "" /\ q.source = NoPage /\ q.copy = NoPage
         /\ q.html = IF "html" \in columns THEN Earlier ELSE NoPage
         /\ q.price = IF "price" \in columns THEN Earlier ELSE NoPage
<1>1. PICK r : r = Fresh
  OBVIOUS
<1>2. PICK x : x = IF "html" \in columns THEN Earlier ELSE NoPage
  OBVIOUS
<1>3. PICK y : y = IF "price" \in columns THEN Earlier ELSE NoPage
  OBVIOUS
<1>4. /\ IsRow(r) /\ r.method = "" /\ r.source = NoPage /\ r.copy = NoPage
      /\ r.html = NoPage /\ r.price = NoPage
  BY <1>1, FreshRow
<1>5. q = OfBefore(r, x, y)
  BY <1>1, <1>2, <1>3, <1>4 DEF Bare, OfBefore
<1>6. /\ IsRow(q) /\ q.method = r.method /\ q.source = r.source /\ q.copy = r.copy
      /\ q.html = x /\ q.price = y
  <2>1. IsRow(r)
    BY <1>4
  <2>2. QED BY <1>5, <2>1, KeptWritten
<1>7. QED BY <1>2, <1>3, <1>4, <1>6

\* What a search on the site itself does: one page is taken, or it goes on.
LEMMA SiteSearched ==
  ASSUME Typed, SiteSearch
  PROVE  /\ phase = "site"
         /\ UNCHANGED <<world, config, foreign, kept, todo, spent, attempt, reviews, behind, retries>>
         /\ NextSite \/ NextTerm \/ at' = at
         /\ \E read \in SUBSET Pages :
              cands' = cands \cup {Candidate(p, SiteScore(p)) : p \in read}
         /\ IsLeft(left') /\ left'.extracts = left.extracts
         /\ UNCHANGED <<item, got, phase>> \/ \E p \in Pages : SiteScore(p) = 100 /\ TakeFound(p)
<1>1. phase = "site" /\ UNCHANGED <<world, config, foreign, kept, todo, spent, attempt, reviews, behind, retries>>
  BY DEF SiteSearch, again
<1>2. CASE NextSite /\ UNCHANGED <<seen, cands, left, item, got, phase>>
  <2>1. cands' = cands \cup {Candidate(p, SiteScore(p)) : p \in {}} /\ {} \in SUBSET Pages
    BY <1>2
  <2>2. IsLeft(left') /\ left'.extracts = left.extracts
    BY <1>2 DEF Typed
  <2>3. QED BY <1>1, <1>2, <2>1, <2>2
<1>3. CASE \E gets \in 1..left.gets, hits \in SUBSET New(at.site), led \in BOOLEAN :
             \E read \in SUBSET {p \in hits : ~world[p].busy} : SearchSite(gets, hits, led, read)
  <2>1. PICK gets \in 1..left.gets, hits \in SUBSET New(at.site), led \in BOOLEAN :
             \E read \in SUBSET {p \in hits : ~world[p].busy} : SearchSite(gets, hits, led, read)
    BY <1>3
  <2>2. PICK read \in SUBSET {p \in hits : ~world[p].busy} : SearchSite(gets, hits, led, read)
    BY <2>1
  <2>3. PICK k : k = IF led THEN 0 ELSE Cardinality(hits)
    OBVIOUS
  <2>4. read \in SUBSET Pages
    BY DEF New
  <2>5. cands' = cands \cup {Candidate(p, SiteScore(p)) : p \in read}
    BY <2>2 DEF SearchSite
  <2>6. left' = [left EXCEPT !.gets = @ - gets, !.pages = @ - k]
    BY <2>2, <2>3 DEF SearchSite
  <2>7. IsLeft(left') /\ left'.extracts = left.extracts
    BY <2>6, LeftStep DEF Typed
  <2>8. CASE {p \in read : SiteScore(p) = 100} = {}
    <3>1. NextTerm /\ UNCHANGED <<item, got, phase>>
      BY <2>2, <2>8 DEF SearchSite
    <3>2. QED BY <1>1, <2>4, <2>5, <2>7, <3>1
  <2>9. CASE {p \in read : SiteScore(p) = 100} # {}
    <3>1. UNCHANGED at /\ \E p \in {q \in read : SiteScore(q) = 100} : TakeFound(p)
      BY <2>2, <2>9 DEF SearchSite
    <3>2. \E p \in Pages : SiteScore(p) = 100 /\ TakeFound(p)
      BY <2>4, <3>1
    <3>3. QED BY <1>1, <2>4, <2>5, <2>7, <3>1, <3>2
  <2>10. QED BY <2>8, <2>9
<1>4. QED BY <1>2, <1>3 DEF SiteSearch

\* A page is taken from the site's own search.
LEMMA FoundTaken ==
  ASSUME Typed, NEW p \in Pages, TakeFound(p)
  PROVE  /\ IsRow(item') /\ item'.url = p /\ item'.method = "site_search" /\ SameData(item', item)
         /\ \/ phase' = "stage" /\ got' = [page |-> p, how |-> "jsonld"]
            \/ phase' = "fetch" /\ got' = got
BY Resolved DEF Typed, TakeFound, Goto

\* One suggestion of Shopify: it goes on, or a page with the barcode is taken.
LEMMA Suggested ==
  ASSUME Typed, Suggest
  PROVE  /\ phase = "shopify"
         /\ UNCHANGED <<world, config, kept, left, todo, got, spent, attempt, reviews, behind, retries>>
         /\ IsAt(at')
         /\ \E read \in SUBSET Pages :
              cands' = cands \cup {Candidate(p, ShopifyScore(p)) : p \in read}
         /\ \/ UNCHANGED <<item, phase>>
            \/ \E p \in Pages : /\ ShopifyScore(p) = 100 /\ Resolve(p, "shopify_json")
                                /\ phase' = "fetch"
<1>1. /\ phase = "shopify"
      /\ UNCHANGED <<world, config, kept, left, todo, spent, attempt, reviews, behind, retries>>
  BY DEF Suggest, again
<1>2. CASE NextSite /\ UNCHANGED <<seen, cands, got, item, phase>>
  <2>1. cands' = cands \cup {Candidate(p, ShopifyScore(p)) : p \in {}} /\ {} \in SUBSET Pages
    BY <1>2
  <2>2. IsAt(at')
    BY <1>2, AtStep DEF Typed
  <2>3. QED BY <1>1, <1>2, <2>1, <2>2
<1>3. CASE \E hits \in SUBSET New(at.site) : \E read \in SUBSET {p \in hits : ~world[p].busy} :
             /\ cands' = cands \cup {Candidate(p, ShopifyScore(p)) : p \in read}
             /\ \/ NextTerm /\ UNCHANGED <<got, item, phase>>
                \/ \E p \in {q \in read : ShopifyScore(q) = 100} :
                     /\ Resolve(p, "shopify_json") /\ Goto("fetch") /\ UNCHANGED <<at, got>>
  <2>1. PICK hits \in SUBSET New(at.site) : \E read \in SUBSET {p \in hits : ~world[p].busy} :
             /\ cands' = cands \cup {Candidate(p, ShopifyScore(p)) : p \in read}
             /\ \/ NextTerm /\ UNCHANGED <<got, item, phase>>
                \/ \E p \in {q \in read : ShopifyScore(q) = 100} :
                     /\ Resolve(p, "shopify_json") /\ Goto("fetch") /\ UNCHANGED <<at, got>>
    BY <1>3
  <2>2. PICK read \in SUBSET {p \in hits : ~world[p].busy} :
             /\ cands' = cands \cup {Candidate(p, ShopifyScore(p)) : p \in read}
             /\ \/ NextTerm /\ UNCHANGED <<got, item, phase>>
                \/ \E p \in {q \in read : ShopifyScore(q) = 100} :
                     /\ Resolve(p, "shopify_json") /\ Goto("fetch") /\ UNCHANGED <<at, got>>
    BY <2>1
  <2>3. read \in SUBSET Pages
    BY DEF New
  <2>4. CASE NextTerm /\ UNCHANGED <<got, item, phase>>
    <3>1. IsAt(at')
      BY <2>4, AtStep DEF Typed
    <3>2. QED BY <1>1, <2>2, <2>3, <2>4, <3>1
  <2>5. CASE \E p \in {q \in read : ShopifyScore(q) = 100} :
               /\ Resolve(p, "shopify_json") /\ Goto("fetch") /\ UNCHANGED <<at, got>>
    <3>1. \E p \in Pages : ShopifyScore(p) = 100 /\ Resolve(p, "shopify_json") /\ phase' = "fetch"
      BY <2>3, <2>5 DEF Goto
    <3>2. IsAt(at') /\ got' = got
      BY <2>5 DEF Typed
    <3>3. QED BY <1>1, <2>2, <2>3, <3>1, <3>2
  <2>6. QED BY <2>2, <2>4, <2>5
<1>4. QED BY <1>2, <1>3 DEF Suggest

\* The end of the search of Shopify: a page through the gate, or the next search.
LEMMA ShopifyEnded ==
  ASSUME Typed, EndShopify
  PROVE  /\ phase = "shopify"
         /\ UNCHANGED <<world, config, left, todo, got, spent, attempt, reviews, behind, retries>>
         /\ \/ \E p \in Pages : /\ p \in Gate(cands) /\ Resolve(p, "shopify_json")
                                /\ phase' = "fetch" /\ UNCHANGED <<kept, cands, at>>
            \/ /\ Fallback(cands) /\ UNCHANGED item /\ phase' \in {"site", "web", "uncertain"}
               /\ phase' \in {"site", "web"} => config.method = "auto"
<1>1. /\ phase = "shopify"
      /\ UNCHANGED <<world, config, left, todo, got, spent, attempt, reviews, behind, retries>>
  BY DEF EndShopify, again
<1>2. PICK p \in Gate(cands) :
       IF p # NoPage
       THEN /\ Resolve(p, "shopify_json") /\ Goto("fetch")
            /\ UNCHANGED <<kept, cands, seen, at>>
       ELSE /\ Fallback(cands) /\ UNCHANGED item
            /\ Goto(CASE config.method = "auto" /\ foreign # {} -> "site"
                      [] config.method = "auto" /\ foreign = {} /\ config.firecrawl -> "web"
                      [] OTHER -> "uncertain")
  BY DEF EndShopify
<1>3. CASE p # NoPage
  <2>1. p \in Pages
    BY <1>3, GateOpens DEF Typed, AreCandidates
  <2>2. QED BY <1>1, <1>2, <1>3, <2>1 DEF Goto
<1>4. CASE p = NoPage
  <2>1. /\ phase' \in {"site", "web", "uncertain"} /\ (phase' \in {"site", "web"} => config.method = "auto")
        /\ Fallback(cands) /\ UNCHANGED item
    BY <1>2, <1>4 DEF Goto
  <2>2. QED BY <1>1, <2>1
<1>5. QED BY <1>3, <1>4

\* A search, paid or not, takes one page or goes on: types are kept.
LEMMA TypedSearch ==
  ASSUME Typed, Suggest \/ EndShopify \/ SiteSearch \/ EndSite \/ WebSearch \/ WebPage \/ EndWeb
  PROVE  Typed'
<1>1. CASE Suggest
  <2>1. UNCHANGED <<world, config, kept, left, todo, got, spent, attempt, reviews, behind, retries>> /\ IsAt(at')
    BY <1>1, Suggested
  <2>2. AreCandidates(cands')
    <3>1. PICK read \in SUBSET Pages :
            cands' = cands \cup {Candidate(p, ShopifyScore(p)) : p \in read}
      BY <1>1, Suggested
    <3>2. QED BY <3>1, Scores DEF Typed, AreCandidates, Candidate
  <2>3. IsRow(item') /\ phase' \in Phases
    BY <1>1, Suggested, Resolved DEF Typed, Phases
  <2>4. QED BY <2>1, <2>2, <2>3 DEF Typed
<1>2. CASE EndShopify
  <2>1. UNCHANGED <<world, config, left, todo, got, spent, attempt, reviews, behind, retries>>
    BY <1>2, ShopifyEnded
  <2>2. IsAt(at') /\ AreCandidates(cands') /\ AreCandidates(kept')
    BY <1>2, ShopifyEnded, AtStep DEF Typed, AreCandidates, Fallback
  <2>3. IsRow(item') /\ phase' \in Phases
    BY <1>2, ShopifyEnded, Resolved DEF Typed, Phases
  <2>4. QED BY <2>1, <2>2, <2>3 DEF Typed
<1>3. CASE SiteSearch
  <2>1. UNCHANGED <<world, config, kept, todo, spent, attempt, reviews, behind, retries>>
    BY <1>3 DEF SiteSearch, again
  <2>2. IsAt(at')
    BY <1>3, SiteSearched, AtStep DEF Typed
  <2>3. AreCandidates(cands')
    <3>1. PICK read \in SUBSET Pages :
            cands' = cands \cup {Candidate(p, SiteScore(p)) : p \in read}
      BY <1>3, SiteSearched
    <3>2. QED BY <3>1, Scores DEF Typed, AreCandidates, Candidate
  <2>4. /\ IsRow(item') /\ phase' \in Phases
        /\ got'.page \in Pages \cup {NoPage}
    BY <1>3, SiteSearched, FoundTaken DEF Typed, Phases
  <2>5. IsLeft(left')
    BY <1>3, SiteSearched
  <2>6. QED BY <2>1, <2>2, <2>3, <2>4, <2>5 DEF Typed
<1>4. CASE EndSite
  <2>1. UNCHANGED <<world, config, left, todo, spent, attempt, reviews, behind, retries>>
    BY <1>4 DEF EndSite, again
  <2>2. PICK p \in Gate(cands) :
          IF p # NoPage THEN TakeFound(p) /\ UNCHANGED <<kept, cands, seen, at>>
          ELSE /\ Fallback(cands) /\ UNCHANGED <<item, got>>
               /\ Goto(IF config.firecrawl THEN "web" ELSE "uncertain")
    BY <1>4 DEF EndSite
  <2>3. CASE p # NoPage
    <3>1. p \in Pages /\ TakeFound(p) /\ UNCHANGED <<kept, cands, seen, at>>
      BY <2>2, <2>3, GateOpens DEF Typed, AreCandidates
    <3>2. QED BY <2>1, <3>1, FoundTaken DEF Typed, Phases
  <2>4. CASE p = NoPage
    <3>1. IsAt(at') /\ AreCandidates(cands') /\ AreCandidates(kept')
      BY <2>2, <2>4, AtStep DEF Typed, AreCandidates, Fallback
    <3>2. UNCHANGED <<item, got>> /\ phase' \in Phases
      BY <2>2, <2>4 DEF Goto, Phases
    <3>3. QED BY <2>1, <3>1, <3>2 DEF Typed
  <2>5. QED BY <2>3, <2>4
<1>5. CASE WebSearch
  <2>1. UNCHANGED <<world, config, phase, cands, kept, left, got, item, attempt, reviews, behind, retries>>
    BY <1>5 DEF WebSearch, again
  <2>2. IsAt(at')
    BY <1>5, AtStep DEF WebSearch, Typed
  <2>3. todo' \subseteq Pages
    BY <1>5 DEF WebSearch, Typed
  <2>4. IsBill(spent')
    <3>1. PICK s, e, m \in Nat : spent = [search |-> s, extract |-> e, metered |-> m]
      BY DEF Typed, IsBill
    <3>2. PICK b : b = [spent EXCEPT !.search = @ + 1]
      OBVIOUS
    <3>3. b = [search |-> s + 1, extract |-> e, metered |-> m]
      BY <3>1, <3>2
    <3>4. spent' = spent \/ spent' = [b EXCEPT !.metered = spent.metered + 1]
      BY <1>5, <3>2 DEF WebSearch
    <3>5. spent' = spent \/ spent' = [search |-> s + 1, extract |-> e, metered |-> m + 1]
      BY <3>1, <3>3, <3>4
    <3>6. QED BY <3>1, <3>5 DEF IsBill
  <2>5. QED BY <2>1, <2>2, <2>3, <2>4 DEF Typed
<1>6. CASE WebPage
  <2>1. UNCHANGED <<world, config, at, kept, attempt, reviews, behind, retries>>
    BY <1>6 DEF WebPage, again
  <2>2. PICK p \in todo, how \in {"jsonld", "extract", "empty", "error"} :
          LET n == IF how \in {"extract", "empty"} THEN 1 ELSE 0 IN
          /\ todo' = todo \ {p} /\ Pay(n) /\ left' = [left EXCEPT !.extracts = @ - n]
          /\ \/ cands' = cands \cup {Candidate(p, WebScore(p))} \/ cands' = cands
          /\ \/ /\ Resolve(p, "firecrawl") /\ got' = [page |-> p, how |-> how]
                /\ Goto("stage")
             \/ UNCHANGED <<item, got, phase>>
    BY <1>6 DEF WebPage
  <2>3. p \in Pages /\ todo' \subseteq Pages
    BY <2>2 DEF Typed
  <2>4. PICK n \in 0..1 : Pay(n) /\ left' = [left EXCEPT !.extracts = @ - n]
    BY <2>2
  <2>5. IsBill(spent')
    BY <2>4, Paid DEF Typed
  <2>6. IsLeft(left')
    BY <1>6, <2>4, LeftStep DEF Typed, WebPage
  <2>7. AreCandidates(cands')
    BY <2>2, <2>3, Scores DEF Typed, AreCandidates, Candidate
  <2>8. IsRow(item') /\ got'.page \in Pages \cup {NoPage}
    BY <2>2, <2>3, Resolved DEF Typed
  <2>9. phase' \in Phases
    BY <2>2 DEF Typed, Goto, Phases
  <2>10. QED BY <2>1, <2>3, <2>5, <2>6, <2>7, <2>8, <2>9 DEF Typed
<1>7. CASE EndWeb
  <2>1. UNCHANGED <<world, config, left, got, item, spent, attempt, reviews, behind, retries>>
    BY <1>7 DEF EndWeb, again
  <2>2. IsAt(at') /\ todo' = {}
    BY <1>7, AtStep DEF EndWeb, Typed, Fallback
  <2>3. AreCandidates(cands') /\ AreCandidates(kept') /\ phase' \in Phases
    BY <1>7 DEF EndWeb, Typed, AreCandidates, Fallback, Goto, Phases
  <2>4. QED BY <2>1, <2>2, <2>3 DEF Typed
<1>8. QED BY <1>1, <1>2, <1>3, <1>4, <1>5, <1>6, <1>7

\* A page the reviewer names: two extractions at most, and either all of the row is
\* written from it or none, a price that the catalogue has by now excepted.
ByHandRow(p, unpriced) ==
  /\ item'.url = p /\ item'.method = "manual"
  /\ item'.source = IF config.images THEN p ELSE item.source
  /\ item'.copy = IF config.copy /\ config.claude THEN p ELSE item.copy
  /\ item'.html = IF config.copy /\ config.claude THEN p ELSE item.html
  /\ item'.price = IF unpriced THEN p ELSE IF item.price \in {NoPage, p} THEN item.price ELSE Earlier
  /\ behind' = IF unpriced THEN behind ELSE behind \cup {"price"}

LEMMA ByHand ==
  ASSUME Typed, ResolveByHand
  PROVE  /\ IsRow(item') /\ IsBill(spent') /\ spent'.search = spent.search
         /\ spent'.extract \in spent.extract..(spent.extract + 2)
         /\ \/ item' = item /\ behind' = behind
            \/ \E p \in Pages, unpriced \in BOOLEAN : ByHandRow(p, unpriced)
<1>1. PICK p \in Pages, unpriced, fails \in BOOLEAN : \E r \in Reads(p) : \E n \in Completions(r.how) :
       \/ /\ spent' = [spent EXCEPT !.extract = @ + (IF r.how = "failed" THEN r.paid ELSE r.paid + n)]
          /\ UNCHANGED <<item, behind>>
       \/ /\ Pay(r.paid + n)
          /\ item' = Copied(Outdated(Staged([item EXCEPT !.url = p, !.method = "manual"], p, unpriced)), p)
          /\ behind' = IF unpriced THEN behind ELSE behind \cup {"price"}
  BY DEF ResolveByHand
<1>2. PICK r \in Reads(p) : \E n \in Completions(r.how) :
       \/ /\ spent' = [spent EXCEPT !.extract = @ + (IF r.how = "failed" THEN r.paid ELSE r.paid + n)]
          /\ UNCHANGED <<item, behind>>
       \/ /\ Pay(r.paid + n)
          /\ item' = Copied(Outdated(Staged([item EXCEPT !.url = p, !.method = "manual"], p, unpriced)), p)
          /\ behind' = IF unpriced THEN behind ELSE behind \cup {"price"}
  BY <1>1
<1>3. PICK n \in Completions(r.how) :
       \/ /\ spent' = [spent EXCEPT !.extract = @ + (IF r.how = "failed" THEN r.paid ELSE r.paid + n)]
          /\ UNCHANGED <<item, behind>>
       \/ /\ Pay(r.paid + n)
          /\ item' = Copied(Outdated(Staged([item EXCEPT !.url = p, !.method = "manual"], p, unpriced)), p)
          /\ behind' = IF unpriced THEN behind ELSE behind \cup {"price"}
  BY <1>2
<1>4. PICK k \in 0..2 : k = r.paid + n
  BY CompletionsBound, Readings
<1>5. CASE /\ spent' = [spent EXCEPT !.extract = @ + (IF r.how = "failed" THEN r.paid ELSE r.paid + n)]
           /\ UNCHANGED <<item, behind>>
  <2>1. PICK j \in 0..2 : j = IF r.how = "failed" THEN r.paid ELSE r.paid + n
    BY <1>4, Readings
  <2>2. PICK s, e, m \in Nat : spent = [search |-> s, extract |-> e, metered |-> m]
    BY DEF Typed, IsBill
  <2>3. spent' = [search |-> s, extract |-> e + j, metered |-> m]
    BY <1>5, <2>1, <2>2
  <2>4. QED BY <1>5, <2>2, <2>3 DEF IsBill, Typed
<1>6. CASE /\ Pay(r.paid + n)
           /\ item' = Copied(Outdated(Staged([item EXCEPT !.url = p, !.method = "manual"], p, unpriced)), p)
           /\ behind' = IF unpriced THEN behind ELSE behind \cup {"price"}
  <2>1. /\ IsBill(spent') /\ spent'.search = spent.search
        /\ spent'.extract \in spent.extract..(spent.extract + 2)
    BY <1>4, <1>6, Paid DEF Typed, IsBill
  <2>2. PICK i : i = [item EXCEPT !.url = p, !.method = "manual"]
    OBVIOUS
  <2>3. IsRow(i) /\ i.url = p /\ i.method = "manual" /\ SameData(i, item)
    <3>1. i = OfPage(item, p, "manual")
      BY <2>2 DEF OfPage
    <3>2. IsRow(item)
      BY DEF Typed
    <3>3. QED BY <3>1, <3>2, PageWritten
  <2>4. PICK w : w = Staged(i, p, unpriced)
    OBVIOUS
  <2>5. /\ IsRow(w) /\ w.url = p /\ w.method = "manual" /\ w.copy = item.copy /\ w.html = item.html
        /\ w.source = IF config.images THEN p ELSE item.source
        /\ w.price = IF unpriced THEN p ELSE item.price
    BY <2>3, <2>4, StagedRow, Bounds DEF SameData
  <2>6. PICK o : o = Outdated(w)
    OBVIOUS
  <2>7. /\ IsRow(o) /\ o.url = p /\ o.method = "manual" /\ o.copy = item.copy /\ o.html = item.html
        /\ o.source = IF config.images THEN p ELSE item.source
        /\ o.price = IF w.price \in {NoPage, p} THEN w.price ELSE Earlier
    BY <2>5, <2>6, OutdatedRow
  <2>8. o.price = IF unpriced THEN p ELSE IF item.price \in {NoPage, p} THEN item.price ELSE Earlier
    BY <2>5, <2>7
  <2>9. item' = Copied(o, p)
    BY <1>6, <2>2, <2>4, <2>6
  <2>10. /\ IsRow(item') /\ item'.url = p /\ item'.method = "manual" /\ item'.source = o.source
         /\ item'.price = o.price
         /\ item'.copy = IF config.copy /\ config.claude THEN p ELSE o.copy
         /\ item'.html = IF config.copy /\ config.claude THEN p ELSE o.html
    BY <2>7, <2>9, CopiedRow, Bounds
  <2>11. ByHandRow(p, unpriced)
    BY <1>6, <2>7, <2>8, <2>10 DEF ByHandRow
  <2>12. QED BY <2>1, <2>10, <2>11
<1>7. QED BY <1>3, <1>5, <1>6

\* What a page does to the row when a person or the launch names it.
LEMMA TypedTaken ==
  ASSUME Typed, NEW p \in Pages \cup {NoPage}, NEW how, NEW m, Resolve(p, m),
         got' = [page |-> p, how |-> how]
  PROVE  IsRow(item') /\ got'.page \in Pages \cup {NoPage}
BY Resolved DEF Typed

\* The run around the searches and the reviewer keep the types.
LEMMA TypedRun ==
  ASSUME Typed, \/ Start \/ Override \/ ChooseSearch \/ FetchResolved \/ Stage \/ Select
                \/ Withhold \/ Copy \/ CopyFails \/ ResolveByHand \/ CopyOnly \/ Retry
  PROVE  Typed'
<1>1. CASE Start
  <2>1. UNCHANGED <<world, config, at, cands, kept, left, todo, got, spent, attempt, reviews, behind, retries>>
    BY <1>1 DEF Start, search, again
  <2>2. item' = item \/ item' = [item EXCEPT !.method = "skipped"]
    BY <1>1 DEF Start
  <2>3. IsRow(item') /\ phase' \in Phases
    BY <1>1, <2>2, MethodWritten DEF Typed, Start, Goto, Phases
  <2>4. QED BY <2>1, <2>3 DEF Typed
<1>2. CASE Override
  <2>1. UNCHANGED <<world, config, at, cands, kept, left, todo, attempt, reviews, behind, retries>>
    BY <1>2 DEF Override, search, again
  <2>2. PICK r \in Reads(config.override) :
          /\ Pay(r.paid)
          /\ \/ Goto("resolve") /\ UNCHANGED <<item, got>>
             \/ /\ Resolve(config.override, "manual")
                /\ got' = [page |-> config.override, how |-> r.how] /\ Goto("stage")
    BY <1>2 DEF Override
  <2>3. IsBill(spent')
    BY <2>2, Paid, Readings DEF Typed
  <2>4. config.override \in Pages \cup {NoPage}
    BY DEF Typed, Options
  <2>5. IsRow(item') /\ got'.page \in Pages \cup {NoPage} /\ phase' \in Phases
    BY <2>2, <2>4, TypedTaken DEF Typed, Goto, Phases
  <2>6. QED BY <2>1, <2>3, <2>5 DEF Typed
<1>3. CASE ChooseSearch
  <2>1. UNCHANGED <<world, config, cands, kept, left, todo, got, spent, attempt, reviews, behind, retries>>
    BY <1>3 DEF ChooseSearch, again
  <2>2. item' = item \/ item' = [item EXCEPT !.method = "skipped"]
    BY <1>3 DEF ChooseSearch
  <2>3. IsRow(item') /\ phase' \in Phases
    BY <1>3, <2>2, MethodWritten DEF Typed, ChooseSearch, Goto, Phases
  <2>4. IsAt(at')
    BY <1>3, AtStep DEF Typed, ChooseSearch
  <2>5. QED BY <2>1, <2>3, <2>4 DEF Typed
<1>4. CASE FetchResolved
  <2>1. UNCHANGED <<world, config, at, cands, kept, left, todo, item, attempt, reviews, behind, retries>>
    BY <1>4 DEF FetchResolved, search, again
  <2>2. PICK r \in Reads(item.url) :
          Pay(r.paid) /\ got' = IF r.how = "failed" THEN Nothing ELSE [page |-> item.url, how |-> r.how]
    BY <1>4 DEF FetchResolved
  <2>3. IsBill(spent')
    BY <2>2, Paid, Readings DEF Typed
  <2>4. item.url \in Pages \cup {NoPage}
    BY DEF Typed, IsRow
  <2>5. got'.page \in Pages \cup {NoPage} /\ phase' \in Phases
    BY <1>4, <2>2, <2>4 DEF Nothing, FetchResolved, Goto, Phases
  <2>6. QED BY <2>1, <2>3, <2>5 DEF Typed
<1>5. CASE Stage
  <2>1. UNCHANGED <<world, config, got, attempt, reviews, behind, retries>>
    BY <1>5 DEF Stage, again
  <2>2. IsRow(item')
    BY <1>5, StagedRow DEF Stage, Typed
  <2>3. IsBill(spent')
    BY <1>5, CompletionsBound, Paid DEF Stage, Typed
  <2>4. phase' \in Phases
    BY <1>5 DEF Stage, Goto, Phases
  <2>5. QED BY <1>5, <2>1, <2>2, <2>3, <2>4, Returned DEF Typed, Stage, AreCandidates
<1>6. CASE Select
  <2>1. UNCHANGED <<world, config, attempt, reviews, behind, retries>> /\ Return
    BY <1>6 DEF Select, again
  <2>2. \/ UNCHANGED <<item, got, spent>> /\ phase' \in Phases
        \/ \E c \in kept : \E r \in Reads(c.page) :
             /\ Pay(r.paid) /\ phase' \in Phases
             /\ \/ UNCHANGED <<item, got>>
                \/ Resolve(c.page, "llm") /\ got' = [page |-> c.page, how |-> r.how]
    BY <1>6 DEF Select, Goto, Phases
  <2>3. IsRow(item') /\ got'.page \in Pages \cup {NoPage} /\ IsBill(spent') /\ phase' \in Phases
    <3>1. ASSUME NEW c \in kept, NEW r \in Reads(c.page), Pay(r.paid), phase' \in Phases,
                 \/ UNCHANGED <<item, got>>
                 \/ Resolve(c.page, "llm") /\ got' = [page |-> c.page, how |-> r.how]
          PROVE  IsRow(item') /\ got'.page \in Pages \cup {NoPage} /\ IsBill(spent') /\ phase' \in Phases
      <4>1. c.page \in Pages
        BY DEF Typed, AreCandidates
      <4>2. IsBill(spent')
        BY <3>1, Paid, Readings DEF Typed
      <4>3. QED BY <3>1, <4>1, <4>2, TypedTaken DEF Typed
    <3>2. QED BY <2>2, <3>1 DEF Typed
  <2>4. QED BY <2>1, <2>3, Returned DEF Typed, AreCandidates
<1>7. CASE Withhold
  <2>1. UNCHANGED <<world, config, at, cands, kept, left, todo, got, spent, attempt, reviews, behind, retries>>
    BY <1>7 DEF Withhold, search, again
  <2>2. IsRow(item') /\ phase' \in Phases
    BY <1>7, MethodWritten DEF Typed, Withhold, Goto, Phases
  <2>3. QED BY <2>1, <2>2 DEF Typed
<1>8. CASE Copy
  <2>1. UNCHANGED <<world, config, at, cands, kept, left, todo, got, spent, attempt, reviews, behind, retries>>
    BY <1>8 DEF Copy, search, again
  <2>2. IsRow(item') /\ phase' \in Phases
    BY <1>8, CopiedRow DEF Typed, Copy, Goto, Phases
  <2>3. QED BY <2>1, <2>2 DEF Typed
<1>9. CASE CopyFails
  <2>1. UNCHANGED <<world, config, reviews, behind, retries>> /\ Return /\ item' = Bare(behind)
        /\ got' = Nothing
    BY <1>9 DEF CopyFails, again
  <2>2. IsBill(spent')
    <3>1. PICK s, e, m \in Nat : spent = [search |-> s, extract |-> e, metered |-> m]
      BY DEF Typed, IsBill
    <3>2. spent' = [search |-> s, extract |-> e, metered |-> 0]
      BY <1>9, <3>1 DEF CopyFails
    <3>3. QED BY <3>1, <3>2 DEF IsBill
  <2>3. phase' \in Phases /\ attempt' \in Nat \ {0}
    BY <1>9 DEF CopyFails, Goto, Phases, Typed
  <2>4. got'.page \in Pages \cup {NoPage} /\ IsRow(item')
    BY <2>1, BareRow DEF Nothing
  <2>5. QED BY <2>1, <2>2, <2>3, <2>4, Returned DEF Typed, AreCandidates
<1>10. CASE ResolveByHand
  <2>1. UNCHANGED <<world, config, at, cands, kept, left, todo, got, phase, attempt, retries>>
    BY <1>10 DEF ResolveByHand, search
  <2>2. IsRow(item') /\ IsBill(spent')
    BY <1>10, ByHand
  <2>3. reviews' = reviews + 1
    BY <1>10 DEF ResolveByHand, Reviewing
  <2>4. behind' \subseteq {"html", "price"}
    BY <1>10, ByHand DEF ByHandRow, Typed
  <2>5. QED BY <2>1, <2>2, <2>3, <2>4 DEF Typed
<1>11. CASE CopyOnly
  <2>1. UNCHANGED <<world, config, at, cands, kept, left, todo, got, phase, spent, attempt, behind, retries>>
    BY <1>11 DEF CopyOnly, search, again
  <2>2. IsRow(item')
    BY <1>11, CopiedRow DEF Typed, CopyOnly
  <2>3. reviews' \in Nat
    BY <1>11 DEF CopyOnly, Reviewing, Typed
  <2>4. QED BY <2>1, <2>2, <2>3 DEF Typed
<1>12. CASE Retry
  <2>1. /\ UNCHANGED <<world, config>> /\ Return /\ item' = Bare(behind') /\ got' = Nothing
        /\ phase' = "start" /\ spent' = Unpaid /\ attempt' = 1 /\ reviews' = 0
        /\ retries' = retries + 1 /\ behind' \subseteq {"html", "price"}
    BY <1>12 DEF Retry, Goto
  <2>2. IsRow(item')
    BY <2>1, BareRow
  <2>3. IsBill(spent')
    BY <2>1 DEF IsBill, Unpaid
  <2>4. got'.page \in Pages \cup {NoPage} /\ phase' \in Phases
    BY <2>1 DEF Nothing, Phases
  <2>5. QED BY <2>1, <2>2, <2>3, <2>4, Returned DEF Typed, AreCandidates
<1>13. QED BY <1>1, <1>2, <1>3, <1>4, <1>5, <1>6, <1>7, <1>8, <1>9, <1>10, <1>11, <1>12

\* The initial state is well typed.
LEMMA TypedInit == Init => Typed
<1> SUFFICES ASSUME Init PROVE Typed
  OBVIOUS
<1>1. world \in [Pages -> PageFacts] /\ config \in Options
  BY SourceAssumption DEF Init, SourceAssumption
<1>2. IsAt(at) /\ IsLeft(left)
  BY Bounds DEF Init, IsAt, IsLeft, FullBudget
<1>3. AreCandidates(cands) /\ AreCandidates(kept) /\ todo \subseteq Pages /\ IsRow(item)
  BY FreshRow DEF Init, AreCandidates
<1>4. IsBill(spent)
  BY DEF Init, IsBill, Unpaid
<1>5. /\ phase \in Phases /\ attempt \in Nat \ {0} /\ reviews \in Nat
      /\ behind \subseteq {"html", "price"} /\ retries \in Nat
  BY DEF Init, Phases
<1>6. got.page \in Pages \cup {NoPage}
  BY DEF Init, Nothing
<1>7. QED BY <1>1, <1>2, <1>3, <1>4, <1>5, <1>6 DEF Typed

\* The state keeps its types: the part of every invariant below that says what a
\* row, a bill, a budget and a candidate are.
LEMMA TypedInvariant == Spec => []Typed
<1>1. ASSUME Typed, [Next]_vars PROVE Typed'
  <2>1. CASE Next
    BY <1>1, <2>1, TypedSearch, TypedRun DEF Next
  <2>2. CASE UNCHANGED vars
    BY <1>1, <2>2 DEF vars, Typed, IsAt, IsLeft, AreCandidates, IsRow, IsBill
  <2>3. QED BY <1>1, <2>1, <2>2
<1>2. QED BY <1>1, TypedInit, PTL DEF Spec

-----------------------------------------------------------------------------
(* The bill *)

\* Where the attempt is yet to pay a search.
EarlyPhases == {"start", "override", "resolve", "shopify", "site", "failed"}

\* What the attempt has paid, phase by phase, on top of the bs searches and be
\* extractions of those before it.
BillOf(bs, be) ==
  /\ spent.search <= bs + WebSites * Queries
  /\ phase \in EarlyPhases => spent.search <= bs
  /\ phase = "web" =>
       /\ at.site <= WebSites + 1
       /\ at.site <= WebSites => spent.search <= bs + (at.site - 1) * Queries + (at.term - 1)
  /\ spent.extract <= be + WebExtracts + 2
  /\ phase \in {"start", "override", "failed"} => spent.extract <= be
  /\ phase \in {"resolve", "shopify", "site", "fetch"} => spent.extract <= be + 1
  /\ phase = "web" => spent.extract <= be + 1 + WebExtracts - left.extracts
  /\ phase = "uncertain" \/ (phase = "stage" /\ got.how = "jsonld") =>
       spent.extract <= be + 1 + WebExtracts
  /\ phase \in EarlyPhases => left.extracts = WebExtracts

Bill ==
  /\ \E bs, be \in Nat :
       /\ bs = (attempt - 1) * (WebSites * Queries)
       /\ be = (attempt - 1) * (WebExtracts + 2) + 2 * reviews
       /\ BillOf(bs, be)
  /\ attempt <= MaxAttempts + 1 /\ (phase = "failed" <=> attempt = MaxAttempts + 1)
  /\ phase # "review" => reviews = 0
  /\ attempt = 1 /\ reviews = 0 => spent.metered = spent.search + spent.extract
  /\ config.method = "shopify_json" => spent.search = 0 /\ phase \notin {"site", "web"}

\* A search that starts is at the first term of the first site.
LEMMA Entered ==
  ASSUME at' = [site |-> 1, term |-> 1]
  PROVE  at'.site = 1 /\ at'.term = 1 /\ (at'.site - 1) * Queries + (at'.term - 1) = 0
<1>1. at'.site = 1 /\ at'.term = 1
  OBVIOUS
<1>2. (1 - 1) * Queries + (1 - 1) = 0
  BY Bounds
<1>3. QED BY <1>1, <1>2

\* A paid search moves on: the searches made stay below those of the terms behind.
LEMMA SearchPaid ==
  ASSUME Typed, WebSearch, NEW bs \in Nat, at.site <= WebSites,
         spent.search <= bs + (at.site - 1) * Queries + (at.term - 1)
  PROVE  /\ spent'.search \in {spent.search, spent.search + 1}
         /\ spent'.extract = spent.extract
         /\ spent'.metered - spent.metered = spent'.search - spent.search
         /\ spent'.search <= bs + WebSites * Queries
         /\ at'.site <= WebSites + 1
         /\ spent'.search <= bs + (at'.site - 1) * Queries + (at'.term - 1)
<1>1. PICK s, e, m \in Nat : spent = [search |-> s, extract |-> e, metered |-> m]
  BY DEF Typed, IsBill
<1>2. PICK b : b = [spent EXCEPT !.search = @ + 1]
  OBVIOUS
<1>3. b = [search |-> s + 1, extract |-> e, metered |-> m]
  BY <1>1, <1>2
<1>4. spent' = spent \/ spent' = [b EXCEPT !.metered = spent.metered + 1]
  BY <1>2 DEF WebSearch
<1>5. spent' = spent \/ spent' = [search |-> s + 1, extract |-> e, metered |-> m + 1]
  BY <1>1, <1>3, <1>4
<1>6. /\ spent'.search \in {s, s + 1} /\ spent'.extract = e
      /\ spent'.metered - m = spent'.search - s
  BY <1>1, <1>5
<1>7. PICK i \in Nat \ {0}, t \in 1..Queries : i = at.site /\ t = at.term
  BY DEF Typed, IsAt
<1>8. PICK j \in Nat : j = i - 1
  BY <1>7
<1>9. PICK a \in Nat, c \in Nat, k \in Nat : a = j * Queries /\ c = (j + 1) * Queries /\ k = WebSites * Queries
  BY <1>8, Products, Bounds
<1>10. c = a + Queries /\ c <= k
  BY <1>7, <1>8, <1>9, Products, Bounds
<1>11. s <= bs + a + (t - 1)
  BY <1>1, <1>7, <1>8, <1>9
<1>12. spent'.search <= bs + k
  BY <1>1, <1>6, <1>7, <1>10, <1>11, Bounds
<1>13. \/ at'.site = i + 1 /\ at'.term = 1
       \/ at'.site = i /\ at'.term = t + 1 /\ t < Queries
  BY <1>7, AtStep DEF Typed, WebSearch
<1>14. at'.site <= WebSites + 1
  BY <1>7, <1>13, Bounds
<1>15. CASE at'.site = i + 1 /\ at'.term = 1
  <2>1. (at'.site - 1) * Queries = c
    BY <1>8, <1>9, <1>15
  <2>2. spent'.search <= bs + c + (at'.term - 1)
    BY <1>6, <1>7, <1>10, <1>11, <1>15, Bounds
  <2>3. QED BY <1>1, <1>6, <1>9, <1>12, <1>14, <2>1, <2>2
<1>16. CASE at'.site = i /\ at'.term = t + 1 /\ t < Queries
  <2>1. (at'.site - 1) * Queries = a
    BY <1>8, <1>9, <1>16
  <2>2. spent'.search <= bs + a + (at'.term - 1)
    BY <1>6, <1>7, <1>11, <1>16, Bounds
  <2>3. QED BY <1>1, <1>6, <1>9, <1>12, <1>14, <2>1, <2>2
<1>17. QED BY <1>13, <1>15, <1>16

\* One step of the run moves the bill by what the phase leaves room for.
LEMMA BillOfStep ==
  ASSUME Typed, NEW bs \in Nat, NEW be \in Nat, BillOf(bs, be),
         \/ Start \/ Override \/ ChooseSearch \/ Suggest \/ EndShopify \/ SiteSearch \/ EndSite
         \/ WebSearch \/ WebPage \/ EndWeb \/ FetchResolved \/ Stage \/ Select \/ Withhold \/ Copy
  PROVE  /\ BillOf(bs, be)'
         /\ UNCHANGED <<config, attempt, reviews>>
         /\ phase \notin {"review", "failed"} /\ phase' # "failed"
         /\ spent'.metered - spent.metered = (spent'.search - spent.search) + (spent'.extract - spent.extract)
         /\ spent'.search = spent.search \/ phase = "web"
         /\ phase' \in {"site", "web"} => phase \in {"site", "web"} \/ config.method # "shopify_json"
<1> USE Bounds
<1>0. /\ spent.search \in Nat /\ spent.extract \in Nat /\ spent.metered \in Nat
      /\ left.extracts \in 0..WebExtracts
  BY DEF Typed, IsBill, IsLeft
<1>1. CASE Start
  <2>1. UNCHANGED <<config, attempt, reviews, spent, left, got, at>> /\ phase = "start"
    BY <1>1 DEF Start, search
  <2>2. phase' \in {"review", "copy", "override", "resolve"}
    BY <1>1 DEF Start, Goto
  <2>3. QED BY <1>0, <2>1, <2>2 DEF BillOf, EarlyPhases
<1>2. CASE Override
  <2>1. UNCHANGED <<config, attempt, reviews, left, at>> /\ phase = "override"
    BY <1>2 DEF Override, search
  <2>2. PICK r \in Reads(config.override) :
          Pay(r.paid) /\ phase' \in {"resolve", "stage"}
    BY <1>2 DEF Override, Goto
  <2>3. PICK n \in 0..1 : n = r.paid
    BY Readings
  <2>4. /\ spent'.search = spent.search /\ spent'.extract = spent.extract + n
        /\ spent'.metered = spent.metered + n
    BY <2>2, <2>3, Paid DEF Typed
  <2>5. QED BY <1>0, <2>1, <2>2, <2>4 DEF BillOf, EarlyPhases
<1>3. CASE ChooseSearch
  <2>1. UNCHANGED <<config, attempt, reviews, spent, left, got>> /\ phase = "resolve"
    BY <1>3 DEF ChooseSearch
  <2>2. phase' \in {"copy", "shopify"} \/ (phase' = "web" /\ config.method = "firecrawl")
    BY <1>3 DEF ChooseSearch, Goto
  <2>3. at'.site = 1 /\ at'.term = 1 /\ (at'.site - 1) * Queries + (at'.term - 1) = 0
    BY <1>3, Entered DEF ChooseSearch
  <2>4. QED BY <1>0, <2>1, <2>2, <2>3 DEF BillOf, EarlyPhases
<1>4. CASE Suggest
  <2>1. phase = "shopify" /\ UNCHANGED <<config, left, got, spent, attempt, reviews>>
    BY <1>4, Suggested
  <2>2. phase' \in {"shopify", "fetch"}
    BY <1>4, <2>1, Suggested
  <2>3. QED BY <1>0, <2>1, <2>2 DEF BillOf, EarlyPhases
<1>5. CASE EndShopify
  <2>1. phase = "shopify" /\ UNCHANGED <<config, left, got, spent, attempt, reviews>>
    BY <1>5, ShopifyEnded
  <2>2. \/ phase' \in {"fetch", "uncertain"}
        \/ phase' \in {"site", "web"} /\ config.method = "auto" /\ at' = [site |-> 1, term |-> 1]
    BY <1>5, ShopifyEnded DEF Fallback
  <2>3. phase' = "web" => at'.site = 1 /\ at'.term = 1 /\ (at'.site - 1) * Queries + (at'.term - 1) = 0
    BY <2>2, Entered
  <2>4. QED BY <1>0, <2>1, <2>2, <2>3 DEF BillOf, EarlyPhases
<1>6. CASE SiteSearch
  <2>1. /\ phase = "site" /\ UNCHANGED <<config, spent, attempt, reviews>>
        /\ left'.extracts = left.extracts
    BY <1>6, SiteSearched
  <2>2. phase' \in {"site", "fetch"} \/ (phase' = "stage")
    BY <1>6, <2>1, SiteSearched, FoundTaken
  <2>3. QED BY <1>0, <2>1, <2>2 DEF BillOf, EarlyPhases
<1>7. CASE EndSite
  <2>1. phase = "site" /\ UNCHANGED <<config, left, spent, attempt, reviews>>
    BY <1>7 DEF EndSite
  <2>2. \/ phase' \in {"fetch", "stage", "uncertain"}
        \/ phase' = "web" /\ at' = [site |-> 1, term |-> 1]
    BY <1>7 DEF EndSite, TakeFound, Goto, Fallback
  <2>3. phase' = "web" => at'.site = 1 /\ at'.term = 1 /\ (at'.site - 1) * Queries + (at'.term - 1) = 0
    BY <2>2, Entered
  <2>4. CASE phase' = "web"
    <3>1. /\ at'.site <= WebSites + 1 /\ spent'.search <= bs
          /\ at'.site <= WebSites => spent'.search <= bs + (at'.site - 1) * Queries + (at'.term - 1)
      BY <1>0, <2>1, <2>3, <2>4 DEF BillOf, EarlyPhases
    <3>2. QED BY <1>0, <2>1, <2>4, <3>1 DEF BillOf, EarlyPhases
  <2>5. CASE phase' \in {"fetch", "stage", "uncertain"}
    BY <1>0, <2>1, <2>5 DEF BillOf, EarlyPhases
  <2>6. QED BY <2>2, <2>4, <2>5
<1>8. CASE WebSearch
  <2>1. phase = "web" /\ phase' = "web" /\ at.site <= WebSites /\ UNCHANGED <<config, left, attempt, reviews>>
    BY <1>8 DEF WebSearch
  <2>2. spent.search <= bs + (at.site - 1) * Queries + (at.term - 1)
    BY <2>1 DEF BillOf
  <2>3. /\ spent'.search \in {spent.search, spent.search + 1}
        /\ spent'.extract = spent.extract
        /\ spent'.metered - spent.metered = spent'.search - spent.search
        /\ spent'.search <= bs + WebSites * Queries
        /\ at'.site <= WebSites + 1
        /\ spent'.search <= bs + (at'.site - 1) * Queries + (at'.term - 1)
    BY <1>8, <2>1, <2>2, SearchPaid
  <2>4. QED BY <1>0, <2>1, <2>3 DEF BillOf, EarlyPhases
<1>9. CASE WebPage
  <2>1. phase = "web" /\ left.extracts > 0 /\ UNCHANGED <<config, at, attempt, reviews>>
    BY <1>9 DEF WebPage
  <2>2. PICK n \in 0..1 : Pay(n) /\ left' = [left EXCEPT !.extracts = @ - n]
    BY <1>9 DEF WebPage
  <2>3. phase' \in {"web", "stage"}
    BY <1>9, <2>1 DEF WebPage, Goto
  <2>4. left'.extracts = left.extracts - n
    BY <2>1, <2>2, LeftStep DEF Typed
  <2>5. /\ spent'.search = spent.search /\ spent'.extract = spent.extract + n
        /\ spent'.metered = spent.metered + n
    BY <2>2, Paid DEF Typed
  <2>6. QED BY <1>0, <2>1, <2>3, <2>4, <2>5 DEF BillOf, EarlyPhases
<1>10. CASE EndWeb
  BY <1>0, <1>10 DEF EndWeb, Goto, BillOf, EarlyPhases
<1>11. CASE FetchResolved
  <2>1. phase = "fetch" /\ phase' = "stage" /\ UNCHANGED <<config, attempt, reviews, left, at>>
    BY <1>11 DEF FetchResolved, search, Goto
  <2>2. PICK r \in Reads(item.url) :
          Pay(r.paid) /\ got' = IF r.how = "failed" THEN Nothing ELSE [page |-> item.url, how |-> r.how]
    BY <1>11 DEF FetchResolved
  <2>3. PICK n \in 0..1 : n = r.paid /\ (got'.how = "jsonld" => n = 0)
    BY <2>2, Readings DEF Nothing
  <2>4. /\ spent'.search = spent.search /\ spent'.extract = spent.extract + n
        /\ spent'.metered = spent.metered + n
    BY <2>2, <2>3, Paid DEF Typed
  <2>5. QED BY <1>0, <2>1, <2>3, <2>4 DEF BillOf, EarlyPhases
<1>12. CASE Stage
  <2>1. phase = "stage" /\ phase' = "copy" /\ UNCHANGED <<config, attempt, reviews>>
    BY <1>12 DEF Stage, Goto
  <2>2. PICK n \in 0..1 : Pay(n) /\ (got.how # "jsonld" => n = 0)
    BY <1>12, CompletionsBound DEF Stage
  <2>3. /\ spent'.search = spent.search /\ spent'.extract = spent.extract + n
        /\ spent'.metered = spent.metered + n
    BY <2>2, Paid DEF Typed
  <2>4. QED BY <1>0, <2>1, <2>2, <2>3 DEF BillOf, EarlyPhases
<1>13. CASE Select
  <2>1. phase = "uncertain" /\ phase' \in {"withheld", "stage"} /\ UNCHANGED <<config, attempt, reviews>>
    BY <1>13 DEF Select, Goto
  <2>2. CASE UNCHANGED spent /\ phase' = "withheld"
    BY <1>0, <2>1, <2>2 DEF BillOf, EarlyPhases
  <2>3. CASE \E c \in kept : \E r \in Reads(c.page) :
               Pay(r.paid) /\ (phase' = "withheld" \/ got'.how = r.how)
    <3>1. PICK c \in kept : \E r \in Reads(c.page) :
               Pay(r.paid) /\ (phase' = "withheld" \/ got'.how = r.how)
      BY <2>3
    <3>2. PICK n \in 0..1 : Pay(n) /\ (phase' = "withheld" \/ got'.how # "jsonld" \/ n = 0)
      BY <3>1, Readings
    <3>3. /\ spent'.search = spent.search /\ spent'.extract = spent.extract + n
          /\ spent'.metered = spent.metered + n
      BY <3>2, Paid DEF Typed
    <3>4. QED BY <1>0, <2>1, <3>2, <3>3 DEF BillOf, EarlyPhases
  <2>4. QED BY <1>13, <2>2, <2>3 DEF Select, Goto
<1>14. CASE Withhold
  <2>1. /\ phase = "withheld" /\ phase' = "review"
        /\ UNCHANGED <<config, spent, attempt, reviews>>
    BY <1>14 DEF Withhold, Goto
  <2>2. QED BY <1>0, <2>1 DEF BillOf, EarlyPhases
<1>15. CASE Copy
  <2>1. phase = "copy" /\ phase' = "review" /\ UNCHANGED <<config, spent, attempt, reviews>>
    BY <1>15 DEF Copy, Goto
  <2>2. QED BY <1>0, <2>1 DEF BillOf, EarlyPhases
<1>16. QED BY <1>1, <1>2, <1>3, <1>4, <1>5, <1>6, <1>7, <1>8, <1>9, <1>10, <1>11, <1>12, <1>13,
              <1>14, <1>15

\* What every reachable state has paid, phase by phase: the run's own steps are the
\* lemma above; a failed copy starts the item over, and the reviewer asks.
LEMMA BillInvariant == Spec => []Bill
<1> USE Bounds
<1>1. Init => Bill
  <2> SUFFICES ASSUME Init PROVE Bill
    OBVIOUS
  <2>1. /\ phase = "start" /\ spent.search = 0 /\ spent.extract = 0 /\ spent.metered = 0
        /\ attempt = 1 /\ reviews = 0 /\ left.extracts = WebExtracts
    BY DEF Init, FullBudget, Unpaid
  <2>2. PICK bs \in Nat, be \in Nat :
          /\ bs = (attempt - 1) * (WebSites * Queries)
          /\ be = (attempt - 1) * (WebExtracts + 2) + 2 * reviews
    BY <2>1
  <2>3. PICK k \in Nat : k = WebSites * Queries
    BY Products
  <2>4. BillOf(bs, be)
    BY <2>1, <2>3 DEF BillOf, EarlyPhases
  <2>5. QED BY <2>1, <2>2, <2>4 DEF Bill
<1>2. ASSUME Typed, Bill, [Next]_vars PROVE Bill'
  <2>0. PICK k \in Nat : k = WebSites * Queries
    BY Products
  <2>1. PICK bs, be \in Nat :
          /\ bs = (attempt - 1) * (WebSites * Queries)
          /\ be = (attempt - 1) * (WebExtracts + 2) + 2 * reviews
          /\ BillOf(bs, be)
    BY <1>2 DEF Bill
  <2>2. /\ spent.search \in Nat /\ spent.extract \in Nat /\ spent.metered \in Nat
        /\ attempt \in Nat \ {0} /\ reviews \in Nat
    BY <1>2 DEF Typed, IsBill
  <2>3. CASE \/ Start \/ Override \/ ChooseSearch \/ Suggest \/ EndShopify \/ SiteSearch \/ EndSite
             \/ WebSearch \/ WebPage \/ EndWeb \/ FetchResolved \/ Stage \/ Select \/ Withhold \/ Copy
    <3>1. /\ BillOf(bs, be)'
          /\ UNCHANGED <<config, attempt, reviews>>
          /\ phase \notin {"review", "failed"} /\ phase' # "failed"
          /\ spent'.metered - spent.metered = (spent'.search - spent.search) + (spent'.extract - spent.extract)
          /\ spent'.search = spent.search \/ phase = "web"
          /\ phase' \in {"site", "web"} => phase \in {"site", "web"} \/ config.method # "shopify_json"
      BY <1>2, <2>1, <2>3, BillOfStep
    <3>2. /\ bs = (attempt' - 1) * (WebSites * Queries)
          /\ be = (attempt' - 1) * (WebExtracts + 2) + 2 * reviews'
      BY <2>1, <3>1
    <3>3. \E cs, ce \in Nat :
            /\ cs = (attempt' - 1) * (WebSites * Queries)
            /\ ce = (attempt' - 1) * (WebExtracts + 2) + 2 * reviews'
            /\ BillOf(cs, ce)'
      BY <3>1, <3>2
    <3>4. /\ attempt' <= MaxAttempts + 1 /\ (phase' = "failed" <=> attempt' = MaxAttempts + 1)
          /\ phase' # "review" => reviews' = 0
      BY <1>2, <3>1 DEF Bill
    <3>5. IsBill(spent')
      BY <1>2, <2>3, TypedSearch, TypedRun DEF Typed
    <3>6. attempt' = 1 /\ reviews' = 0 => spent'.metered = spent'.search + spent'.extract
      <4>1. attempt = 1 /\ reviews = 0 => spent.metered = spent.search + spent.extract
        BY <1>2 DEF Bill
      <4>2. spent'.search \in Nat /\ spent'.extract \in Nat /\ spent'.metered \in Nat
        BY <3>5 DEF IsBill
      <4>3. QED BY <2>2, <3>1, <4>1, <4>2
    <3>7. config'.method = "shopify_json" => spent'.search = 0 /\ phase' \notin {"site", "web"}
      BY <1>2, <3>1 DEF Bill
    <3>8. QED BY <3>3, <3>4, <3>6, <3>7 DEF Bill
  <2>4. CASE CopyFails
    <3>1. /\ phase = "copy" /\ UNCHANGED <<config, reviews>> /\ attempt' = attempt + 1
          /\ Return /\ phase' = IF attempt = MaxAttempts THEN "failed" ELSE "start"
      BY <2>4 DEF CopyFails, Goto
    <3>2. spent'.search = spent.search /\ spent'.extract = spent.extract
      <4>1. PICK s, e, m \in Nat : spent = [search |-> s, extract |-> e, metered |-> m]
        BY <1>2 DEF Typed, IsBill
      <4>2. spent' = [search |-> s, extract |-> e, metered |-> 0]
        BY <2>4, <4>1 DEF CopyFails
      <4>3. QED BY <4>1, <4>2
    <3>3. reviews = 0 /\ attempt <= MaxAttempts
      BY <1>2, <2>2, <3>1 DEF Bill
    <3>4. PICK cs \in Nat, ce \in Nat : cs = bs + k /\ ce = be + WebExtracts + 2
      BY <2>0
    <3>5. /\ cs = (attempt' - 1) * (WebSites * Queries)
          /\ ce = (attempt' - 1) * (WebExtracts + 2) + 2 * reviews'
      <4>1. PICK a \in Nat : a = attempt - 1
        BY <2>2
      <4>2. (a + 1) * k = a * k + k
        BY <2>0, Products
      <4>3. PICK e \in Nat : e = WebExtracts + 2
        OBVIOUS
      <4>4. (a + 1) * e = a * e + e
        BY <4>3, Products
      <4>5. attempt' - 1 = a + 1
        BY <3>1, <4>1, <2>2
      <4>6. cs = (a + 1) * k
        BY <2>0, <2>1, <3>4, <4>1, <4>2
      <4>7. ce = (a + 1) * e
        BY <2>0, <2>1, <3>3, <3>4, <4>1, <4>3, <4>4
      <4>8. (attempt' - 1) * (WebSites * Queries) = (a + 1) * k
        BY <2>0, <4>5
      <4>9. (attempt' - 1) * (WebExtracts + 2) = (a + 1) * e
        BY <4>3, <4>5
      <4>10. reviews' = 0 /\ ce \in Nat
        BY <3>1, <3>3
      <4>11. ce + 2 * reviews' = ce
        BY <4>10
      <4>12. QED BY <4>6, <4>7, <4>8, <4>9, <4>11
    <3>6. spent.search <= cs /\ spent.extract <= ce
      BY <2>0, <2>1, <2>2, <3>4 DEF BillOf
    <3>7. left'.extracts = WebExtracts
      BY <3>1, Returned
    <3>8. BillOf(cs, ce)'
      BY <2>2, <3>1, <3>2, <3>6, <3>7, <2>0 DEF BillOf, EarlyPhases
    <3>9. \E ds, de \in Nat :
            /\ ds = (attempt' - 1) * (WebSites * Queries)
            /\ de = (attempt' - 1) * (WebExtracts + 2) + 2 * reviews'
            /\ BillOf(ds, de)'
      BY <3>5, <3>8
    <3>10. /\ attempt' <= MaxAttempts + 1 /\ (phase' = "failed" <=> attempt' = MaxAttempts + 1)
           /\ reviews' = 0 /\ attempt' # 1 /\ phase' \in {"start", "failed"}
      BY <2>2, <3>1, <3>3
    <3>11. QED BY <1>2, <3>1, <3>2, <3>9, <3>10 DEF Bill
  <2>5. CASE ResolveByHand \/ CopyOnly
    <3>1. /\ phase = "review" /\ phase' = "review" /\ UNCHANGED <<config, attempt>>
          /\ reviews' = reviews + 1
      BY <2>5 DEF ResolveByHand, CopyOnly, Reviewing
    <3>2. IsBill(spent') /\ spent'.search = spent.search /\ spent'.extract \in spent.extract..(spent.extract + 2)
      <4>1. CASE ResolveByHand
        BY <1>2, <4>1, ByHand
      <4>2. CASE CopyOnly
        BY <1>2, <2>2, <4>2 DEF CopyOnly, Typed
      <4>3. QED BY <2>5, <4>1, <4>2
    <3>3. PICK ce \in Nat : ce = be + 2
      OBVIOUS
    <3>4. ce = (attempt' - 1) * (WebExtracts + 2) + 2 * reviews'
      <4>1. PICK x : x = (attempt - 1) * (WebExtracts + 2)
        OBVIOUS
      <4>2. x \in Int
        BY <2>2, <4>1
      <4>3. be = x + 2 * reviews /\ ce = x + 2 * (reviews + 1)
        BY <2>1, <2>2, <3>3, <4>1, <4>2
      <4>4. QED BY <3>1, <4>1, <4>3
    <3>5. BillOf(bs, ce)'
      BY <2>0, <2>1, <2>2, <3>1, <3>2, <3>3 DEF BillOf, EarlyPhases, IsBill
    <3>6. \E ds, de \in Nat :
            /\ ds = (attempt' - 1) * (WebSites * Queries)
            /\ de = (attempt' - 1) * (WebExtracts + 2) + 2 * reviews'
            /\ BillOf(ds, de)'
      BY <2>1, <3>1, <3>4, <3>5
    <3>7. /\ attempt' <= MaxAttempts + 1 /\ (phase' = "failed" <=> attempt' = MaxAttempts + 1)
          /\ reviews' # 0
      BY <1>2, <2>2, <3>1 DEF Bill
    <3>8. QED BY <1>2, <3>1, <3>2, <3>6, <3>7 DEF Bill
  <2>6. CASE Retry
    <3>1. /\ phase' = "start" /\ spent' = Unpaid /\ attempt' = 1 /\ reviews' = 0 /\ Return
      BY <2>6 DEF Retry, Goto
    <3>2. /\ spent'.search = 0 /\ spent'.extract = 0 /\ spent'.metered = 0
          /\ left'.extracts = WebExtracts
      BY <3>1, Returned DEF Unpaid
    <3>3. PICK cs \in Nat, ce \in Nat : cs = 0 /\ ce = 0
      OBVIOUS
    <3>4. /\ cs = (attempt' - 1) * (WebSites * Queries)
          /\ ce = (attempt' - 1) * (WebExtracts + 2) + 2 * reviews'
      BY <2>0, <3>1, <3>3
    <3>5. BillOf(cs, ce)'
      BY <2>0, <3>1, <3>2, <3>3 DEF BillOf, EarlyPhases
    <3>6. \E ds, de \in Nat :
            /\ ds = (attempt' - 1) * (WebSites * Queries)
            /\ de = (attempt' - 1) * (WebExtracts + 2) + 2 * reviews'
            /\ BillOf(ds, de)'
      BY <3>4, <3>5
    <3>7. attempt' <= MaxAttempts + 1 /\ phase' # "failed" /\ attempt' # MaxAttempts + 1
      BY <3>1
    <3>8. QED BY <3>1, <3>2, <3>6, <3>7 DEF Bill
  <2>7. CASE UNCHANGED vars
    BY <1>2, <2>7 DEF vars, Bill, BillOf
  <2>8. QED BY <1>2, <2>3, <2>4, <2>5, <2>6, <2>7 DEF Next
<1>3. QED BY <1>1, <1>2, TypedInvariant, PTL DEF Spec

\* The paid calls of an item are bounded whatever the sites answer, none of them a
\* search in the mode `shopify_json', and a run that ends at its first attempt has
\* every one of them on record (_resolve_firecrawl, _complete_sparse_images).
THEOREM PaidCallsAreBounded == Spec => []PaidBounded
<1>1. ASSUME Typed, Bill PROVE PaidBounded
  <2>1. /\ spent.search \in Nat /\ spent.extract \in Nat
        /\ attempt \in Nat \ {0} /\ reviews \in Nat
    BY <1>1 DEF Typed, IsBill
  <2>2. PICK a \in Nat : a = attempt - 1
    BY <2>1
  <2>3. PICK k \in Nat, e \in Nat : k = WebSites * Queries /\ e = WebExtracts + 2
    BY Products, Bounds
  <2>4. (a + 1) * k = a * k + k /\ (a + 1) * e = a * e + e /\ a * k \in Nat /\ a * e \in Nat
    BY <2>3, Products
  <2>5. PICK r : r = Runs /\ r = IF attempt > MaxAttempts THEN MaxAttempts ELSE attempt
    BY DEF Runs
  <2>6. BillOf(a * k, a * e + 2 * reviews)
    BY <1>1, <2>2, <2>3 DEF Bill
  <2>7. /\ config.method = "shopify_json" => spent.search = 0
        /\ attempt = 1 /\ reviews = 0 => spent.metered = spent.search + spent.extract
    BY <1>1 DEF Bill
  <2>8. r * WebSites * Queries = r * k /\ r * (WebExtracts + 2) = r * e
    <3>1. r \in Nat
      BY <2>1, <2>5, Bounds
    <3>2. (r * WebSites) * Queries = r * (WebSites * Queries)
      BY <3>1, Bounds
    <3>3. QED BY <2>3, <3>2
  <2>9. CASE phase = "failed"
    <3>1. r = a
      BY <1>1, <2>1, <2>2, <2>5, <2>9, Bounds DEF Bill
    <3>2. spent.search <= r * k /\ spent.extract <= r * e + 2 * reviews
      BY <2>6, <2>9, <3>1 DEF BillOf, EarlyPhases
    <3>3. spent.search <= r * WebSites * Queries /\ spent.extract <= r * (WebExtracts + 2) + 2 * reviews
      BY <2>8, <3>2
    <3>4. QED BY <2>5, <2>7, <3>3 DEF PaidBounded
  <2>10. CASE phase # "failed"
    <3>1. r = a + 1
      BY <1>1, <2>1, <2>2, <2>5, <2>10, Bounds DEF Bill
    <3>2. spent.search <= r * k /\ spent.extract <= r * e + 2 * reviews
      <4>1. PICK x \in Nat, y \in Nat : x = a * k /\ y = a * e
        BY <2>4
      <4>2. spent.search <= x + k /\ spent.extract <= y + 2 * reviews + e
        BY <2>1, <2>3, <2>6, <4>1, Bounds DEF BillOf
      <4>3. r * k = x + k /\ r * e = y + e
        BY <2>4, <3>1, <4>1
      <4>4. QED BY <2>1, <4>2, <4>3
    <3>3. spent.search <= r * WebSites * Queries /\ spent.extract <= r * (WebExtracts + 2) + 2 * reviews
      BY <2>8, <3>2
    <3>4. QED BY <2>5, <2>7, <3>3 DEF PaidBounded
  <2>11. QED BY <2>9, <2>10
<1>2. QED BY <1>1, TypedInvariant, BillInvariant, PTL


-----------------------------------------------------------------------------
(* What is chosen without a human or a model *)

Automatic == {"shopify_json", "site_search", "firecrawl"}

\* A candidate carries the score of its search while that search runs, nothing is
\* chosen until it ends, and a choice is made of a page.
Scored ==
  /\ phase \in {"start", "override", "resolve", "uncertain", "withheld", "copy", "review", "failed"}
       => cands = {}
  /\ phase = "shopify" => \A c \in cands : c.score = ShopifyScore(c.page)
  /\ phase = "site" => \A c \in cands : c.score = SiteScore(c.page)
  /\ phase \in {"start", "override", "resolve", "shopify", "site", "web", "uncertain"}
       => item.method = ""

Verified == Scored /\ ResolvedIsVerified

\* Of the pages of Shopify at the best score, one of another color passes the gate
\* only when none of them bears the color of the product (_break_color_tie).
LEMMA ColorGate ==
  ASSUME Typed, \A c \in cands : c.score = ShopifyScore(c.page),
         NEW p \in Gate(cands), p # NoPage
  PROVE  /\ world[p].says # "title"
         /\ Sibling(p) =>
              \A c \in cands : world[c.page].says = world[p].says => ~world[c.page].bears
<1>1. PICK c \in cands : c.page = p /\ c.score >= Threshold /\ \A d \in cands : d.score <= c.score
  BY GateOpens DEF Typed
<1>2. p \in Pages /\ world[p].says \in {"barcode", "reference", "contained", "title"}
  BY <1>1 DEF Typed, AreCandidates, PageFacts
<1>3. c.score = ShopifyScore(p)
  BY <1>1
<1>4. world[p].says # "title"
  BY <1>1, <1>2, <1>3 DEF ShopifyScore, Threshold
<1>5. ASSUME Sibling(p), NEW d \in cands,
             world[d.page].says = world[p].says, world[d.page].bears
      PROVE  FALSE
  <2>1. d.score = c.score
    BY <1>1, <1>3, <1>5 DEF ShopifyScore
  <2>2. PICK B : B = {x.page : x \in Top(cands)}
    OBVIOUS
  <2>3. p \in B /\ d.page \in B
    BY <1>1, <2>1, <2>2 DEF Top
  <2>4. B \subseteq Pages
    BY <2>2 DEF Top, Typed, AreCandidates
  <2>5. d.page # p
    BY <1>5 DEF Sibling
  <2>6. Cardinality(B) # 1
    <3>1. IsFiniteSet(B)
      BY <2>4, Bounds, FS_Subset
    <3>2. SUFFICES ASSUME Cardinality(B) = 1 PROVE FALSE
      OBVIOUS
    <3>3. \E x : B = {x}
      BY <3>1, <3>2, FS_Singleton
    <3>4. QED BY <2>3, <2>5, <3>3
  <2>7. config.color
    BY <1>5 DEF Sibling
  <2>8. d.page \in {q \in B : world[q].bears} /\ p \notin {q \in B : world[q].bears}
    BY <1>5, <2>3 DEF Sibling
  <2>9. Gate(cands) = {q \in B : world[q].bears}
    <3>1. ~\A x \in cands : x.score < Threshold
      BY <1>1 DEF Threshold, Typed, AreCandidates
    <3>2. QED BY <2>2, <2>6, <2>7, <2>8, <3>1 DEF Gate
  <2>10. QED BY <2>8, <2>9
<1>6. QED BY <1>4, <1>5

\* A page that the site's own search or the paid one takes is verified by its score.
LEMMA TakenByScore ==
  ASSUME Typed, NEW p \in Pages, SiteScore(p) >= Threshold \/ WebScore(p) >= 90
  PROVE  world[p].says # "title" /\ ~(Sibling(p) /\ world[p].says # "barcode")
<1>1. world[p].says \in {"barcode", "reference", "contained", "title"}
  BY DEF Typed, PageFacts
<1>2. QED BY <1>1 DEF SiteScore, WebScore, Threshold


\* A choice stays verified while the row keeps it, or gives way to a human's or a
\* model's.
LEMMA ChoiceKept ==
  ASSUME ResolvedIsVerified, UNCHANGED <<world, config>>, cands' = cands \/ cands' = {},
         \/ item'.url = item.url /\ item'.method = item.method
         \/ item'.method \notin Automatic
  PROVE  ResolvedIsVerified'
BY DEF ResolvedIsVerified, Sibling, Automatic

\* A page that is of no other color and says who it is may be taken.
LEMMA ChoiceMade ==
  ASSUME UNCHANGED <<world, config>>, NEW p, item'.url = p, world[p].says # "title",
         ~(Sibling(p) /\ world[p].says # "barcode")
  PROVE  ResolvedIsVerified'
BY DEF ResolvedIsVerified, Sibling

\* The searches.
LEMMA VerifiedSearch ==
  ASSUME Typed, Verified,
         Suggest \/ EndShopify \/ SiteSearch \/ EndSite \/ WebSearch \/ WebPage \/ EndWeb
  PROVE  Verified'
<1>1. CASE Suggest
  <2>1. phase = "shopify" /\ UNCHANGED <<world, config>>
    BY <1>1, Suggested
  <2>2. item.method = "" /\ \A c \in cands : c.score = ShopifyScore(c.page)
    BY <2>1 DEF Verified, Scored
  <2>3. PICK read \in SUBSET Pages :
          cands' = cands \cup {Candidate(p, ShopifyScore(p)) : p \in read}
    BY <1>1, Suggested
  <2>4. \A c \in cands' : c.score = ShopifyScore(c.page)
    <3>1. ASSUME NEW p \in read, NEW c, c = Candidate(p, ShopifyScore(p))
          PROVE  c.score = ShopifyScore(c.page)
      <4>1. c.page = p /\ c.score = ShopifyScore(p)
        BY <3>1 DEF Candidate
      <4>2. QED BY <4>1
    <3>2. QED BY <2>2, <2>3, <3>1
  <2>5. \A c \in cands' : c.score = ShopifyScore(c.page)'
    BY <2>1, <2>4 DEF ShopifyScore
  <2>6. CASE UNCHANGED <<item, phase>>
    <3>1. Scored'
      BY <2>1, <2>2, <2>5, <2>6 DEF Scored
    <3>2. ResolvedIsVerified'
      BY <2>2, <2>6 DEF ResolvedIsVerified
    <3>3. QED BY <3>1, <3>2 DEF Verified
  <2>7. CASE \E p \in Pages : ShopifyScore(p) = 100 /\ Resolve(p, "shopify_json") /\ phase' = "fetch"
    <3>1. PICK p \in Pages : ShopifyScore(p) = 100 /\ Resolve(p, "shopify_json") /\ phase' = "fetch"
      BY <2>7
    <3>2. item'.url = p
      BY <3>1, Resolved DEF Typed
    <3>3. world[p].says = "barcode"
      BY <3>1 DEF ShopifyScore
    <3>4. ResolvedIsVerified'
      BY <2>1, <3>2, <3>3, ChoiceMade
    <3>5. QED BY <3>1, <3>4 DEF Verified, Scored
  <2>8. QED BY <1>1, <2>6, <2>7, Suggested
<1>2. CASE EndShopify
  <2>1. phase = "shopify" /\ UNCHANGED <<world, config>>
    BY <1>2, ShopifyEnded
  <2>2. item.method = "" /\ \A c \in cands : c.score = ShopifyScore(c.page)
    BY <2>1 DEF Verified, Scored
  <2>3. CASE \E p \in Pages : /\ p \in Gate(cands) /\ Resolve(p, "shopify_json")
                              /\ phase' = "fetch" /\ UNCHANGED <<kept, cands, at>>
    <3>1. PICK p \in Pages : /\ p \in Gate(cands) /\ Resolve(p, "shopify_json")
                             /\ phase' = "fetch" /\ UNCHANGED <<kept, cands, at>>
      BY <2>3
    <3>2. item'.url = p /\ item'.method = "shopify_json"
      BY <3>1, Resolved DEF Typed
    <3>3. /\ world[p].says # "title"
          /\ Sibling(p) =>
               \A c \in cands : world[c.page].says = world[p].says => ~world[c.page].bears
      BY <2>2, <3>1, ColorGate, Bounds
    <3>4. ResolvedIsVerified'
      BY <2>1, <3>1, <3>2, <3>3 DEF ResolvedIsVerified, Sibling
    <3>5. QED BY <3>1, <3>4 DEF Verified, Scored
  <2>4. CASE Fallback(cands) /\ UNCHANGED item /\ phase' \in {"site", "web", "uncertain"}
    <3>1. Scored'
      BY <2>2, <2>4 DEF Fallback, Scored
    <3>2. ResolvedIsVerified'
      BY <2>2, <2>4 DEF ResolvedIsVerified
    <3>3. QED BY <3>1, <3>2 DEF Verified
  <2>5. QED BY <1>2, <2>3, <2>4, ShopifyEnded
<1>3. CASE SiteSearch
  <2>1. phase = "site" /\ UNCHANGED <<world, config>>
    BY <1>3, SiteSearched
  <2>2. item.method = "" /\ \A c \in cands : c.score = SiteScore(c.page)
    BY <2>1 DEF Verified, Scored
  <2>3. PICK read \in SUBSET Pages :
          cands' = cands \cup {Candidate(p, SiteScore(p)) : p \in read}
    BY <1>3, SiteSearched
  <2>4. \A c \in cands' : c.score = SiteScore(c.page)
    <3>1. ASSUME NEW p \in read, NEW c, c = Candidate(p, SiteScore(p))
          PROVE  c.score = SiteScore(c.page)
      <4>1. c.page = p /\ c.score = SiteScore(p)
        BY <3>1 DEF Candidate
      <4>2. QED BY <4>1
    <3>2. QED BY <2>2, <2>3, <3>1
  <2>5. \A c \in cands' : c.score = SiteScore(c.page)'
    BY <2>1, <2>4 DEF SiteScore, Sibling
  <2>6. CASE UNCHANGED <<item, got, phase>>
    <3>1. Scored'
      BY <2>1, <2>2, <2>5, <2>6 DEF Scored
    <3>2. ResolvedIsVerified'
      BY <2>2, <2>6 DEF ResolvedIsVerified
    <3>3. QED BY <3>1, <3>2 DEF Verified
  <2>7. CASE \E p \in Pages : SiteScore(p) = 100 /\ TakeFound(p)
    <3>1. PICK p \in Pages : SiteScore(p) = 100 /\ TakeFound(p)
      BY <2>7
    <3>2. item'.url = p /\ phase' \in {"stage", "fetch"}
      BY <3>1, FoundTaken
    <3>3. world[p].says # "title" /\ ~(Sibling(p) /\ world[p].says # "barcode")
      BY <3>1, TakenByScore DEF Threshold
    <3>4. ResolvedIsVerified'
      BY <2>1, <3>2, <3>3, ChoiceMade
    <3>5. QED BY <3>2, <3>4 DEF Verified, Scored
  <2>8. QED BY <1>3, <2>6, <2>7, SiteSearched
<1>4. CASE EndSite
  <2>1. phase = "site" /\ UNCHANGED <<world, config>>
    BY <1>4 DEF EndSite
  <2>2. item.method = "" /\ \A c \in cands : c.score = SiteScore(c.page)
    BY <2>1 DEF Verified, Scored
  <2>3. CASE \E p \in Gate(cands) : p # NoPage /\ TakeFound(p)
    <3>1. PICK p \in Gate(cands) : p # NoPage /\ TakeFound(p)
      BY <2>3
    <3>2. PICK c \in cands : c.page = p /\ c.score >= Threshold
      BY <3>1, GateOpens DEF Typed
    <3>3. p \in Pages /\ SiteScore(p) >= Threshold
      BY <2>2, <3>2 DEF Typed, AreCandidates
    <3>4. item'.url = p /\ phase' \in {"stage", "fetch"}
      BY <3>1, <3>3, FoundTaken
    <3>5. world[p].says # "title" /\ ~(Sibling(p) /\ world[p].says # "barcode")
      BY <3>3, TakenByScore
    <3>6. ResolvedIsVerified'
      BY <2>1, <3>4, <3>5, ChoiceMade
    <3>7. QED BY <3>4, <3>6 DEF Verified, Scored
  <2>4. CASE Fallback(cands) /\ UNCHANGED item /\ phase' \in {"web", "uncertain"}
    <3>1. Scored'
      BY <2>2, <2>4 DEF Fallback, Scored
    <3>2. ResolvedIsVerified'
      BY <2>2, <2>4 DEF ResolvedIsVerified
    <3>3. QED BY <3>1, <3>2 DEF Verified
  <2>5. QED BY <1>4, <2>3, <2>4 DEF EndSite, Goto
<1>5. CASE WebSearch
  <2>1. phase = "web" /\ UNCHANGED <<world, config, phase, cands, item>>
    BY <1>5 DEF WebSearch
  <2>2. QED BY <2>1, ChoiceKept DEF Verified, Scored
<1>6. CASE WebPage
  <2>1. phase = "web" /\ item.method = "" /\ UNCHANGED <<world, config>>
    BY <1>6 DEF WebPage, Verified, Scored
  <2>2. CASE \E p \in Pages : WebScore(p) >= 90 /\ Resolve(p, "firecrawl") /\ Goto("stage")
    <3>1. PICK p \in Pages : WebScore(p) >= 90 /\ Resolve(p, "firecrawl") /\ Goto("stage")
      BY <2>2
    <3>2. item'.url = p /\ phase' = "stage"
      BY <3>1, Resolved DEF Typed, Goto
    <3>3. world[p].says # "title" /\ ~(Sibling(p) /\ world[p].says # "barcode")
      BY <3>1, TakenByScore
    <3>4. QED BY <2>1, <3>2, <3>3, ChoiceMade DEF Verified, Scored
  <2>3. CASE UNCHANGED <<item, phase>>
    BY <2>1, <2>3 DEF Verified, Scored, ResolvedIsVerified
  <2>4. QED BY <1>6, <2>2, <2>3 DEF WebPage, Typed
<1>7. CASE EndWeb
  <2>1. /\ phase = "web" /\ phase' = "uncertain" /\ cands' = {}
        /\ UNCHANGED <<world, config, item>>
    BY <1>7 DEF EndWeb, Fallback, Goto
  <2>2. QED BY <2>1, ChoiceKept DEF Verified, Scored
<1>8. QED BY <1>1, <1>2, <1>3, <1>4, <1>5, <1>6, <1>7

\* The rest of the run, and the reviewer.
LEMMA VerifiedRun ==
  ASSUME Typed, Verified,
         \/ Start \/ Override \/ ChooseSearch \/ FetchResolved \/ Stage \/ Select
         \/ Withhold \/ Copy \/ CopyFails \/ ResolveByHand \/ CopyOnly \/ Retry
  PROVE  Verified'
<1>1. CASE Start
  <2>1. /\ UNCHANGED <<world, config, cands>> /\ cands = {} /\ item.method = ""
        /\ item' = item \/ item' = [item EXCEPT !.method = "skipped"]
    BY <1>1 DEF Start, search, Verified, Scored
  <2>2. \/ phase' \in {"review", "override", "resolve"} /\ item' = item
        \/ phase' = "copy"
    BY <1>1 DEF Start, Goto
  <2>3. item' = item \/ item'.method = "skipped"
    <3>1. IsRow(item)
      BY DEF Typed
    <3>2. item' = [item EXCEPT !.method = "skipped"] => item'.method = "skipped"
      BY <3>1, MethodWritten
    <3>3. QED BY <2>1, <3>2
  <2>4. ResolvedIsVerified'
    BY <2>1, <2>3 DEF ResolvedIsVerified
  <2>5. QED BY <2>1, <2>2, <2>3, <2>4 DEF Verified, Scored
<1>2. CASE Override
  <2>1. UNCHANGED <<world, config, cands>> /\ cands = {} /\ item.method = ""
    BY <1>2 DEF Override, search, Verified, Scored
  <2>2. \/ phase' = "resolve" /\ item' = item
        \/ phase' = "stage" /\ Resolve(config.override, "manual")
    BY <1>2 DEF Override, Goto
  <2>3. config.override \in Pages \cup {NoPage}
    BY DEF Typed, Options
  <2>4. \/ phase' = "resolve" /\ item' = item
        \/ phase' = "stage" /\ item'.method = "manual"
    BY <2>2, <2>3, Resolved DEF Typed
  <2>5. ResolvedIsVerified'
    BY <2>1, <2>4 DEF ResolvedIsVerified
  <2>6. QED BY <2>1, <2>4, <2>5 DEF Verified, Scored
<1>3. CASE ChooseSearch
  <2>1. /\ UNCHANGED <<world, config, cands>> /\ cands = {} /\ item.method = ""
        /\ \/ phase' \in {"shopify", "web"} /\ item' = item
           \/ phase' = "copy" /\ item' = [item EXCEPT !.method = "skipped"]
    BY <1>3 DEF ChooseSearch, Goto, Verified, Scored
  <2>2. \/ phase' \in {"shopify", "web"} /\ item' = item
        \/ phase' = "copy" /\ item'.method = "skipped"
    <3>1. IsRow(item)
      BY DEF Typed
    <3>2. item' = [item EXCEPT !.method = "skipped"] => item'.method = "skipped"
      BY <3>1, MethodWritten
    <3>3. QED BY <2>1, <3>2
  <2>3. ResolvedIsVerified'
    BY <2>1, <2>2 DEF ResolvedIsVerified
  <2>4. QED BY <2>1, <2>2, <2>3 DEF Verified, Scored
<1>4. CASE FetchResolved
  <2>1. UNCHANGED <<world, config, cands, item>> /\ phase' = "stage"
    BY <1>4 DEF FetchResolved, search, Goto
  <2>2. QED BY <2>1, ChoiceKept DEF Verified, Scored
<1>5. CASE Stage
  <2>1. UNCHANGED <<world, config>> /\ cands' = {} /\ phase' = "copy"
    BY <1>5, Returned DEF Stage, Goto
  <2>2. item'.url = item.url /\ item'.method = item.method
    BY <1>5, StagedRow DEF Stage, Typed
  <2>3. QED BY <2>1, <2>2, ChoiceKept DEF Verified, Scored
<1>6. CASE Select
  <2>1. UNCHANGED <<world, config>> /\ cands' = {} /\ phase' \in {"withheld", "stage"}
    BY <1>6, Returned DEF Select, Goto
  <2>2. item' = item \/ \E c \in kept : Resolve(c.page, "llm")
    BY <1>6 DEF Select
  <2>3. item' = item \/ item'.method = "llm"
    BY <2>2, Resolved DEF Typed, AreCandidates
  <2>4. QED BY <2>1, <2>3, ChoiceKept DEF Verified, Scored, Automatic
<1>7. CASE Withhold
  <2>1. /\ UNCHANGED <<world, config, cands>> /\ cands = {} /\ phase' = "review"
        /\ item' = [item EXCEPT !.method = "needs_manual"]
    BY <1>7 DEF Withhold, search, Goto, Verified, Scored
  <2>2. item'.method = "needs_manual"
    BY <2>1, MethodWritten DEF Typed
  <2>3. QED BY <2>1, <2>2, ChoiceKept DEF Verified, Scored, Automatic
<1>8. CASE Copy
  <2>1. UNCHANGED <<world, config, cands>> /\ cands = {} /\ phase' = "review"
    BY <1>8 DEF Copy, search, Goto, Verified, Scored
  <2>2. item'.url = item.url /\ item'.method = item.method
    BY <1>8, CopiedRow DEF Copy, Typed
  <2>3. QED BY <2>1, <2>2, ChoiceKept DEF Verified, Scored
<1>9. CASE CopyFails
  <2>1. /\ UNCHANGED <<world, config>> /\ cands' = {} /\ item'.method = ""
        /\ phase' \in {"failed", "start"}
    BY <1>9, Returned, BareRow DEF CopyFails, Goto
  <2>2. QED BY <2>1, ChoiceKept DEF Verified, Scored, Automatic
<1>10. CASE ResolveByHand
  <2>1. UNCHANGED <<world, config, cands, phase>> /\ cands = {} /\ phase = "review"
    BY <1>10 DEF ResolveByHand, Reviewing, search, Verified, Scored
  <2>2. item' = item \/ item'.method = "manual"
    BY <1>10, ByHand DEF ByHandRow
  <2>3. QED BY <2>1, <2>2, ChoiceKept DEF Verified, Scored, Automatic
<1>11. CASE CopyOnly
  <2>1. UNCHANGED <<world, config, cands, phase>> /\ cands = {} /\ phase = "review"
    BY <1>11 DEF CopyOnly, Reviewing, search, Verified, Scored
  <2>2. item'.url = item.url /\ item'.method = item.method
    BY <1>11, CopiedRow DEF CopyOnly, Typed
  <2>3. QED BY <2>1, <2>2, ChoiceKept DEF Verified, Scored
<1>12. CASE Retry
  <2>1. UNCHANGED <<world, config>> /\ cands' = {} /\ item'.method = "" /\ phase' = "start"
    BY <1>12, Returned, BareRow DEF Retry, Goto
  <2>2. QED BY <2>1, ChoiceKept DEF Verified, Scored, Automatic
<1>13. QED BY <1>1, <1>2, <1>3, <1>4, <1>5, <1>6, <1>7, <1>8, <1>9, <1>10, <1>11, <1>12

\* A page that no human and no model chose carries the barcode or the reference of
\* the product; one found by its reference is of another color only when the search of
\* Shopify took it, and then no page read beside it that says as much of the product
\* bears the color (resolve_source_url, _break_color_tie).
THEOREM ChoiceIsVerified == Spec => []ResolvedIsVerified
<1>1. Init => Verified
  BY FreshRow DEF Init, Verified, Scored, ResolvedIsVerified
<1>2. ASSUME Typed, Verified, [Next]_vars PROVE Verified'
  <2>1. CASE Next
    BY <1>2, <2>1, VerifiedSearch, VerifiedRun DEF Next
  <2>2. CASE UNCHANGED vars
    <3>1. UNCHANGED <<world, config, cands, phase, item>>
      BY <2>2 DEF vars
    <3>2. ResolvedIsVerified'
      BY <1>2, <3>1, ChoiceKept DEF Verified
    <3>3. Scored'
      BY <1>2, <3>1 DEF Verified, Scored, ShopifyScore, SiteScore, Sibling
    <3>4. QED BY <3>2, <3>3 DEF Verified
  <2>3. QED BY <1>2, <2>1, <2>2
<1>3. Verified => ResolvedIsVerified
  BY DEF Verified
<1>4. QED BY <1>1, <1>2, <1>3, TypedInvariant, PTL DEF Spec


-----------------------------------------------------------------------------
(* One page for everything *)

\* What is on the row comes from the page it names, from the catalogue, or, in two
\* columns, from a page of before.
Kept ==
  /\ item.source \in {NoPage, item.url} /\ item.copy \in {NoPage, Catalogue, item.url}
  /\ item.html # item.copy => "html" \in behind /\ item.html = Earlier /\ item.copy = NoPage
  /\ item.price \in {NoPage, item.url, Earlier}
  /\ item.price = Earlier => "price" \in behind
  /\ ~config.images => item.source = NoPage
  /\ ~(config.copy /\ config.claude) => item.copy = NoPage /\ "html" \notin behind

\* Before the page is staged nothing but a page of before has written to the row, and the
\* page in hand is the one the row names; a review without a copy is a withheld one.
InHand ==
  /\ phase \notin {"copy", "review"} => item.source = NoPage /\ item.price \in {NoPage, Earlier}
  /\ phase # "review" => item.copy = NoPage
  /\ phase = "review" /\ item.html # item.copy => item.method = "needs_manual"
  /\ phase \in {"stage", "copy"} => got.page \in {NoPage, item.url}
  /\ phase \in {"start", "override", "resolve", "shopify", "site", "web", "fetch", "uncertain",
                "failed"} => got.page = NoPage

\* A page is taken while the row is bare.
LEMMA BareTaken ==
  ASSUME Typed, Kept, UNCHANGED <<config, behind>>, item.source = NoPage, item.copy = NoPage,
         item.price \in {NoPage, Earlier},
         NEW p \in Pages \cup {NoPage}, NEW m, Resolve(p, m)
  PROVE  /\ SameData(item', item) /\ item'.url = p
         /\ Kept'
BY Resolved DEF Typed, Kept, SameData

\* Only the method changes.
LEMMA MethodSet ==
  ASSUME Typed, UNCHANGED <<config, behind>>, NEW m, item' = item \/ item' = [item EXCEPT !.method = m]
  PROVE  /\ item'.url = item.url /\ SameData(item', item)
         /\ Kept => Kept'
<1>1. IsRow(item)
  BY DEF Typed
<1>2. item' = [item EXCEPT !.method = m] => item'.url = item.url /\ SameData(item', item)
  BY <1>1, MethodWritten
<1>3. item'.url = item.url /\ SameData(item', item)
  BY <1>2 DEF SameData
<1>4. QED BY <1>3 DEF Kept, SameData

\* The searches.
LEMMA OneSearch ==
  ASSUME Typed, Kept, InHand,
         Suggest \/ EndShopify \/ SiteSearch \/ EndSite \/ WebSearch \/ WebPage \/ EndWeb
  PROVE  Kept' /\ InHand'
<1>1. /\ phase \in {"shopify", "site", "web"} /\ UNCHANGED <<config, behind>>
  BY DEF Suggest, EndShopify, SiteSearch, EndSite, WebSearch, WebPage, EndWeb, again
<1>2. /\ item.source = NoPage /\ item.copy = NoPage /\ got.page = NoPage
      /\ item.price \in {NoPage, Earlier}
  BY <1>1 DEF InHand
<1>3. \/ /\ item' = item /\ got' = got
         /\ phase' \in {"shopify", "site", "web", "uncertain"}
      \/ \E p \in Pages, m \in Automatic :
           /\ Resolve(p, m) /\ phase' \in {"fetch", "stage"}
           /\ got' = got \/ got'.page = p
           /\ phase' = "fetch" => got' = got
  <2>1. CASE Suggest
    BY <1>1, <2>1, Suggested DEF Automatic
  <2>2. CASE EndShopify
    BY <2>2, ShopifyEnded DEF Automatic
  <2>3. ASSUME NEW p \in Pages, TakeFound(p)
        PROVE  /\ Resolve(p, "site_search") /\ phase' \in {"fetch", "stage"}
               /\ got' = got \/ got'.page = p
               /\ phase' = "fetch" => got' = got
    BY <2>3, FoundTaken DEF TakeFound
  <2>4. CASE SiteSearch
    BY <1>1, <2>3, <2>4, SiteSearched DEF Automatic
  <2>5. CASE EndSite
    <3>1. PICK p \in Gate(cands) :
            \/ p # NoPage /\ TakeFound(p)
            \/ UNCHANGED <<item, got>> /\ phase' \in {"web", "uncertain"}
      BY <2>5 DEF EndSite, Goto
    <3>2. p # NoPage => p \in Pages
      BY GateOpens DEF Typed, AreCandidates
    <3>3. QED BY <2>3, <3>1, <3>2 DEF Automatic
  <2>6. CASE WebSearch
    BY <1>1, <2>6 DEF WebSearch
  <2>7. CASE WebPage
    <3>1. PICK p \in todo : \E how :
            \/ Resolve(p, "firecrawl") /\ got' = [page |-> p, how |-> how] /\ phase' = "stage"
            \/ UNCHANGED <<item, got, phase>>
      BY <2>7 DEF WebPage, Goto
    <3>2. p \in Pages
      BY DEF Typed
    <3>3. \A how : [page |-> p, how |-> how].page = p
      OBVIOUS
    <3>4. QED BY <1>1, <3>1, <3>2, <3>3 DEF Automatic
  <2>8. CASE EndWeb
    BY <2>8 DEF EndWeb, Goto
  <2>9. QED BY <2>1, <2>2, <2>4, <2>5, <2>6, <2>7, <2>8
<1>4. CASE item' = item /\ got' = got /\ phase' \in {"shopify", "site", "web", "uncertain"}
  BY <1>1, <1>2, <1>4 DEF Kept, InHand
<1>5. CASE \E p \in Pages, m \in Automatic :
             /\ Resolve(p, m) /\ phase' \in {"fetch", "stage"}
             /\ got' = got \/ got'.page = p
             /\ phase' = "fetch" => got' = got
  BY <1>1, <1>2, <1>5, BareTaken DEF InHand, SameData
<1>6. QED BY <1>3, <1>4, <1>5

\* The rest of the run, and the reviewer.
LEMMA OneRun ==
  ASSUME Typed, Kept, InHand,
         \/ Start \/ Override \/ ChooseSearch \/ FetchResolved \/ Stage \/ Select
         \/ Withhold \/ Copy \/ CopyFails \/ ResolveByHand \/ CopyOnly \/ Retry
  PROVE  Kept' /\ InHand'
<1>1. CASE Start
  <2>1. /\ phase = "start" /\ UNCHANGED <<config, got, behind>>
        /\ item' = item \/ item' = [item EXCEPT !.method = "skipped"]
        /\ phase' \in {"review", "override", "resolve", "copy"}
        /\ phase' = "review" => ~config.copy
    BY <1>1 DEF Start, Goto, again
  <2>2. phase' = "review" => item.html = item.copy
    BY <2>1 DEF Kept
  <2>3. QED BY <2>1, <2>2, MethodSet DEF InHand, SameData
<1>2. CASE Override
  <2>1. phase = "override" /\ UNCHANGED <<config, behind>>
    BY <1>2 DEF Override, again
  <2>2. PICK r \in Reads(config.override) :
          \/ phase' = "resolve" /\ UNCHANGED <<item, got>>
          \/ /\ phase' = "stage" /\ Resolve(config.override, "manual")
             /\ got' = [page |-> config.override, how |-> r.how]
    BY <1>2 DEF Override, Goto
  <2>3. config.override \in Pages \cup {NoPage}
    BY DEF Typed, Options
  <2>4. CASE phase' = "resolve" /\ UNCHANGED <<item, got>>
    BY <2>1, <2>4 DEF Kept, InHand
  <2>5. CASE /\ phase' = "stage" /\ Resolve(config.override, "manual")
             /\ got' = [page |-> config.override, how |-> r.how]
    <3>1. got'.page = config.override
      BY <2>5
    <3>2. item.source = NoPage /\ item.copy = NoPage /\ item.price \in {NoPage, Earlier}
      BY <2>1 DEF InHand
    <3>3. QED BY <2>1, <2>3, <2>5, <3>1, <3>2, BareTaken DEF InHand, SameData
  <2>6. QED BY <2>2, <2>4, <2>5
<1>3. CASE ChooseSearch
  <2>1. /\ phase = "resolve" /\ UNCHANGED <<config, got, behind>>
        /\ item' = item \/ item' = [item EXCEPT !.method = "skipped"]
        /\ phase' \in {"copy", "web", "shopify"}
    BY <1>3 DEF ChooseSearch, Goto, again
  <2>2. QED BY <2>1, MethodSet DEF InHand, SameData
<1>4. CASE FetchResolved
  <2>1. phase = "fetch" /\ phase' = "stage" /\ UNCHANGED <<config, item, behind>>
    BY <1>4 DEF FetchResolved, Goto, again
  <2>2. got'.page \in {NoPage, item.url}
    <3>1. PICK r : got' = IF r.how = "failed" THEN Nothing ELSE [page |-> item.url, how |-> r.how]
      BY <1>4 DEF FetchResolved
    <3>2. QED BY <3>1 DEF Nothing
  <2>3. QED BY <2>1, <2>2 DEF Kept, InHand
<1>5. CASE Stage
  <2>1. /\ phase = "stage" /\ phase' = "copy" /\ UNCHANGED <<config, got, behind>>
        /\ \E unpriced \in BOOLEAN : item' = Staged(item, got.page, unpriced)
    BY <1>5 DEF Stage, Goto, again
  <2>2. /\ item'.url = item.url /\ item'.copy = item.copy /\ item'.html = item.html
        /\ item'.source = IF got.page # NoPage /\ config.images THEN got.page ELSE item.source
        /\ item'.price = item.price \/ (got.page # NoPage /\ item'.price = got.page)
    BY <2>1, StagedRow DEF Typed
  <2>3. item.url # Earlier
    BY Bounds DEF Typed, IsRow
  <2>4. QED BY <2>1, <2>2, <2>3 DEF Kept, InHand
<1>6. CASE Select
  <2>1. phase = "uncertain" /\ UNCHANGED <<config, behind>>
    BY <1>6 DEF Select, again
  <2>2. \/ phase' = "withheld" /\ UNCHANGED <<item, got>>
        \/ \E c \in kept : \E r \in Reads(c.page) :
             /\ phase' = "stage" /\ Resolve(c.page, "llm")
             /\ got' = [page |-> c.page, how |-> r.how]
    BY <1>6 DEF Select, Goto
  <2>3. CASE phase' = "withheld" /\ UNCHANGED <<item, got>>
    BY <2>1, <2>3 DEF Kept, InHand
  <2>4. CASE \E c \in kept : \E r \in Reads(c.page) :
               /\ phase' = "stage" /\ Resolve(c.page, "llm")
               /\ got' = [page |-> c.page, how |-> r.how]
    <3>1. PICK p \in Pages : /\ phase' = "stage" /\ Resolve(p, "llm")
                             /\ \E h : got' = [page |-> p, how |-> h]
      BY <2>4 DEF Typed, AreCandidates
    <3>2. got'.page = p
      BY <3>1
    <3>3. item.source = NoPage /\ item.copy = NoPage /\ item.price \in {NoPage, Earlier}
      BY <2>1 DEF InHand
    <3>4. QED BY <2>1, <3>1, <3>2, <3>3, BareTaken DEF InHand, SameData
  <2>5. QED BY <2>2, <2>3, <2>4
<1>7. CASE Withhold
  <2>1. /\ phase = "withheld" /\ phase' = "review" /\ UNCHANGED <<config, behind>>
        /\ item' = [item EXCEPT !.method = "needs_manual"]
    BY <1>7 DEF Withhold, Goto, again
  <2>2. item'.method = "needs_manual"
    BY <2>1, MethodWritten DEF Typed
  <2>3. QED BY <2>1, <2>2, MethodSet DEF InHand, SameData
<1>8. CASE Copy
  <2>1. /\ phase = "copy" /\ phase' = "review" /\ UNCHANGED <<config, behind>>
        /\ item' = Copied(item, got.page)
    BY <1>8 DEF Copy, Goto, again
  <2>2. /\ item'.url = item.url /\ item'.source = item.source /\ item'.price = item.price
        /\ item'.html = IF config.copy /\ config.claude THEN item'.copy ELSE item.html
        /\ item'.copy = IF config.copy /\ config.claude
                        THEN (IF got.page = NoPage THEN Catalogue ELSE got.page) ELSE item.copy
    BY <2>1, CopiedRow DEF Typed
  <2>3. QED BY <2>1, <2>2 DEF Kept, InHand
<1>9. CASE CopyFails
  <2>1. /\ UNCHANGED <<config, behind>> /\ item' = Bare(behind) /\ got' = Nothing
        /\ phase' \in {"failed", "start"}
    BY <1>9 DEF CopyFails, Goto, again
  <2>2. got'.page = NoPage
    BY <2>1 DEF Nothing
  <2>3. PICK r : r = Bare(behind) /\ r = item'
    BY <2>1
  <2>4. /\ r.method = "" /\ r.source = NoPage /\ r.copy = NoPage
        /\ r.html = IF "html" \in behind THEN Earlier ELSE NoPage
        /\ r.price = IF "price" \in behind THEN Earlier ELSE NoPage
    BY <2>3, BareRow
  <2>5. ~(config.copy /\ config.claude) => "html" \notin behind
    BY DEF Kept
  <2>6. QED BY <2>1, <2>2, <2>3, <2>4, <2>5, Bounds DEF Kept, InHand
<1>10. CASE ResolveByHand
  <2>1. UNCHANGED <<config, phase>> /\ phase = "review"
    BY <1>10 DEF ResolveByHand, Reviewing
  <2>2. CASE item' = item /\ behind' = behind
    BY <2>1, <2>2 DEF Kept, InHand
  <2>3. CASE \E p \in Pages, unpriced \in BOOLEAN : ByHandRow(p, unpriced)
    <3>1. PICK p \in Pages, unpriced \in BOOLEAN : ByHandRow(p, unpriced)
      BY <2>3
    <3>2. p # Earlier /\ p # NoPage
      BY Bounds
    <3>3. /\ item'.source \in {NoPage, item'.url} /\ item'.copy \in {NoPage, Catalogue, item'.url}
          /\ ~config.images => item'.source = NoPage
      BY <3>1 DEF ByHandRow, Kept
    <3>4. item'.price \in {NoPage, item'.url, Earlier} /\ (item'.price = Earlier => "price" \in behind')
      BY <3>1, <3>2 DEF ByHandRow
    <3>5. /\ item'.html = item'.copy
          /\ ~(config.copy /\ config.claude) => item'.copy = NoPage /\ "html" \notin behind'
      BY <3>1 DEF ByHandRow, Kept
    <3>6. QED BY <2>1, <3>3, <3>4, <3>5 DEF Kept, InHand
  <2>4. QED BY <1>10, <2>2, <2>3, ByHand
<1>11. CASE CopyOnly
  <2>1. /\ UNCHANGED <<config, phase, behind>> /\ phase = "review" /\ item' = Copied(item, NoPage)
        /\ config.copy /\ config.claude
    BY <1>11 DEF CopyOnly, Reviewing, again
  <2>2. /\ item'.url = item.url /\ item'.source = item.source /\ item'.price = item.price
        /\ item'.copy = Catalogue /\ item'.html = Catalogue
    BY <2>1, CopiedRow DEF Typed
  <2>3. QED BY <2>1, <2>2 DEF Kept, InHand
<1>12. CASE Retry
  <2>1. /\ UNCHANGED config /\ got' = Nothing /\ phase' = "start"
        /\ behind' = {c \in {"html", "price"} : item[c] # NoPage}
    BY <1>12 DEF Retry, Goto
  <2>2. PICK B : B = behind'
    OBVIOUS
  <2>3. PICK r : r = Bare(B) /\ r = item'
    BY <1>12, <2>2 DEF Retry
  <2>4. /\ r.method = "" /\ r.source = NoPage /\ r.copy = NoPage
        /\ r.html = IF "html" \in B THEN Earlier ELSE NoPage
        /\ r.price = IF "price" \in B THEN Earlier ELSE NoPage
    BY <2>3, BareRow
  <2>5. ~(config.copy /\ config.claude) => "html" \notin B
    <3>1. ~(config.copy /\ config.claude) => item.html = NoPage
      BY DEF Kept
    <3>2. item["html"] = item.html
      OBVIOUS
    <3>3. QED BY <2>1, <2>2, <3>1, <3>2
  <2>6. got'.page = NoPage
    BY <2>1 DEF Nothing
  <2>7. QED BY <2>1, <2>2, <2>3, <2>4, <2>5, <2>6, Bounds DEF Kept, InHand
<1>13. QED BY <1>1, <1>2, <1>3, <1>4, <1>5, <1>6, <1>7, <1>8, <1>9, <1>10, <1>11, <1>12

\* Images and text come from the page the row names, or the text from the catalogue; an
\* earlier page has at most its rich text beside a copy withheld, and its price
\* (_stage_source, _stage_copy, stage_from_url, _reset_item_for_retry).
THEOREM DataFromOnePage == Spec => []OneSource
<1>1. Init => Kept /\ InHand
  <2>1. Nothing.page = NoPage
    BY DEF Nothing
  <2>2. Init => got.page = NoPage
    BY <2>1 DEF Init
  <2>3. QED BY <2>2, FreshRow, Bounds DEF Init, Kept, InHand
<1>2. ASSUME Typed, Kept, InHand, [Next]_vars PROVE Kept' /\ InHand'
  <2>1. CASE Next
    BY <1>2, <2>1, OneSearch, OneRun DEF Next
  <2>2. CASE UNCHANGED vars
    BY <1>2, <2>2 DEF vars, Kept, InHand
  <2>3. QED BY <1>2, <2>1, <2>2
<1>3. Kept /\ InHand => OneSource
  BY DEF Kept, InHand, OneSource
<1>4. QED BY <1>1, <1>2, <1>3, TypedInvariant, PTL DEF Spec

=============================================================================
