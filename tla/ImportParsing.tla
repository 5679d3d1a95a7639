---------------------------- MODULE ImportParsing ----------------------------
(***************************************************************************)
(* From the files of a purchase order to the sheets put up for review:     *)
(* what the model is shown of the files, how its answer is turned into     *)
(* products, checked against the source, mapped to the boutique's          *)
(* categories and split by color (imports/extract.py, imports/split.py,    *)
(* jobs/import_runner.py).  The job that runs this and what becomes of     *)
(* the sheets is ImportTransfer.  A cell or a value is a member of a small *)
(* set, normalised: reading it is the matter of PrintedNumber.             *)
(***************************************************************************)
EXTENDS PrintedNumber, Ordering

CONSTANTS
  PrintedPrices,             \* as a document or a page prints them
  Payloads,                  \* barcodes without their check digit
  Grams,                     \* numbers printed as weights
  Documents, Lots,           \* the files of an import
  RawVariants, Confidences,  \* what the model answers of a variant, and how sure it is
  ValidCodes,                \* codes whose check digit is right
  Trees, Labels,             \* categories of the boutique, and what a supplier calls one
  PrintedColors,
  Letters, Products, Orders, \* products, and lists of them, that the files say
  Profiles,                  \* how a profile has products split
  Selections,                \* what an import has kept of its files
  Existing,                  \* references in Tillin
  AccountProfiles, Suppliers, Typed   \* profiles, suppliers, instructions

VARIABLE parsed   \* what the parsing is asked for

NoValue == "none"
Prefix(s, n) == SubSeq(s, 1, IF n < Len(s) THEN n ELSE Len(s))

-----------------------------------------------------------------------------
(* The files *)

MaxTableRows == 3   \* MAX_TABLE_ROWS is 2000

\* A document: its kind and, of its sheets one after the other, the rows; a row
\* is the set of its cells.
Tabular(docs) == {i \in DOMAIN docs : docs[i].kind = "tabular"}

\* _serialize_tables: the rows the model is shown.
Serialized(doc) == Prefix(doc.rows, MaxTableRows)
Truncated(doc) == Len(doc.rows) > MaxTableRows

\* The cells a value is looked for in: those of every row.
CellsOf(docs) == UNION {UNION Range(docs[i].rows) : i \in Tabular(docs)}

\* stored_import_files: the list, or the one file of the old shape.
StoredFiles(selection) ==
  IF selection.listed THEN selection.files
  ELSE IF selection.file_name # "" \/ selection.file_path # ""
       THEN <<[file_name |-> selection.file_name, file_path |-> selection.file_path]>>
       ELSE <<>>

\* No file, or one whose path was not kept.
Fileless(selection) ==
  LET stored == StoredFiles(selection) IN
  stored = <<>> \/ \E i \in DOMAIN stored : stored[i].file_path = ""

\* How the call of the model ends.
Stops == {"unreachable", "error", "refusal", "max_tokens", "end_turn"}

\* The call: a refusal or an unreadable answer fails the import, and an answer
\* cut at the limit of tokens is kept when it can still be read.
Outcome(stop, readable) ==
  CASE stop \in {"unreachable", "error", "refusal"} -> "failed"
    [] ~readable -> "failed"
    [] stop = "max_tokens" -> "warned"
    [] OTHER -> "read"

-----------------------------------------------------------------------------
(* The answer, one variant at a time *)

Prices == {"wholesale", "retail"}
Checked == {"ean"} \cup Prices
Fields == Checked \cup {"discount", "quantity"}

\* _kept_confidence: only where there is a value.
Kept(conf, value) == [f \in Fields |-> IF value[f] = NoValue THEN NoValue ELSE conf[f]]

\* _to_variant: a quantity, a price or a discount that cannot be read is taken
\* out; the confidence of the latter two says so.
ToVariant(raw, conf) ==
  LET value == [f \in Fields |-> IF raw[f] = "illegible" THEN NoValue ELSE raw[f]]
  IN  [value |-> value,
       conf |-> [f \in Fields |-> IF raw[f] = "illegible" /\ f # "quantity" THEN "zero"
                                  ELSE Kept(conf, value)[f]]]

TakeOut(v, F) == [value |-> [f \in Fields |-> IF f \in F THEN NoValue ELSE v.value[f]],
                 conf |-> [f \in Fields |-> IF f \in F THEN "zero" ELSE v.conf[f]]]
Confirm(v, F) == [v EXCEPT !.conf = [f \in Fields |-> IF f \in F THEN "one" ELSE v.conf[f]]]

\* Present fields of F that are, and are not, in the cells.
Found(v, F, cells) == {f \in F : v.value[f] # NoValue /\ v.value[f] \in cells}
Absent(v, F, cells) == {f \in F : v.value[f] # NoValue /\ v.value[f] \notin cells}

\* _cross_check_tabular and _cross_check_pdf: the check of a lone file.
CrossCheckOne(doc, v, valid) ==
  IF doc.kind = "tabular"
  THEN TakeOut(Confirm(v, Found(v, Checked, CellsOf(<<doc>>))), Absent(v, Checked, CellsOf(<<doc>>)))
  ELSE TakeOut(v, Absent(v, {"ean"}, valid))

\* Fault: a lot with a PDF keeps the prices that are nowhere in its tables.
CrossCheckLax(docs, v, valid) ==
  LET cells == CellsOf(docs) pdf == \E i \in DOMAIN docs : docs[i].kind = "pdf" IN
  TakeOut(Confirm(v, Found(v, Checked, cells)),
         Absent(v, {"ean"}, cells \cup (IF pdf THEN valid ELSE {}))
         \cup (IF pdf THEN {} ELSE Absent(v, Prices, cells)))

\* _cross_check_multi: all the tables together; a code none of them has passes
\* if the lot has a PDF and its check digit is right, and the prices are not
\* looked for in a lot of PDFs.
CrossCheck(docs, v, valid) ==
  LET cells  == CellsOf(docs)
      pdf    == \E i \in DOMAIN docs : docs[i].kind = "pdf"
      prices == IF Tabular(docs) = {} THEN {} ELSE Prices
  IN  TakeOut(Confirm(v, Found(v, {"ean"} \cup prices, cells)),
             Absent(v, {"ean"}, cells \cup (IF pdf THEN valid ELSE {}))
             \cup Absent(v, prices, cells))

\* The end of __call__: which check applies.
Check(docs, v, valid) ==
  IF Len(docs) = 1 THEN CrossCheckOne(docs[1], v, valid) ELSE CrossCheck(docs, v, valid)

-----------------------------------------------------------------------------
(* Categories *)

\* path_of: a category and those above it up to a root, at most seven of them (a
\* loop of parents ends there); 0 above a root and above a parent the tree does not have.
Above(tree, c) == IF c # 0 /\ tree[c].parent \in DOMAIN tree THEN tree[c].parent ELSE 0
Ancestry(tree, c) ==
  LET up(d) == Above(tree, d)
      third == up(up(c))
      fifth == up(up(third))
  IN  <<c, up(c), third, up(third), fifth, up(fifth), up(up(fifth))>>
PathOf(tree, c) ==
  LET line == Ancestry(tree, c) known == Cardinality({i \in 1..7 : line[i] # 0}) IN
  [i \in 1..known |-> tree[line[known + 1 - i]].title]

\* _known_category_paths: every visible category; a hidden one is only passed.
KnownPaths(tree) == {PathOf(tree, c) : c \in {d \in DOMAIN tree : tree[d].visible}}

\* _canonicalize_categories: without a tree the supplier's label stands; with
\* one, a label that is not a leaf of it is dropped.
Canonical(paths, label) ==
  IF paths = {} \/ label = NoValue THEN label
  ELSE IF \E p \in paths : Last(p) = label THEN label ELSE NoValue

-----------------------------------------------------------------------------
(* Colors. A color is a sequence of words, a word a sequence of letters; a    *)
(* token of a printed color is a record.                                      *)

\* _split_color_code: the codes before and after the name, as long as a token
\* that is no code is there to be the name; the code kept is the last one, or
\* the first one when none follows the name.
SplitColorCode(tokens) ==
  LET names == {i \in DOMAIN tokens : ~tokens[i].code} IN
  IF names = {} THEN [name |-> tokens, code |-> NoValue]
  ELSE [name |-> SubSeq(tokens, Min(names), Max(names)),
        code |-> IF Max(names) < Len(tokens) THEN Last(tokens).text
                 ELSE IF Min(names) > 1 THEN tokens[1].text ELSE NoValue]

\* _clean_color
Clean(color, joiner) ==
  Laid([i \in DOMAIN color |-> IF i = 1 THEN color[1] ELSE joiner \o color[i]])

\* _initial_suffixes: the shortest prefixes that tell the colors apart.
InitialSuffixes(colors) ==
  LET cut(n)  == [c \in colors |-> Prefix(Clean(c, <<>>), n)]
      longest == Max({Len(Clean(c, <<>>)) : c \in colors})
      apart   == {n \in 1..longest : Cardinality({cut(n)[c] : c \in colors})
                                       = Cardinality(colors)}
  IN  cut(IF apart = {} THEN longest ELSE Min(apart))

\* Variants: [color, code]; the empty sequence is no color, and a color of nothing
\* but marks is one word without letters.
ColorsOf(variants) == {variants[i].color : i \in DOMAIN variants}
InColor(variants, c) == {i \in DOMAIN variants : variants[i].color = c}
Colorless == <<>>

\* The suffix of a color: the supplier's code, upper-cased, is a word as well.
Suffix(mode, sep, variants, color) ==
  LET coded == {i \in InColor(variants, color) : variants[i].code # <<>>} IN
  IF mode = "none" \/ color = Colorless THEN <<>>
  ELSE IF mode = "initial" THEN InitialSuffixes(ColorsOf(variants) \ {Colorless})[color]
  ELSE IF mode = "code" /\ coded # {} THEN variants[Min(coded)].code
  ELSE Clean(color, sep)

\* split_products_by_color for one product: a sheet per color in the order the
\* colors appear, the variants of each in their order.
Split(product, mode, sep) ==
  LET vs == product.variants
      first(c) == Min(InColor(vs, c))
      order == InOrder(ColorsOf(vs), {p \in ColorsOf(vs) \X ColorsOf(vs) : first(p[1]) < first(p[2])})
      sheet(c) == LET s == Suffix(mode, sep, vs, c) IN
                  [ref |-> IF s = <<>> THEN product.ref ELSE product.ref \o sep \o s,
                   variants |-> At(vs, InColor(vs, c))]
  IN  IF Cardinality(ColorsOf(vs) \ {Colorless}) <= 1 THEN <<product>>
      ELSE [i \in DOMAIN order |-> sheet(order[i])]

-----------------------------------------------------------------------------
(* The profile and the staging *)

\* _resolve_profile: the one chosen at upload and no other, else the first of
\* the account whose supplier text is part of the document's, or contains it.
ResolveProfile(chosen, account, profiles, supplier) ==
  LET mine == {p \in profiles : p.account = account}
      hits == {p \in mine : /\ p.match # {} /\ supplier # {}
                            /\ p.match \subseteq supplier \/ supplier \subseteq p.match}
  IN  IF chosen # 0 THEN {p \in mine : p.id = chosen}
      ELSE {p \in hits : \A q \in hits : p.id <= q.id}

\* _process: the instructions of a profile chosen at upload, then those typed
\* for this import.
PromptParts(chosen, account, profiles, typed) ==
  LET own == {p \in ResolveProfile(chosen, account, profiles, {}) :
                chosen # 0 /\ p.instructions # ""}
  IN  (IF own = {} THEN <<>> ELSE <<(CHOOSE p \in own : TRUE).instructions>>)
      \o (IF typed = "" THEN <<>> ELSE <<typed>>)

\* replace_existing_reference_warning
ReplaceWarning(warnings, exists) ==
  (warnings \ {"existing"}) \cup (IF exists THEN {"existing"} ELSE {})

\* The sheets a document becomes: the products, split where the profile says so.
Sheets(products, profile) ==
  Laid([i \in DOMAIN products |->
    IF profile.split THEN Split(products[i], profile.mode, profile.sep) ELSE <<products[i]>>])

\* The rest of _process: what is staged, and the credits it costs.
StageSheets(sheets, warned, existing) ==
  [status  |-> "completed",
   items   |-> [i \in DOMAIN sheets |->
                  [sheet |-> sheets[i],
                   warnings |-> ReplaceWarning({}, sheets[i].ref \in existing)]],
   credits |-> Len(sheets),
   warned  |-> warned]

\* The variants of all sheets.
AllVariants(sheets) == Laid([i \in DOMAIN sheets |-> sheets[i].variants])

\* run_import_job: no file to read, a failed call or an unreadable answer, and nothing of
\* the import is kept.
Process(selection, stop, readable, products, profile, existing) ==
  IF Fileless(selection) \/ Outcome(stop, readable) = "failed"
  THEN [status |-> "failed", items |-> <<>>, credits |-> 0, warned |-> FALSE]
  ELSE StageSheets(Sheets(products, profile), Outcome(stop, readable) = "warned", existing)

-----------------------------------------------------------------------------
Parts == [ref : Seq(Letters), variants : Seq([color : Seq(Seq(Letters)), code : Seq(Letters)])]

ASSUME ImportAssumption ==
  /\ \A p \in PrintedPrices : PrintedForm(p)
  /\ Payloads \subseteq Seq(0..9) /\ \A p \in Payloads : Len(p) \in {7, 11, 12, 13}
  /\ Grams \subseteq Nat
  /\ \A d \in Documents : d.kind \in {"tabular", "pdf"} /\ d.rows \in Seq(Range(d.rows))
  /\ Lots \subseteq Seq(Documents) \ {<<>>}
  /\ \A c \in Confidences : c \notin {"zero", "one"}   \* the marks of a check; a model sure by itself is not one
  /\ \A t \in Trees : 0 \notin DOMAIN t
  /\ PrintedColors \subseteq Seq(UNION {Range(c) : c \in PrintedColors}) \ {<<>>}
  /\ \A c \in PrintedColors : \A t \in Range(c) : t.code \in BOOLEAN /\ t.text # NoValue
  /\ Products \subseteq Parts /\ Orders \subseteq Seq(Parts)
  /\ Profiles \subseteq [split : BOOLEAN, mode : {"color", "initial", "code", "none"},
                         sep : Seq(Letters)]
  /\ \A p \in AccountProfiles : p.id \in Nat \ {0}

\* Profiles as rows: an id is given once.
Rows(profiles) == \A p, q \in profiles : p.id = q.id => p = q

ParsedInit == parsed = [asked |-> "nothing"]

\* A printed price and a weight, each by both readers; a barcode by both checks.
ReadPrice(p) == parsed' = [asked |-> "price", price |-> p]
ReadWeight(n, unit) == parsed' = [asked |-> "weight", number |-> n, unit |-> unit]
ReadCode(payload) == parsed' = [asked |-> "code", payload |-> payload]

\* One variant of an answer, every field of which the model is as sure of.
CheckAnswer(docs, raw, c) ==
  parsed' = [asked |-> "answer", docs |-> docs, raw |-> raw, conf |-> [f \in Fields |-> c]]

ShowTable(doc) == doc.kind = "tabular" /\ parsed' = [asked |-> "table", doc |-> doc]

PlaceCategory(tree, label) == parsed' = [asked |-> "category", tree |-> tree, label |-> label]

ReadColor(tokens) == parsed' = [asked |-> "color", tokens |-> tokens]

SplitProduct(product, profile) ==
  parsed' = [asked |-> "split", product |-> product, profile |-> profile]

StageImport(selection, stop, readable, products, profile, existing) ==
  parsed' = [asked |-> "import", selection |-> selection, stop |-> stop, readable |-> readable,
             products |-> products, profile |-> profile, existing |-> existing]

AttachProfile(chosen, account, profiles, supplier, typed) ==
  parsed' = [asked |-> "profile", chosen |-> chosen, account |-> account,
             profiles |-> profiles, supplier |-> supplier, typed |-> typed]

ParsedNext ==
  /\ parsed.asked = "nothing"
  /\ \/ \E p \in PrintedPrices : ReadPrice(p)
     \/ \E n \in Grams, u \in WeightUnits : ReadWeight(n, u)
     \/ \E p \in Payloads : ReadCode(p)
     \/ \E docs \in Lots, raw \in RawVariants, c \in Confidences : CheckAnswer(docs, raw, c)
     \/ \E d \in Documents : ShowTable(d)
     \/ \E t \in Trees, label \in Labels : PlaceCategory(t, label)
     \/ \E tokens \in PrintedColors : ReadColor(tokens)
     \/ \E p \in Products, f \in Profiles : SplitProduct(p, f)
     \/ \E s \in Selections, stop \in Stops, readable \in BOOLEAN, ps \in Orders, f \in Profiles,
          e \in SUBSET Existing : StageImport(s, stop, readable, ps, f, e)
     \/ \E ps \in SUBSET AccountProfiles : Rows(ps) /\
          \E chosen \in {p.id : p \in AccountProfiles} \cup {0},
             account \in {p.account : p \in AccountProfiles}, s \in Suppliers, t \in Typed :
            AttachProfile(chosen, account, ps, s, t)

ParsedSpec == ParsedInit /\ [][ParsedNext]_parsed

-----------------------------------------------------------------------------
(* Properties *)

\* A lot of one file is checked as the file alone would be (extract.py:660: two
\* branches, three functions, one rule).
LotOfOneAgrees(doc, v, valid) == CrossCheck(<<doc>>, v, valid) = CrossCheckOne(doc, v, valid)

\* Nothing the model made up survives: a code kept is in a table of the lot or,
\* when the lot has a PDF, has its check digit; a price kept is in a table as
\* soon as the lot has one; full confidence means found; and what was taken out
\* or could not be read is at zero or nowhere, never trusted.
NothingInvented(docs, raw, conf, valid) ==
  LET v     == Check(docs, ToVariant(raw, conf), valid)
      cells == CellsOf(docs)
  IN  /\ v.value["ean"] # NoValue =>
           \/ v.value["ean"] \in cells
           \/ v.value["ean"] \in valid /\ \E i \in DOMAIN docs : docs[i].kind = "pdf"
      /\ Tabular(docs) # {} => \A f \in Prices : v.value[f] \in cells \cup {NoValue}
      /\ \A f \in Checked : v.conf[f] = "one" => v.value[f] \in cells
      /\ \A f \in Fields : v.value[f] = NoValue => v.conf[f] \in {NoValue, "zero"}

\* A file more never costs a code, nor a price when a table was there already.
MoreFilesKeepMore(docs, doc, v, valid) ==
  LET one == Check(docs, v, valid) two == Check(Append(docs, doc), v, valid) IN
  \A f \in Checked : one.value[f] # NoValue /\ (f = "ean" \/ Tabular(docs) # {})
    => two.value[f] = one.value[f]

\* A row the model was not shown is announced, and no row is hidden from the
\* check that was shown to the model.
TruncationAnnounced(doc) ==
  /\ Serialized(doc) # doc.rows <=> Truncated(doc)
  /\ doc.kind = "tabular" => UNION Range(Serialized(doc)) \subseteq CellsOf(<<doc>>)

\* With a tree, no import carries a category the boutique does not show.
CategoryIsVisible(tree, label) ==
  KnownPaths(tree) # {} =>
    Canonical(KnownPaths(tree), label) \in
      {NoValue} \cup {tree[c].title : c \in {d \in DOMAIN tree : tree[d].visible}}

\* A color keeps a name, and loses no token but codes around it.
ColorKeepsItsName(tokens) ==
  LET r == SplitColorCode(tokens) IN
  /\ r.name # <<>>
  /\ (\E i \in DOMAIN tokens : ~tokens[i].code) => ~r.name[1].code /\ ~Last(r.name).code
  /\ Len(r.name) < Len(tokens) => r.code # NoValue

\* Different colors clean to different texts, and none to nothing.
CleanApart(colors, joiner) ==
  /\ \A a, b \in colors : Clean(a, joiner) = Clean(b, joiner) => a = b
  /\ \A a \in colors : Clean(a, joiner) # <<>>

\* Splitting loses no variant, mixes no colors, and gives every sheet its own
\* reference except where the profile asks for none, two colors clean to the
\* same text or to nothing, or a code is shared (import_profiles.py:85: `for Tillin
\* uniqueness').
SplitIsPartition(product, mode, sep) ==
  LET sheets == Split(product, mode, sep)
      colors == ColorsOf(product.variants) \ {Colorless}
      sets   == [i \in DOMAIN sheets |-> ColorsOf(sheets[i].variants)]
      all    == AllVariants(sheets)
  IN  /\ \A c \in colors \cup {Colorless} :
           At(all, InColor(all, c)) = At(product.variants, InColor(product.variants, c))
      /\ Len(sheets) > 1 => \A i \in DOMAIN sheets : Cardinality(sets[i]) = 1
      /\ (\/ mode = "color" /\ CleanApart(colors, sep)
          \/ mode = "initial" /\ CleanApart(colors, <<>>))
           => \A i, j \in DOMAIN sheets : sheets[i].ref = sheets[j].ref => i = j

\* The credits of an import are its sheets after the split, a failed one has
\* and costs none, and a sheet warns exactly of the reference it has, not of the
\* one its product had.
PaidFor(s, products, existing) ==
  /\ s.credits = Len(s.items)
  /\ s.status = "failed" => s.items = <<>>
  /\ s.status = "completed" =>
       AllVariants([i \in DOMAIN s.items |-> s.items[i].sheet]) # <<>>
       <=> \E i \in DOMAIN products : products[i].variants # <<>>
  /\ \A i \in DOMAIN s.items :
       (s.items[i].sheet.ref \in existing) <=> ("existing" \in s.items[i].warnings)

StagedIsPaid(selection, stop, readable, products, profile, existing) ==
  PaidFor(Process(selection, stop, readable, products, profile, existing), products, existing)

\* A profile of another account decides nothing of an import, neither its sheets
\* nor its instructions, and none attached after the call can have been in it.
ProfileIsOwn(chosen, account, profiles, supplier, typed) ==
  LET r == ResolveProfile(chosen, account, profiles, supplier) IN
  /\ Cardinality(r) <= 1
  /\ \A p \in r : p.account = account /\ (chosen # 0 => p.id = chosen)
  /\ Range(PromptParts(chosen, account, profiles, typed)) \subseteq
       {typed} \cup {p.instructions : p \in {q \in r : chosen # 0}}

\* A printed price, a weight and a barcode say the same to every reader of the
\* program (extract.py and enrich/price.py, weights.py), and no digit printed
\* is dropped by the import.
NumbersReadAlike ==
  /\ parsed.asked = "price" => PriceReadersAgree(parsed.price) /\ NoDigitLost(parsed.price)
  /\ parsed.asked = "weight" => WeightReadersAgree(parsed.number, parsed.unit)
  /\ parsed.asked = "code" => BarcodeChecked(parsed.payload)

\* What the model made up does not reach the review, whichever way the files
\* came, and what it left out is announced.
ExtractionIsChecked ==
  /\ parsed.asked = "answer" =>
       LET docs == parsed.docs v == ToVariant(parsed.raw, parsed.conf) IN
       /\ NothingInvented(docs, parsed.raw, parsed.conf, ValidCodes)
       /\ \A i \in DOMAIN docs : LotOfOneAgrees(docs[i], v, ValidCodes)
       /\ \A d \in Documents : MoreFilesKeepMore(docs, d, v, ValidCodes)
  /\ parsed.asked = "table" => TruncationAnnounced(parsed.doc)
  /\ parsed.asked = "category" => CategoryIsVisible(parsed.tree, parsed.label)

\* A product split by color is all there, once, each sheet under its own
\* reference when the profile gives it one, and the sheets are what is paid.
SheetsAreWhole ==
  /\ parsed.asked = "color" => ColorKeepsItsName(parsed.tokens)
  /\ parsed.asked = "split" =>
       SplitIsPartition(parsed.product, parsed.profile.mode, parsed.profile.sep)
  /\ parsed.asked = "import" =>
       StagedIsPaid(parsed.selection, parsed.stop, parsed.readable, parsed.products,
                    parsed.profile, parsed.existing)
  /\ parsed.asked = "profile" =>
       ProfileIsOwn(parsed.chosen, parsed.account, parsed.profiles, parsed.supplier, parsed.typed)

\* What an import stages is what its documents say: the numbers as every reader of the
\* program reads them, nothing invented and nothing dropped unsaid, and the sheets that
\* are paid for whole.
ImportIsSound == NumbersReadAlike /\ ExtractionIsChecked /\ SheetsAreWhole

=============================================================================
