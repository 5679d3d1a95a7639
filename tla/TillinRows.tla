------------------------------ MODULE TillinRows ------------------------------
(***************************************************************************)
(* The rows sent to Tillin for the sheets of an import and the conventions *)
(* of its profile (imports/tillin_csv.py), with the template of a title    *)
(* (enrich/title.py), which the enrichment renders too.  The same rows are *)
(* the preview, the file and the transfer.  Money is in cents, a size in   *)
(* half sizes, a text is a sequence of words or of parts.                  *)
(***************************************************************************)
EXTENDS Ordering, Integers, Functions

CONSTANTS
  Vocabulary,       \* words of titles, references, colors and sizes
  Purchases,        \* wholesale prices, and by how much another one is dearer
  ShoeSizes,
  Titles,           \* what a title is made of
  Templates,
  Extracted,        \* sheets
  Configs           \* profiles

VARIABLE rendered   \* what the rendering is asked for

Blank == "none"
Sep == "-"

-----------------------------------------------------------------------------
(* Prices *)

\* Fault: the rounding of the step adds a step to a price that is on it.
RoundUpNext(raw, step) == IF step > 0 THEN (raw \div step + 1) * step ELSE raw

\* ROUND_CEILING to a multiple of the step; no step, no rounding.
RoundUp(raw, step) == IF step > 0 THEN ((raw + step - 1) \div step) * step ELSE raw

\* compute_price, the coefficient in hundredths: both sides kept in hundredths
\* of a cent. -1 is no price.
Unpriced == -1
ComputePrice(v, config) ==
  IF config.price_mode = "retail_as_is"
  THEN IF v.retail = Unpriced THEN Unpriced ELSE v.retail * 100
  ELSE IF config.coefficient = 0 \/ v.wholesale = Unpriced THEN Unpriced
       ELSE RoundUp(v.wholesale * config.coefficient, config.step * 100)

-----------------------------------------------------------------------------
(* Sizes, in halves; a size that is no number is a word *)

Offset(mode, gender) ==
  CASE mode = "uk_to_eu" -> IF gender = "femme" THEN 66 ELSE 68
    [] OTHER -> IF gender = "femme" THEN 62 ELSE 66

\* convert_shoe_size: 1 to 16 are shoe sizes, anything else stands.
ConvertShoeSize(size, mode, gender) ==
  IF mode = Blank \/ ~size.number \/ size.halves \notin 2..32 THEN size
  ELSE [number |-> TRUE, halves |-> size.halves + Offset(mode, gender)]

NoSize == [number |-> FALSE, halves |-> 0]

-----------------------------------------------------------------------------
(* Identity of a row *)

\* Two texts with a hyphen between; what is empty leaves none.
Hyphenated(x, y) == IF x = <<>> THEN y ELSE IF y = <<>> THEN x ELSE x \o <<Sep>> \o y

\* compute_barcode: the code of the document, or reference, color, size and, if
\* the profile renders it, the third dimension.
ComputeBarcode(ref, v, config) ==
  LET known == Hyphenated(Hyphenated(ref, v.color), v.size) IN
  IF config.barcode_mode = "ean" THEN v.ean
  ELSE IF "extra" \in Range(config.axes) THEN Hyphenated(known, v.extra) ELSE known

\* option1..option3, in the order of the axes of the profile.
Options(v, config) ==
  [i \in DOMAIN config.axes |-> IF config.axes[i] = "color" THEN v.color
                                ELSE IF config.axes[i] = "size" THEN v.size ELSE v.extra]

-----------------------------------------------------------------------------
(* Titles: a template is a sequence of tokens and of separators *)

Values(title, brand, season) == [title |-> title, brand |-> brand, season |-> season]

\* _drop_brand_if_already_in_title
DropBrand(values) ==
  IF values.brand # <<>> /\ values.title # <<>>
     /\ \E i \in 1..(Len(values.title) - Len(values.brand) + 1) :
          SubSeq(values.title, i, i + Len(values.brand) - 1) = values.brand
  THEN [values EXCEPT !.brand = <<>>] ELSE values

\* One separator of a run, none in front.
Separated(words) == {i \in DOMAIN words : words[i] = Sep => i > 1 /\ words[i - 1] # Sep}

\* Fault: the separator left by an empty last value stays.
TidyFront(words) == At(words, Separated(words))

\* The three substitutions of render_title_template: of a run of separators
\* inside the title one is left, none at its ends; of separators alone, one.
Tidy(words) ==
  IF Range(words) = {Sep} THEN <<Sep>>
  ELSE At(words, {i \in Separated(words) :
                    words[i] = Sep => \E j \in DOMAIN words : j > i /\ words[j] # Sep})

RenderTitle(values, template) ==
  LET v == DropBrand(values) IN
  Tidy(Laid([i \in DOMAIN template |->
               IF template[i] = Sep THEN <<Sep>> ELSE v[template[i]]]))

-----------------------------------------------------------------------------
(* render_rows *)

OrElse(x, y) == IF x # <<>> THEN x ELSE y

Title(p, config) ==
  IF config.template = <<>> THEN OrElse(p.title, p.ref)
  ELSE OrElse(RenderTitle(Values(p.title,
                                 IF config.brand # <<>> THEN config.brand ELSE p.brand,
                                 OrElse(config.season, p.season)), config.template), p.ref)

Row(p, v, config) ==
  LET gender == IF p.gender # Blank THEN p.gender ELSE config.default_gender
      size   == ConvertShoeSize(v.shoe, config.conversion, gender)
      w      == IF size = v.shoe THEN v ELSE [v EXCEPT !.size = <<size.halves>>]
  IN  [title |-> Title(p, config), reference |-> p.ref, options |-> Options(w, config),
       barcode |-> ComputeBarcode(p.ref, w, config), price |-> ComputePrice(v, config),
       weight |-> IF p.weight # 0 THEN p.weight ELSE config.category_weight,
       quantity |-> IF v.quantity = -1 THEN 1 ELSE v.quantity,
       gender |-> gender, season |-> OrElse(config.season, p.season)]

\* What the rendering warns of, for the sheet and for its variants.
Warnings(p, config) ==
  (IF p.variants = <<>> THEN {"no_variant"} ELSE {})
  \cup (IF "extra" \notin Range(config.axes)
           /\ \E i \in DOMAIN p.variants : p.variants[i].extra # <<>>
        THEN {"extra_lost"} ELSE {})
  \cup UNION {LET r == Row(p, p.variants[i], config) IN
              (IF r.price = Unpriced THEN {"no_price"} ELSE {})
              \cup (IF r.barcode = <<>> THEN {"no_barcode"} ELSE {}) : i \in DOMAIN p.variants}

RenderRows(products, config) ==
  IF config.price_mode = "coefficient" /\ config.coefficient = 0
  THEN [refused |-> TRUE, rows |-> <<>>, warnings |-> {}]
  ELSE [refused |-> FALSE,
        rows |-> Laid([k \in DOMAIN products |->
                   [i \in DOMAIN products[k].variants |->
                      Row(products[k], products[k].variants[i], config)]]),
        warnings |-> UNION {Warnings(products[k], config) : k \in DOMAIN products}]

-----------------------------------------------------------------------------
ASSUME RowsAssumption ==
  /\ Purchases \subseteq [wholesale : Nat, more : Nat]
  /\ ShoeSizes \subseteq [number : BOOLEAN, halves : Nat]
  /\ Titles \subseteq [title : Seq(Vocabulary), brand : Seq(Vocabulary), season : Seq(Vocabulary)]
  /\ Templates \subseteq Seq({"title", "brand", "season", Sep})
  /\ \A p \in Extracted :
       /\ p.ref \in Seq(Vocabulary) /\ p.variants \in Seq(Range(p.variants))
       /\ \A v \in Range(p.variants) : {v.color, v.size, v.extra} \subseteq Seq(Vocabulary)
  /\ Configs \subseteq
       [price_mode : {"retail_as_is", "coefficient"}, coefficient : Nat, step : Nat,
        barcode_mode : {"ean", "constructed"}, axes : Seq({"color", "size", "extra"}),
        conversion : {"uk_to_eu", "us_to_eu", Blank}, default_gender : {"femme", "homme", Blank},
        template : Seq({"title", "brand", "season", Sep}), brand : Seq(Vocabulary),
        season : Seq(Vocabulary), category_weight : Nat]

RowsInit == rendered = [asked |-> "nothing"]

\* compute_price, of a purchase and of a dearer one
AskPrice(p, c) == rendered' = [asked |-> "price", purchase |-> p, config |-> c]

\* convert_shoe_size, of two sizes of a sheet
AskSizes(a, b, mode, gender) ==
  rendered' = [asked |-> "sizes", one |-> a, other |-> b, mode |-> mode, gender |-> gender]

\* render_title_template
AskTitle(values, template) ==
  rendered' = [asked |-> "title", values |-> values, template |-> template]

\* render_rows, of one sheet: a sheet is rendered without the others.
AskRows(p, c) == rendered' = [asked |-> "rows", product |-> p, config |-> c]

RowsNext ==
  /\ rendered.asked = "nothing"
  /\ \/ \E p \in Purchases, c \in Configs : AskPrice(p, c)
     \/ \E a, b \in ShoeSizes, m \in {"uk_to_eu", "us_to_eu", Blank}, g \in {"femme", "homme"} :
          AskSizes(a, b, m, g)
     \/ \E v \in Titles, t \in Templates : AskTitle(v, t)
     \/ \E p \in Extracted, c \in Configs : AskRows(p, c)

RowsSpec == RowsInit /\ [][RowsNext]_rendered

-----------------------------------------------------------------------------
(* Properties *)

\* The price of a coefficient is the first multiple of the step that is not
\* below the product, and a dearer purchase is never sold for less.
PriceIsCeiling(wholesale, more, config) ==
  LET price(w) == ComputePrice([wholesale |-> w, retail |-> Unpriced], config)
      raw == wholesale * config.coefficient
      step == config.step * 100
  IN  config.price_mode = "coefficient" /\ config.coefficient > 0 =>
        /\ price(wholesale) >= raw
        /\ step > 0 => price(wholesale) % step = 0 /\ price(wholesale) < raw + step
        /\ step = 0 => price(wholesale) = raw
        /\ price(wholesale) <= price(wholesale + more)

\* A converted size is out of the range of what is converted: what the render
\* converts, a second render (or a file already in EU) leaves alone, and two
\* sizes that differ stay apart within one chart.
ConversionIsOnce(a, b, mode, gender) ==
  LET c(x) == ConvertShoeSize(x, mode, gender) IN
  /\ c(c(a)) = c(a)
  /\ a # b /\ a.halves \in 2..32 /\ b.halves \in 2..32 => c(a) # c(b)

\* A rendered title has no separator at its ends nor two in a row, and says the
\* brand once (unless the title or the template says it twice, or the season says it).
TitleIsTidy(values, template) ==
  LET t == RenderTitle(values, template) n == Len(t) IN
  /\ n > 1 => t[1] # Sep /\ t[n] # Sep
  /\ \A i \in 1..(n - 1) : t[i] # Sep \/ t[i + 1] # Sep
  /\ /\ values.title # <<>> /\ Len(values.brand) = 1
     /\ values.brand[1] \notin {Sep} \cup Range(values.season)
     /\ Cardinality({i \in DOMAIN template : template[i] = "title"}) = 1
     => LET said(s) == Cardinality({i \in DOMAIN s : s[i] = values.brand[1]}) IN
        \/ said(t) <= said(values.title)
        \/ said(t) <= Cardinality({i \in DOMAIN template : template[i] = "brand"})

\* What the profile renders of a variant.
PartsShown(v, config) ==
  IF "extra" \in Range(config.axes) THEN <<v.color, v.size, v.extra>> ELSE <<v.color, v.size>>

\* One row per variant, in order, and nothing lost without a warning; the
\* constructed barcodes of a sheet whose variants fill the same parts, none of
\* them with the joining hyphen, tell the variants apart as their axes do.
RowsKeepVariants(p, config) ==
  LET r == RenderRows(<<p>>, config)
      vs == p.variants
      parts(v) == PartsShown(v, config)
  IN  ~r.refused =>
        /\ Len(r.rows) = Len(vs)
        /\ r.rows = <<>> => "no_variant" \in r.warnings
        /\ \A i \in DOMAIN vs : /\ r.rows[i].barcode = <<>> => "no_barcode" \in r.warnings
                                /\ r.rows[i].price = Unpriced => "no_price" \in r.warnings
        /\ config.barcode_mode = "constructed" /\ config.conversion = Blank =>
             \A i, j \in DOMAIN vs :
               /\ r.rows[i].barcode = r.rows[j].barcode
               /\ \A k \in DOMAIN parts(vs[i]) :
                    /\ (parts(vs[i])[k] = <<>>) <=> (parts(vs[j])[k] = <<>>)
                    /\ Sep \notin Range(parts(vs[i])[k]) \cup Range(parts(vs[j])[k])
               => parts(vs[i]) = parts(vs[j])

\* The order of the axes shown never changes a barcode (compute_barcode: the
\* stable link of the products after the transfer).
BarcodeIgnoresOrder(p, config) ==
  \A axes \in [DOMAIN config.axes -> Range(config.axes)] :
    Range(axes) = Range(config.axes) =>
      \A i \in DOMAIN p.variants :
        ComputeBarcode(p.ref, p.variants[i], config)
          = ComputeBarcode(p.ref, p.variants[i], [config EXCEPT !.axes = axes])

\* A row is sold at the ceiling of its rule, keeps one identity whatever the
\* order of its options, is sized once and titled without loose separators.
RowsAreSound ==
  /\ rendered.asked = "price" => LET p == rendered.purchase IN
       PriceIsCeiling(p.wholesale, p.more, rendered.config)
  /\ rendered.asked = "sizes" =>
       ConversionIsOnce(rendered.one, rendered.other, rendered.mode, rendered.gender)
  /\ rendered.asked = "title" => TitleIsTidy(rendered.values, rendered.template)
  /\ rendered.asked = "rows" => /\ RowsKeepVariants(rendered.product, rendered.config)
                                /\ BarcodeIgnoresOrder(rendered.product, rendered.config)

=============================================================================
