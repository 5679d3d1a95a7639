----------------------------- MODULE MCOperators -----------------------------
(***************************************************************************)
(* What an import computes, tried on bounded inputs: a state is one case   *)
(* taken from the sets below.  The studio, the gallery of an item and the  *)
(* reports of a month step beside it, a behaviour being about one of them. *)
(***************************************************************************)
EXTENDS ImportParsing, ItemGallery, StudioGeneration, UsageReports, TillinRows

VARIABLE about

vars == <<about, parsed, itemVars, studio, reportsVars, rendered>>

Init == about = None /\ ParsedInit /\ ItemInit /\ StudioInit /\ ReportsInit /\ RowsInit

UpTo(S, n) == UNION {[1..k -> S] : k \in 0..n}

-----------------------------------------------------------------------------
(* Numbers *)

DigitGroups == [sep : Seps, digits : 1..3]
SomePrices == [lead : 1..5, groups : UpTo(DigitGroups, 3)]
SomePayloads ==
  {[i \in 1..n |-> CASE i = p -> a [] i = 3 -> b [] OTHER -> 0] :
     n \in {7, 11, 12, 13}, p \in {1, 2, 4, 7}, a \in {1, 5, 9}, b \in {0, 4}}
SomeGrams == 1..40

-----------------------------------------------------------------------------
(* The extraction of an import *)

Tables == {[kind |-> "tabular", rows |-> r] : r \in UpTo({{"e1"}, {"p1", "p2"}}, 2)}
Pdf == [kind |-> "pdf", rows |-> <<>>]
SomeDocuments ==
  Tables \cup {Pdf} \cup {[kind |-> "tabular", rows |-> r] : r \in [1..4 -> {{}, {"e1"}}]}
SomeLots == UpTo(Tables \cup {Pdf}, 2) \ {<<>>}
SomeVariants ==
  [ean : {NoValue, "e1", "e2"}, wholesale : {NoValue, "p1", "p3", "illegible"},
   retail : {NoValue, "p2", "illegible"}, discount : {NoValue, "illegible"},
   quantity : {NoValue, "illegible"}]

SomeTrees == [1..3 -> [parent : 0..4, title : {"a", "b"}, visible : BOOLEAN]]
SomeColors == UpTo([text : {"t", "u"}, code : BOOLEAN], 4) \ {<<>>}

SheetColors == {<<>>, <<<<"b", "l">>>>, <<<<"b", "l", "a">>>>, <<<<"b">>, <<"l">>>>}
Variants == [color : SheetColors, code : {<<>>, <<"x">>, <<"b", "l">>}]
Marked == [color |-> <<<<>>>>, code |-> <<>>]
Blue == [color |-> <<<<"b", "l">>>>, code |-> <<>>]
Black == [color |-> <<<<"b">>, <<"l">>>>, code |-> <<"x">>]
SomeProducts == {[ref |-> <<"r">>, variants |-> vs] :
                   vs \in UpTo(Variants, 3) \cup UpTo({Marked, Blue, Black}, 3)}
SomeProfiles ==
  [split : BOOLEAN, mode : {"color", "initial", "code", "none"}, sep : {<<>>, <<"-">>}]
SomeOrders ==
  UpTo({[ref |-> r, variants |-> vs] :
          r \in {<<"r">>, <<"r", "-", "b">>}, vs \in {<<>>, <<Blue>>, <<Blue, Black>>}}, 2)
SomeSelections ==
  [listed : {TRUE}, file_name : {""}, file_path : {""},
   files : {<<>>, <<[file_name |-> "f", file_path |-> "f"]>>, <<[file_name |-> "f", file_path |-> ""]>>}]
  \cup [listed : {FALSE}, files : {<<>>}, file_name : {"", "f"}, file_path : {"", "f"}]
InTillin == {<<"r">>}

Texts == SUBSET {"x", "y"}
SomeAccountProfiles ==
  {[id |-> i, account |-> a, match |-> m, instructions |-> IF i = 1 THEN "one" ELSE "two"] :
     i \in 1..2, a \in 1..2, m \in Texts}

ParseImport ==
  /\ about = None
  /\ about' = "import" /\ UNCHANGED <<itemVars, studio, reportsVars, rendered>>
  /\ ParsedNext

-----------------------------------------------------------------------------
(* The rows of an import *)

RowWords == {"r", "t", "u", "B", "s", "a", "b", "c", "e", Sep}
SomePurchases == [wholesale : 0..60, more : 0..3]
SomeSizes == [number : {TRUE}, halves : {1, 2, 15, 16, 17, 32, 33, 84}] \cup {NoSize}
SomeTitles == {Values(t, b, s) : t \in {<<>>, <<"t">>, <<"B", "t">>, <<"u">>},
                                 b \in {<<>>, <<"B">>}, s \in {<<>>, <<"s">>}}
SomeTemplates == UpTo({"title", "brand", "season", "-"}, 5)

AxisParts == {<<>>, <<"a">>, <<"a", "-", "b">>, <<"b">>}
RowVariants ==
  [color : AxisParts, size : AxisParts, extra : {<<>>, <<"c">>}, ean : {<<>>, <<"e">>},
   shoe : {NoSize}, wholesale : {Unpriced, 10}, retail : {Unpriced}, quantity : {-1}]
SomeExtracted ==
  {[ref |-> <<"r">>, title |-> <<"t">>, brand |-> <<>>, season |-> <<>>,
    gender |-> Blank, weight |-> 0, variants |-> vs] :
     vs \in UpTo(RowVariants, 1) \cup {<<v, [v EXCEPT !.color = c, !.size = z]>> :
                                         v \in RowVariants, c, z \in AxisParts}}
SomeConfigs ==
  [price_mode : {"retail_as_is", "coefficient"}, coefficient : {0, 233}, step : {0, 7},
   barcode_mode : {"ean", "constructed"}, template : {<<>>}, brand : {<<>>}, season : {<<>>},
   axes : {<<"color", "size">>, <<"size", "color", "extra">>}, conversion : {Blank},
   default_gender : {Blank}, category_weight : {0}]

RenderRow ==
  /\ about = None
  /\ about' = "rows" /\ UNCHANGED <<parsed, itemVars, studio, reportsVars>>
  /\ RowsNext

-----------------------------------------------------------------------------
(* The studio *)

StudioWords == {"p", "i", "j", "30cm", "dress", "FF0000", "FFFFFF"}
ModelWishes ==
  [prompt : {Unset, "p"}, gender : {Unset, "auto", "female"},
   framing : {Unset, "full_body", "cropped_head"}, scene : {Unset, "lifestyle"},
   pose : {Unset, "face", "profile_left", "three_quarter_right"},
   instructions : {Unset, "", "i"}, dimensions : {Unset, "30cm"},
   photoroomPose : {Unset}, scenePreset : {Unset}]
ModelDefaults ==
  [engine : {"fashn"}, gender : {"auto", "male"}, framing : Framings, scene : Scenes,
   pose : {Unset, "back"}, instructions : {Unset, "j"}, scenePreset : {Unset, "beach"}]
FlatLays ==
  [garment : {Unset, "", "dress"}, color : {Unset, "FF0000"}, prompt : {Unset, "p"},
   background : {"FFFFFF"}, views : 0..4]

AskStudio ==
  /\ about = None
  /\ about' = "studio" /\ UNCHANGED <<parsed, itemVars, reportsVars, rendered>>
  /\ StudioNext

-----------------------------------------------------------------------------
(* The gallery of an item *)

PageGalleries == {<<>>, <<"a">>, <<"a", "b">>, <<"b", "c">>}

EditGallery ==
  /\ about \in {None, "gallery"}
  /\ about' = "gallery" /\ UNCHANGED <<parsed, studio, reportsVars, rendered>>
  /\ ItemNext

-----------------------------------------------------------------------------
(* The reports of a month *)

MonthDays == 1..2
Keys == [provider : {"claude", "openai", "photoroom"}, model : {"m1", "m2"},
         metric : {"input_tokens", "images"}]
\* Several events of one key need several ids; the quantity goes with the day.
EventOf(k, job, day) ==
  [id |-> <<k, job, day>>, account |-> 1, provider |-> k.provider, model |-> k.model, metric |-> k.metric,
   job |-> job, day |-> day, quantity |-> IF day = 1 THEN 1 ELSE 7]
MonthEvents == {EventOf(k, j, d) : k \in {k \in Keys : k.provider = "openai" => k.model = "m1"},
                                   j \in 0..1, d \in MonthDays}
               \cup {[EventOf(k, 0, d) EXCEPT !.account = a] :
                       k \in {k \in Keys : k.provider = "claude"}, <<a, d>> \in {<<1, 0>>, <<2, 1>>}}
\* The price of a unit: the same for all, one model without; for one account none, or of
\* one metric only.
PricedKeys == {Key(e) : e \in MonthEvents}
MonthGrids == {[k \in PricedKeys |-> 5], [k \in PricedKeys |-> IF k.model = "m1" THEN NoPrice ELSE 13]}
MonthExceptions == {[k \in PricedKeys |-> NoPrice],
                    [k \in PricedKeys |-> IF k.metric = "images" THEN 25 ELSE NoPrice]}
Months == {{-1, 0}, MonthDays}

MonthMovements ==
  [id : 1..2, kind : {"consumption", "grant"}, action : {"image_process", "old", None},
   quantity : {1}, credits : {-2}, day : MonthDays]
MonthJobs == [id : 1..2, type : {"enrichment", "import"}, status : {"pending", "completed"}, created : 0..1]
MonthItems == [id : 1..2, job : 1..2, type : {"enrichment", "import"},
               status : {"failed", "applied", "ready_for_review"}, method : {None, "llm"}, recent : {TRUE}]
SheetMinutes == [import |-> 2, enrichment |-> 3]

\* The reports read three parts of the month that have nothing in common.
Report ==
  /\ UNCHANGED <<parsed, itemVars, studio, rendered>>
  /\ \/ /\ about = None /\ about' = "month"
        /\ \E g \in Grids, own \in Exceptions, k \in Rates : Reprice(g, own, k)
     \/ about = "month" /\ about' = about /\ \E e \in Events : Meter(e)
     \/ about \in {None, "credits"} /\ about' = "credits" /\ \E x \in Movements : Book(x)
     \/ /\ about \in {None, "feed"} /\ about' = "feed"
        /\ (\E j \in Jobs : OpenJob(j)) \/ (\E i \in Items : Stage(i))

-----------------------------------------------------------------------------
Next == ParseImport \/ RenderRow \/ AskStudio \/ EditGallery \/ Report

=============================================================================
