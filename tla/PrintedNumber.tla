---------------------------- MODULE PrintedNumber ----------------------------
(***************************************************************************)
(* How the numbers of a supplier's document and of a brand's web page are  *)
(* read: the prices (imports/extract.py and enrich/price.py read the same  *)
(* printed forms, each in its own way), the weights (imports/extract.py    *)
(* and enrich/weights.py) and the barcodes.  A printed number is kept as   *)
(* its groups of digits and their separators: which digits are read and    *)
(* how many of them are decimals is all a reading can get wrong.           *)
(***************************************************************************)
EXTENDS Integers, SequencesExt

\* The sum of f over S, counted out.
SumOver(f, S) == Cardinality(UNION {{i} \X (1..f[i]) : i \in S})

Seps == {"dot", "comma", "space"}

\* Digits before the first separator, then each separator and what follows it.
PrintedForm(p) == /\ p.lead \in Nat \ {0}
                  /\ p.groups \in Seq([sep : Seps, digits : Nat \ {0}])

\* What was read: how many digits from the left, the last `decimals' of them
\* after the decimal mark.
Figure(digits, decimals) == [digits |-> digits, decimals |-> decimals]
Unreadable == Figure(0, 0)

\* Digits of the groups i..j.
Between(p, i, j) == SumOver([k \in DOMAIN p.groups |-> p.groups[k].digits], i..j)
Digits(p) == p.lead + Between(p, 1, Len(p.groups))

\* Groups introduced by a separator of the set S.
SeparatedBy(p, S) == {i \in DOMAIN p.groups : p.groups[i].sep \in S}

Marks == {"dot", "comma"}

-----------------------------------------------------------------------------
(* Prices *)

\* _parse_decimal: spaces go; of the two marks the last one is decimal (twice,
\* and the number is unreadable), of one mark alone three digits decide.
ParseDecimal(p) ==
  LET m    == SeparatedBy(p, Marks)
      last == Max(m)
      tail == Between(p, last, Len(p.groups))
      same == SeparatedBy(p, {p.groups[last].sep})
  IN  CASE m = {} -> Figure(Digits(p), 0)
        [] m # {} /\ m # same /\ Cardinality(same) > 1 -> Unreadable
        [] m # {} /\ m # same /\ Cardinality(same) = 1 -> Figure(Digits(p), tail)
        [] m # {} /\ m = same ->
             Figure(Digits(p), IF Cardinality(same) = 1 /\ tail # 3 THEN tail ELSE 0)

\* _NUMBER_PATTERN: up to three digits, the groups of three that follow them,
\* one last group of one or two. A longer lead is cut after its third digit.
Matched(p) ==
  IF p.lead > 3 THEN [lead |-> 3, groups |-> <<>>]
  ELSE LET full == {n \in 0..Len(p.groups) : \A i \in 1..n : p.groups[i].digits = 3}
           n    == Max(full)
           more == n < Len(p.groups) /\ p.groups[n + 1].sep \in Marks
       IN  [lead |-> p.lead, groups |-> SubSeq(p.groups, 1, IF more THEN n + 1 ELSE n)]

\* parse_price: the last mark is decimal when one or two digits follow it.
ParsePrice(p) ==
  LET r    == Matched(p)
      m    == SeparatedBy(r, Marks)
      tail == Between(r, Max(m), Len(r.groups))
  IN  Figure(Digits(r), IF m # {} /\ tail <= 2 THEN tail ELSE 0)

\* A price as one is printed: thousands in groups of three behind at most three
\* digits, one separator for all of them, cents behind another one.
Conventional(p) ==
  LET n     == Len(p.groups)
      cents == n > 0 /\ p.groups[n].digits < 3
      k     == IF cents THEN n - 1 ELSE n
      used  == {p.groups[i].sep : i \in 1..k}
  IN  /\ k > 0 => p.lead <= 3
      /\ \A i \in 1..k : p.groups[i].digits = 3
      /\ Cardinality(used) <= 1
      /\ cents => p.groups[n].sep \in Marks \ used

\* And what it says.
Meaning(p) ==
  LET n == Len(p.groups) IN
  Figure(Digits(p), IF n > 0 /\ p.groups[n].digits < 3 THEN p.groups[n].digits ELSE 0)

-----------------------------------------------------------------------------
(* Weights, in grams *)

WeightUnits == {"", "kg", "g", "lb"}

\* _parse_weight_kg: an unknown unit is no unit, and above 20 that means grams.
DocumentWeight(n, unit) ==
  CASE unit = "kg" -> n * 1000 [] unit = "g" -> n
    [] OTHER -> IF n > 20 THEN n ELSE n * 1000

\* _extract_weight_kg, to_kg: the unit decides, an unknown one raises.
VariantWeight(n, unit) ==
  CASE unit = "kg" -> n * 1000 [] unit = "g" -> n
    [] unit = "lb" -> (n * 45359) \div 100 [] OTHER -> 0

-----------------------------------------------------------------------------
(* Barcodes: a function 1..n -> 0..9 *)

\* What completes a sum to a multiple of ten.
Complement(n) == (10 - (n % 10)) % 10

\* The check digit of barcode_is_valid: 3, 1, 3, ... from the right.
CheckDigit(payload) ==
  Complement(SumOver([i \in DOMAIN payload |->
                        payload[i] * (IF (Len(payload) - i) % 2 = 0 THEN 3 ELSE 1)],
                     DOMAIN payload))

BarcodeIsValid(code) ==
  Len(code) \in {8, 12, 13, 14} /\ CheckDigit(Front(code)) = Last(code)

\* 1, 3, 1, ... from the left.
Ean13IsValid(code) ==
  /\ Len(code) = 13
  /\ code[13] = Complement(SumOver([i \in 1..12 |-> code[i] * (IF i % 2 = 1 THEN 1 ELSE 3)],
                                    1..12))

-----------------------------------------------------------------------------
(* Properties *)

\* Every conventional printed price below a thousand, or with its thousands
\* separated, means the same to the import and to the
\* enrichment, and both read what it says (extract.py:303, price.py:27).
PriceReadersAgree(p) ==
  Conventional(p) /\ p.lead <= 3 =>
    ParseDecimal(p) = Meaning(p) /\ ParsePrice(p) = Meaning(p)

\* A number of the import that is read at all keeps every digit printed.
NoDigitLost(p) == ParseDecimal(p) # Unreadable => ParseDecimal(p).digits = Digits(p)

\* A metric weight means the same in a document and on a source page.
WeightReadersAgree(n, unit) ==
  unit \in {"kg", "g"} => DocumentWeight(n, unit) = VariantWeight(n, unit)

\* A wrong digit is always seen, a code is still valid with zeros in front of
\* it (a UPC is the EAN-13 of the same article), and the two validations agree.
BarcodeChecked(payload) ==
  LET code == Append(payload, CheckDigit(payload)) IN
  /\ BarcodeIsValid(code)
  /\ \A i \in DOMAIN code, d \in 0..9 :
       d # code[i] => ~BarcodeIsValid([code EXCEPT ![i] = d])
  /\ Len(code) \in {12, 13} => BarcodeIsValid(<<0>> \o code)
  /\ Len(code) = 13 => \A d \in 0..9 :
       BarcodeIsValid(Append(payload, d)) <=> Ean13IsValid(Append(payload, d))
=============================================================================
