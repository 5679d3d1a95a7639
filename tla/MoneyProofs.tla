---------------------------- MODULE MoneyProofs ----------------------------
(***************************************************************************)
(* What an account pays, for any number of requests, workers and accounts. *)
(* The ledger (CreditLedger) never grants a month twice when no two        *)
(* sessions raced for it, a debit and the work it pays for stay together,  *)
(* and images overdraw it by a bounded amount.  The bill (Billing) of a    *)
(* month that is billed does not move, a snapshot bills as the grid it was *)
(* taken from, and the operator's policy is the same in all accounts but   *)
(* those an older reading of it was written to.  The reports of a month    *)
(* (UsageReports) tell the same money, whatever was metered and launched.  *)
(***************************************************************************)
EXTENDS CreditLedger, Billing, UsageReports, SequenceTheorems, FiniteSetTheorems,
        WellFoundedInduction, TLAPS

-----------------------------------------------------------------------------
(* Bags of rows *)

\* A sum of bags is a bag, and holds of each row what the two hold.
LEMMA BagSum ==
  ASSUME NEW A, NEW B, IsABag(A), IsABag(B)
  PROVE  /\ IsABag(A (+) B)
         /\ BagToSet(A (+) B) = BagToSet(A) \cup BagToSet(B)
         /\ \A e : Times(e, A (+) B) = Times(e, A) + Times(e, B)
         /\ \A e : Times(e, A) \in Nat
<1>1. /\ A \in [DOMAIN A -> {n \in Nat : n > 0}]
      /\ B \in [DOMAIN B -> {n \in Nat : n > 0}]
  BY DEF IsABag
<1>2. A (+) B = [e \in DOMAIN A \cup DOMAIN B |->
                   (IF e \in DOMAIN A THEN A[e] ELSE 0) + (IF e \in DOMAIN B THEN B[e] ELSE 0)]
  BY DEF (+)
<1>3. DOMAIN (A (+) B) = DOMAIN A \cup DOMAIN B
  BY <1>2
<1>4. ASSUME NEW e \in DOMAIN A \cup DOMAIN B
      PROVE  /\ (A (+) B)[e] \in {n \in Nat : n > 0}
             /\ (A (+) B)[e] = (IF e \in DOMAIN A THEN A[e] ELSE 0) + (IF e \in DOMAIN B THEN B[e] ELSE 0)
  BY <1>1, <1>2, <1>4
<1>5. IsABag(A (+) B)
  BY <1>2, <1>3, <1>4 DEF IsABag
<1>6. QED
  BY <1>1, <1>3, <1>4, <1>5 DEF BagToSet, Times, BagIn

\* n copies of one row.
LEMMA OneRow ==
  ASSUME NEW r, NEW n \in Nat, n > 0
  PROVE  /\ IsABag(Rows(r, n)) /\ BagToSet(Rows(r, n)) = {r}
         /\ Times(r, Rows(r, n)) = n /\ \A e : e # r => Times(e, Rows(r, n)) = 0
BY DEF IsABag, BagToSet, Times, BagIn, Rows

\* The empty bag holds no row of any kind.
LEMMA NoRows ==
  IsABag(EmptyBag) /\ BagToSet(EmptyBag) = {} /\ \A e : Times(e, EmptyBag) = 0
BY DEF IsABag, BagToSet, Times, BagIn, EmptyBag, SetToBag

\* The debits of one action: rows of one shape, or none when the action is free.
LEMMA DebitedRows ==
  ASSUME NEW r, r.credits \in Int, NEW n \in Nat
  PROVE  /\ IsABag(Debits(r, n)) /\ BagToSet(Debits(r, n)) \subseteq {r}
         /\ Times(r, Debits(r, n)) = IF r.credits < 0 THEN n ELSE 0
         /\ \A e : e # r => Times(e, Debits(r, n)) = 0
<1>1. CASE n > 0 /\ r.credits < 0
  <2>1. Debits(r, n) = Rows(r, n)
    BY <1>1 DEF Debits
  <2>2. QED BY <1>1, <2>1, OneRow
<1>2. CASE ~(n > 0 /\ r.credits < 0)
  <2>1. Debits(r, n) = EmptyBag
    BY <1>2 DEF Debits
  <2>2. Times(r, Debits(r, n)) = 0
    BY <2>1, NoRows
  <2>3. QED BY <1>2, <2>1, <2>2, NoRows
<1>3. QED BY <1>1, <1>2

\* The rows of a debit are told apart by their kind and their sheet.
LEMMA RowsApart ==
  ASSUME NEW i, NEW j, NEW p, NEW c
  PROVE  /\ ImageRow(i).kind = "image_process" /\ SheetRow(i).kind = "enrich_item"
         /\ FreeRow(p).kind = "subscription" /\ FreeRow(p).period = p
         /\ Entry("adjustment", c, 0, NoSheet).kind = "adjustment"
         /\ Entry("purchase", c, 0, NoSheet).kind = "purchase"
         /\ ImageRow(i).sheet = i /\ SheetRow(i).sheet = i
         /\ ImageRow(i).credits = -Price.image_process
         /\ SheetRow(i).credits = -Price.enrich_item
BY DEF ImageRow, SheetRow, FreeRow, Entry

-----------------------------------------------------------------------------
(* Types *)

Typed ==
  /\ IsABag(ledger) /\ month \in 1..MaxMonth
  /\ DOMAIN at = Sessions /\ period \in [Sessions -> 0..MaxMonth]
  /\ flushed \in [Sessions -> Nat] /\ staged \in [Sessions -> Nat]
  /\ made \in [Workers -> Nat]
  /\ item \in [Workers -> SUBSET Sheets]
  /\ \A w \in Workers : item[w] = {} \/ \E i \in Sheets : item[w] = {i}
  /\ runs \in [Sheets -> Nat] /\ entries \in [Sheets -> Nat]

\* What a session has in its transaction is image debits of the sheet it holds.
LEMMA OwnedRows ==
  ASSUME Typed, NEW s \in Sessions, NEW n \in Nat
  PROVE  /\ IsABag(OwnRows(s, n))
         /\ \/ /\ BagToSet(OwnRows(s, n)) = {} /\ \A e : Times(e, OwnRows(s, n)) = 0
               /\ ~(s \in Workers /\ item[s] # {})
            \/ \E i \in Sheets :
                 /\ s \in Workers /\ item[s] = {i}
                 /\ BagToSet(OwnRows(s, n)) \subseteq {ImageRow(i)}
                 /\ Times(ImageRow(i), OwnRows(s, n)) = IF Price.image_process > 0 THEN n ELSE 0
                 /\ \A e : e # ImageRow(i) => Times(e, OwnRows(s, n)) = 0
<1>1. CASE s \in Workers /\ item[s] # {}
  <2>1. PICK i \in Sheets : item[s] = {i}
    BY <1>1 DEF Typed
  <2>2. OwnRows(s, n) = Debits(ImageRow(i), n)
    BY <1>1, <2>1 DEF OwnRows
  <2>3. ImageRow(i).credits \in Int /\ (ImageRow(i).credits < 0 <=> Price.image_process > 0)
    BY RowsApart, LedgerAssumption DEF LedgerAssumption
  <2>4. PICK r : r = ImageRow(i)
    OBVIOUS
  <2>5. /\ IsABag(Debits(r, n)) /\ BagToSet(Debits(r, n)) \subseteq {r}
        /\ Times(r, Debits(r, n)) = IF r.credits < 0 THEN n ELSE 0
        /\ \A e : e # r => Times(e, Debits(r, n)) = 0
    BY <2>3, <2>4, DebitedRows
  <2>6. QED BY <1>1, <2>1, <2>2, <2>3, <2>4, <2>5
<1>2. CASE ~(s \in Workers /\ item[s] # {})
  <2>1. OwnRows(s, n) = EmptyBag
    BY <1>2 DEF OwnRows
  <2>2. QED BY <1>2, <2>1, NoRows
<1>3. QED BY <1>1, <1>2

\* The initial state is well typed.
LEMMA TypedInit == Init => Typed
<1> SUFFICES ASSUME Init PROVE Typed
  OBVIOUS
<1>1. IsABag(ledger)
  BY OneRow DEF Init
<1>2. /\ month = 1 /\ at = [s \in Sessions |-> "idle"] /\ period = [s \in Sessions |-> 0]
      /\ flushed = [s \in Sessions |-> 0] /\ staged = [s \in Sessions |-> 0]
      /\ made = [w \in Workers |-> 0] /\ item = [w \in Workers |-> {}]
      /\ runs = [i \in Sheets |-> 0] /\ entries = [i \in Sheets |-> 0]
  BY DEF Init
<1>3. month \in 1..MaxMonth /\ period \in [Sessions -> 0..MaxMonth]
  BY <1>2, LedgerAssumption DEF LedgerAssumption
<1>4. /\ DOMAIN at = Sessions /\ flushed \in [Sessions -> Nat]
      /\ staged \in [Sessions -> Nat]
  BY <1>2
<1>5. made \in [Workers -> Nat] /\ item \in [Workers -> SUBSET Sheets]
  BY <1>2
<1>6. \A w \in Workers : item[w] = {}
  BY <1>2
<1>7. runs \in [Sheets -> Nat] /\ entries \in [Sheets -> Nat]
  BY <1>2
<1>8. QED BY <1>1, <1>3, <1>4, <1>5, <1>6, <1>7 DEF Typed

\* The ledger stays a bag of rows.
LEMMA BagStep ==
  ASSUME Typed, [Next]_vars
  PROVE  IsABag(ledger')
<1>0. IsABag(ledger)
  BY DEF Typed
<1>1. ASSUME NEW s \in Sessions, Grant(s) PROVE IsABag(ledger')
  <2>1. flushed[s] + staged[s] \in Nat
    BY DEF Typed
  <2>2. IsABag(TransactionRows(s)) /\ IsABag(Rows(FreeRow(period[s]), 1))
    BY <2>1, OwnedRows, OneRow DEF TransactionRows
  <2>3. QED BY <1>0, <1>1, <2>2, BagSum DEF Grant
<1>2. ASSUME NEW w \in Workers, Complete(w) PROVE IsABag(ledger')
  <2>1. PICK i \in item[w] : ledger' = ledger (+) TransactionRows(w) (+) Debits(SheetRow(i), 1)
    BY <1>2 DEF Complete
  <2>2. flushed[w] + staged[w] \in Nat /\ w \in Sessions
    BY DEF Typed, Sessions
  <2>3. IsABag(TransactionRows(w))
    BY <2>2, OwnedRows DEF TransactionRows
  <2>4. SheetRow(i).credits \in Int
    BY RowsApart, LedgerAssumption DEF LedgerAssumption
  <2>5. IsABag(Debits(SheetRow(i), 1))
    BY <2>4, DebitedRows
  <2>6. QED BY <1>0, <2>1, <2>3, <2>5, BagSum
<1>3. ASSUME NEW w \in Workers, Fail(w) PROVE IsABag(ledger')
  BY <1>0, <1>3, NoRows, BagSum DEF Fail, LeftByFailure
<1>4. CASE Adjust
  <2>1. PICK c : ledger' = ledger (+) Rows(Entry("adjustment", c, 0, NoSheet), 1)
    BY <1>4 DEF Adjust
  <2>2. QED BY <1>0, <2>1, OneRow, BagSum
<1>5. ASSUME ledger' = ledger PROVE IsABag(ledger')
  BY <1>0, <1>5
<1>6. ASSUME NEW s \in Sessions, GrantNotNeeded(s) \/ GrantMissing(s) \/ SumBalance(s)
      PROVE  ledger' = ledger
  BY <1>6 DEF GrantNotNeeded, GrantMissing, SumBalance, ledgerVars
<1>7. ASSUME NEW s, Ask(s) \/ Overview(s) \/ Refuse(s) \/ Covered(s) \/ Launch(s)
      PROVE  ledger' = ledger
  BY <1>7 DEF Ask, Overview, Refuse, Covered, Launch, ledgerVars
<1>8. ASSUME NEW w, Claim(w) \/ KeepRaw(w) \/ Normalize(w) \/ Normalized(w) \/ NotNormalized(w)
      PROVE  ledger' = ledger
  BY <1>8 DEF Claim, KeepRaw, Normalize, Normalized, NotNormalized, ledgerVars
<1>9. ASSUME NextMonth \/ Kill \/ UNCHANGED vars PROVE ledger' = ledger
  BY <1>9 DEF NextMonth, Kill, vars, ledgerVars
<1>10. QED
  BY <1>1, <1>2, <1>3, <1>4, <1>5, <1>6, <1>7, <1>8, <1>9 DEF Next, Balance

\* The step at which the variables of a session are left.
LEMMA Closed ==
  ASSUME Typed, NEW s \in Sessions, Close(s)
  PROVE  DOMAIN at' = Sessions /\ period' \in [Sessions -> 0..MaxMonth]
<1>1. 0 \in 0..MaxMonth
  BY LedgerAssumption DEF LedgerAssumption
<1>2. QED BY <1>1 DEF Close, Typed

\* Every variable stays in its type.
LEMMA TypedStep ==
  ASSUME Typed, [Next]_vars
  PROVE  Typed'
<1>0. IsABag(ledger')
  BY BagStep
<1>z. 0 \in 0..MaxMonth /\ 1..MaxMonth \subseteq 0..MaxMonth /\ Workers \subseteq Sessions
      /\ Requests \subseteq Sessions
  BY LedgerAssumption DEF LedgerAssumption, Sessions
<1>1. ASSUME NEW s \in Sessions, GrantNotNeeded(s) \/ GrantMissing(s) PROVE Typed'
  <2>1. /\ period' = [period EXCEPT ![s] = month]
        /\ \E x : at' = [at EXCEPT ![s] = x]
        /\ UNCHANGED <<ledger, month, item, made, flushed, staged, runs, entries>>
    BY <1>1 DEF GrantNotNeeded, GrantMissing, ledgerVars, workVars, sheetVars
  <2>2. QED BY <1>0, <1>z, <2>1 DEF Typed
<1>2. ASSUME NEW s \in Sessions, Grant(s) PROVE Typed'
  BY <1>0, <1>2 DEF Typed, Grant, sheetVars
<1>3. ASSUME NEW s \in Sessions, SumBalance(s) PROVE Typed'
  BY <1>0, <1>3 DEF Typed, SumBalance, ledgerVars, workVars, sheetVars
<1>4. ASSUME NEW s \in Requests, Ask(s) PROVE Typed'
  <2>1. /\ \E x : at' = [at EXCEPT ![s] = x]
        /\ UNCHANGED <<ledger, month, period, item, made, flushed, staged, runs, entries>>
    BY <1>4 DEF Ask, ledgerVars, workVars, sheetVars
  <2>2. QED BY <1>0, <1>z, <2>1 DEF Typed
<1>5. ASSUME NEW s \in Requests, Overview(s) \/ Refuse(s) \/ Launch(s) PROVE Typed'
  <2>1. /\ Close(s)
        /\ UNCHANGED <<ledger, month, item, made, flushed, staged, runs, entries>>
    BY <1>5 DEF Overview, Refuse, Launch, ledgerVars, workVars, sheetVars
  <2>2. DOMAIN at' = Sessions /\ period' \in [Sessions -> 0..MaxMonth]
    BY <1>z, <2>1, Closed
  <2>3. QED BY <1>0, <2>1, <2>2 DEF Typed
<1>6. ASSUME NEW s \in Requests, Covered(s) PROVE Typed'
  BY <1>0, <1>z, <1>6 DEF Typed, Covered, ledgerVars, workVars, sheetVars
<1>7. ASSUME NEW w \in Workers, Claim(w) PROVE Typed'
  <2>1. /\ \E x : at' = [at EXCEPT ![w] = x]
        /\ made' = [made EXCEPT ![w] = 0]
        /\ UNCHANGED <<ledger, month, period, flushed, staged, runs, entries>>
    BY <1>7 DEF Claim, ledgerVars
  <2>2. PICK i \in Sheets : item' = [item EXCEPT ![w] = {i}]
    BY <1>7 DEF Claim
  <2>3. /\ item' \in [Workers -> SUBSET Sheets]
        /\ \A v \in Workers : item'[v] = {} \/ \E k \in Sheets : item'[v] = {k}
    BY <2>2 DEF Typed
  <2>4. QED BY <1>0, <1>z, <2>1, <2>3 DEF Typed
<1>8. ASSUME NEW w \in Workers, KeepRaw(w) \/ Normalize(w) \/ Normalized(w) \/ NotNormalized(w)
      PROVE  Typed'
  <2>1. /\ \E x : at' = [at EXCEPT ![w] = x]
        /\ UNCHANGED <<ledger, month, period, item, runs, entries>>
    BY <1>8 DEF KeepRaw, Normalize, Normalized, NotNormalized, NextImage, ledgerVars, sheetVars
  <2>2. \E f, g, m \in Nat : /\ flushed' = [flushed EXCEPT ![w] = f] \/ flushed' = flushed
                             /\ staged' = [staged EXCEPT ![w] = g] \/ staged' = staged
                             /\ made' = [made EXCEPT ![w] = m] \/ made' = made
    <3>1. flushed[w] \in Nat /\ staged[w] \in Nat /\ made[w] \in Nat
      BY <1>z DEF Typed
    <3>2. /\ flushed' = [flushed EXCEPT ![w] = flushed[w] + staged[w]] \/ flushed' = flushed
          /\ \/ staged' = [staged EXCEPT ![w] = 0] \/ staged' = staged
             \/ staged' = [staged EXCEPT ![w] = staged[w] + 1]
          /\ made' = [made EXCEPT ![w] = made[w] + 1] \/ made' = made
      BY <1>8 DEF KeepRaw, Normalize, Normalized, NotNormalized
    <3>3. flushed[w] + staged[w] \in Nat /\ staged[w] + 1 \in Nat /\ made[w] + 1 \in Nat
      BY <3>1
    <3>4. QED BY <3>2, <3>3
  <2>3. QED BY <1>0, <1>z, <2>1, <2>2 DEF Typed
<1>9. ASSUME NEW w \in Workers, Released(w),
             UNCHANGED month, runs' \in [Sheets -> Nat], entries' \in [Sheets -> Nat]
      PROVE  Typed'
  <2>1. DOMAIN at' = Sessions /\ period' \in [Sessions -> 0..MaxMonth]
    BY <1>z, <1>9, Closed DEF Released
  <2>2. /\ item' = [item EXCEPT ![w] = {}] /\ flushed' = [flushed EXCEPT ![w] = 0]
        /\ staged' = [staged EXCEPT ![w] = 0] /\ made' = [made EXCEPT ![w] = 0]
    BY <1>9 DEF Released
  <2>3. QED BY <1>0, <1>z, <1>9, <2>1, <2>2 DEF Typed
<1>10. ASSUME NEW w \in Workers, Complete(w) PROVE Typed'
  <2>1. PICK i \in item[w] : /\ runs' = [runs EXCEPT ![i] = @ + 1]
                             /\ entries' = [entries EXCEPT ![i] = @ + made[w]]
    BY <1>10 DEF Complete
  <2>2. i \in Sheets /\ made[w] \in Nat
    BY DEF Typed
  <2>3. runs' \in [Sheets -> Nat] /\ entries' \in [Sheets -> Nat]
    BY <2>1, <2>2 DEF Typed
  <2>4. QED BY <1>9, <1>10, <2>3 DEF Complete
<1>11. ASSUME NEW w \in Workers, Fail(w) PROVE Typed'
  BY <1>9, <1>11 DEF Fail, Typed
<1>12. CASE Adjust
  BY <1>0, <1>12 DEF Typed, Adjust, sessionVars, workVars, sheetVars
<1>13. CASE NextMonth
  BY <1>0, <1>13, LedgerAssumption
     DEF Typed, NextMonth, sessionVars, workVars, sheetVars, LedgerAssumption
<1>14. CASE Kill
  <2>1. /\ at' = [s \in Sessions |-> "idle"] /\ period' = [s \in Sessions |-> 0]
        /\ flushed' = [s \in Sessions |-> 0] /\ staged' = [s \in Sessions |-> 0]
        /\ made' = [w \in Workers |-> 0] /\ item' = [w \in Workers |-> {}]
        /\ UNCHANGED <<month, runs, entries>>
    BY <1>14 DEF Kill, ledgerVars, sheetVars
  <2>2. /\ DOMAIN at' = Sessions /\ period' \in [Sessions -> 0..MaxMonth]
        /\ flushed' \in [Sessions -> Nat] /\ staged' \in [Sessions -> Nat]
    BY <1>z, <2>1
  <2>3. /\ made' \in [Workers -> Nat] /\ item' \in [Workers -> SUBSET Sheets]
        /\ \A w \in Workers : item'[w] = {}
    BY <2>1
  <2>4. QED BY <1>0, <2>1, <2>2, <2>3 DEF Typed
<1>15. CASE UNCHANGED vars
  BY <1>15 DEF Typed, vars, ledgerVars, sessionVars, workVars, sheetVars
<1>16. QED
  BY <1>1, <1>2, <1>3, <1>4, <1>5, <1>6, <1>7, <1>8, <1>10, <1>11, <1>12, <1>13, <1>14, <1>15
     DEF Next, Balance


-----------------------------------------------------------------------------
(* A month is granted once *)

\* A session about to insert a grant nobody raced for is the only one, and the
\* month has none yet: this is what makes GrantOnce inductive.
GrantsKnown ==
  /\ GrantOnce
  /\ \A s \in Sessions : at[s] = "grant" =>
       /\ period[s] \in 1..MaxMonth
       /\ period[s] \notin raced =>
            /\ Times(FreeRow(period[s]), ledger) = 0
            /\ \A t \in Sessions \ {s} : at[t] = "grant" => period[t] # period[s]

\* The rows of one kind are as they were.
Stands(kind) ==
  \A e : e.kind = kind =>
    /\ e \in BagToSet(ledger') <=> e \in BagToSet(ledger)
    /\ Times(e, ledger') = Times(e, ledger)

\* No session comes to the point of granting.
NoNewGrant ==
  \A t \in Sessions : at'[t] = "grant" => at[t] = "grant" /\ period'[t] = period[t]

\* A step that leaves the granted rows and grants nothing keeps what is known.
LEMMA QuietGrants ==
  ASSUME GrantsKnown, Stands("subscription"), NoNewGrant, raced' = raced
  PROVE  GrantsKnown'
<1>1. GrantOnce'
  BY DEF GrantsKnown, GrantOnce, RowsOf, Stands
<1>2. ASSUME NEW s \in Sessions, at'[s] = "grant"
      PROVE  /\ period'[s] \in 1..MaxMonth
             /\ period'[s] \notin raced' =>
                  /\ Times(FreeRow(period'[s]), ledger') = 0
                  /\ \A t \in Sessions \ {s} : at'[t] = "grant" => period'[t] # period'[s]
  <2>1. at[s] = "grant" /\ period'[s] = period[s]
    BY <1>2 DEF NoNewGrant
  <2>2. Times(FreeRow(period[s]), ledger') = Times(FreeRow(period[s]), ledger)
    BY RowsApart DEF Stands
  <2>3. QED BY <2>1, <2>2 DEF GrantsKnown, NoNewGrant
<1>3. QED BY <1>1, <1>2 DEF GrantsKnown

\* Rows of another kind leave the rows of a kind as they were.
LEMMA OtherRows ==
  ASSUME Typed, NEW B, IsABag(B), ledger' = ledger (+) B,
         NEW kind, \A e \in BagToSet(B) : e.kind # kind
  PROVE  Stands(kind)
<1>1. IsABag(ledger)
  BY DEF Typed
<1>2. /\ BagToSet(ledger') = BagToSet(ledger) \cup BagToSet(B)
      /\ \A e : Times(e, ledger') = Times(e, ledger) + Times(e, B)
      /\ \A e : Times(e, ledger) \in Nat
  BY <1>1, BagSum
<1>3. \A e : e.kind = kind => e \notin BagToSet(B) /\ Times(e, B) = 0
  BY DEF Times, BagIn
<1>4. QED BY <1>2, <1>3 DEF Stands

\* Two additions are one.
LEMMA TwoSums ==
  ASSUME NEW A, NEW B, NEW C, IsABag(A), IsABag(B), IsABag(C)
  PROVE  /\ IsABag(A (+) B (+) C)
         /\ BagToSet(A (+) B (+) C) = BagToSet(A) \cup BagToSet(B) \cup BagToSet(C)
         /\ \A e : Times(e, A (+) B (+) C) = Times(e, A) + Times(e, B) + Times(e, C)
<1>1. /\ IsABag(A (+) B) /\ BagToSet(A (+) B) = BagToSet(A) \cup BagToSet(B)
      /\ \A e : Times(e, A (+) B) = Times(e, A) + Times(e, B)
  BY BagSum
<1>2. QED BY <1>1, BagSum

\* A completion adds debits, and nothing else.
LEMMA CompletedRows ==
  ASSUME Typed, NEW w \in Workers, NEW i \in Sheets, item[w] = {i}, i \in item[w],
         ledger' = ledger (+) TransactionRows(w) (+) Debits(SheetRow(i), 1)
  PROVE  /\ BagToSet(ledger') \subseteq BagToSet(ledger) \cup {ImageRow(i), SheetRow(i)}
         /\ BagToSet(ledger) \subseteq BagToSet(ledger')
         /\ Times(SheetRow(i), ledger')
              = Times(SheetRow(i), ledger) + (IF Price.enrich_item > 0 THEN 1 ELSE 0)
         /\ Times(ImageRow(i), ledger')
              = Times(ImageRow(i), ledger)
                  + (IF Price.image_process > 0 THEN flushed[w] + staged[w] ELSE 0)
         /\ \A e : e # SheetRow(i) /\ e # ImageRow(i) => Times(e, ledger') = Times(e, ledger)
<1> DEFINE n == flushed[w] + staged[w]
<1>1. IsABag(ledger) /\ w \in Sessions /\ n \in Nat
  BY DEF Typed, Sessions
<1>2. PICK T : T = TransactionRows(w)
  OBVIOUS
<1>3. T = OwnRows(w, n)
  BY <1>2 DEF TransactionRows
<1>4. /\ IsABag(T) /\ BagToSet(T) \subseteq {ImageRow(i)}
      /\ Times(ImageRow(i), T) = IF Price.image_process > 0 THEN n ELSE 0
      /\ \A e : e # ImageRow(i) => Times(e, T) = 0
  <2> HIDE DEF n
  <2>1. IsABag(OwnRows(w, n))
    BY <1>1, OwnedRows
  <2>2. PICK k \in Sheets :
          /\ item[w] = {k} /\ BagToSet(OwnRows(w, n)) \subseteq {ImageRow(k)}
          /\ Times(ImageRow(k), OwnRows(w, n)) = IF Price.image_process > 0 THEN n ELSE 0
          /\ \A e : e # ImageRow(k) => Times(e, OwnRows(w, n)) = 0
    BY <1>1, OwnedRows
  <2>3. k = i
    BY <2>2
  <2>4. QED BY <1>3, <2>1, <2>2, <2>3
<1>5. PICK D : D = Debits(SheetRow(i), 1)
  OBVIOUS
<1>6. /\ IsABag(D) /\ BagToSet(D) \subseteq {SheetRow(i)}
      /\ Times(SheetRow(i), D) = IF Price.enrich_item > 0 THEN 1 ELSE 0
      /\ \A e : e # SheetRow(i) => Times(e, D) = 0
  <2>1. SheetRow(i).credits \in Int /\ (SheetRow(i).credits < 0 <=> Price.enrich_item > 0)
    BY RowsApart, LedgerAssumption DEF LedgerAssumption
  <2>2. PICK r : r = SheetRow(i)
    OBVIOUS
  <2>3. /\ IsABag(Debits(r, 1)) /\ BagToSet(Debits(r, 1)) \subseteq {r}
        /\ Times(r, Debits(r, 1)) = IF r.credits < 0 THEN 1 ELSE 0
        /\ \A e : e # r => Times(e, Debits(r, 1)) = 0
    BY <2>1, <2>2, DebitedRows
  <2>4. QED BY <1>5, <2>1, <2>2, <2>3
<1>7. ledger' = ledger (+) T (+) D
  BY <1>2, <1>5
<1>8. /\ BagToSet(ledger') = BagToSet(ledger) \cup BagToSet(T) \cup BagToSet(D)
      /\ \A e : Times(e, ledger') = Times(e, ledger) + Times(e, T) + Times(e, D)
  BY <1>1, <1>4, <1>6, <1>7, TwoSums
<1>9. SheetRow(i) # ImageRow(i) /\ \A e : Times(e, ledger) \in Nat
  BY <1>1, RowsApart, BagSum
<1>10. QED BY <1>1, <1>4, <1>6, <1>8, <1>9

\* A grant adds one row of its month, and the debits of the session, if it has any.
LEMMA GrantedRows ==
  ASSUME Typed, NEW s \in Sessions, Grant(s)
  PROVE  /\ BagToSet(ledger) \cup {FreeRow(period[s])} \subseteq BagToSet(ledger')
         /\ \A e \in BagToSet(ledger') :
              \/ e \in BagToSet(ledger) \/ e = FreeRow(period[s])
              \/ s \in Workers /\ \E i \in Sheets : item[s] = {i} /\ e = ImageRow(i)
         /\ Times(FreeRow(period[s]), ledger') = Times(FreeRow(period[s]), ledger) + 1
         /\ \A e : \/ e = FreeRow(period[s]) \/ Times(e, ledger') = Times(e, ledger)
                   \/ s \in Workers /\ \E i \in Sheets : item[s] = {i} /\ e = ImageRow(i)
<1>1. IsABag(ledger) /\ flushed[s] + staged[s] \in Nat
  BY DEF Typed
<1>2. PICK T : T = TransactionRows(s)
  OBVIOUS
<1>3. /\ IsABag(T)
      /\ \A e : \/ e \notin BagToSet(T) /\ Times(e, T) = 0
                \/ s \in Workers /\ \E i \in Sheets : item[s] = {i} /\ e = ImageRow(i)
  BY <1>1, <1>2, OwnedRows DEF TransactionRows
<1>4. PICK f : f = FreeRow(period[s])
  OBVIOUS
<1>5. /\ IsABag(Rows(f, 1)) /\ BagToSet(Rows(f, 1)) = {f} /\ Times(f, Rows(f, 1)) = 1
      /\ \A e : e # f => Times(e, Rows(f, 1)) = 0
  BY OneRow
<1>6. ledger' = ledger (+) T (+) Rows(f, 1)
  BY <1>2, <1>4 DEF Grant
<1>7. /\ BagToSet(ledger') = BagToSet(ledger) \cup BagToSet(T) \cup BagToSet(Rows(f, 1))
      /\ \A e : Times(e, ledger') = Times(e, ledger) + Times(e, T) + Times(e, Rows(f, 1))
      /\ \A e : Times(e, ledger) \in Nat
  BY <1>1, <1>3, <1>5, <1>6, TwoSums, BagSum
<1>8. \A i : f # ImageRow(i)
  BY <1>4, RowsApart
<1>9. Times(f, T) = 0
  BY <1>3, <1>8
<1>10. QED BY <1>3, <1>4, <1>5, <1>7, <1>9


\* Only a grant adds a row of free credits.
LEMMA FreeRowsStand ==
  ASSUME Typed, [Next]_vars
  PROVE  \/ Stands("subscription")
         \/ \E s \in Sessions : Grant(s)
<1>0. IsABag(ledger)
  BY DEF Typed
<1>1. ASSUME ledger' = ledger PROVE Stands("subscription")
  BY <1>1 DEF Stands
<1>2. ASSUME NEW w \in Workers, Complete(w) PROVE Stands("subscription")
  <2>1. PICK i \in item[w] : ledger' = ledger (+) TransactionRows(w) (+) Debits(SheetRow(i), 1)
    BY <1>2 DEF Complete
  <2>2. i \in Sheets /\ item[w] = {i}
    BY DEF Typed
  <2>3. /\ BagToSet(ledger') \subseteq BagToSet(ledger) \cup {ImageRow(i), SheetRow(i)}
        /\ BagToSet(ledger) \subseteq BagToSet(ledger')
        /\ \A e : e # SheetRow(i) /\ e # ImageRow(i) => Times(e, ledger') = Times(e, ledger)
    BY <2>1, <2>2, CompletedRows
  <2>4. \A e : e.kind = "subscription" => e # SheetRow(i) /\ e # ImageRow(i)
    BY RowsApart
  <2>5. QED BY <2>3, <2>4 DEF Stands
<1>3. ASSUME NEW w \in Workers, Fail(w) PROVE Stands("subscription")
  <2>1. ledger' = ledger (+) EmptyBag
    BY <1>3 DEF Fail, LeftByFailure
  <2>2. QED BY <2>1, NoRows, OtherRows
<1>4. CASE Adjust
  <2>1. PICK c : ledger' = ledger (+) Rows(Entry("adjustment", c, 0, NoSheet), 1)
    BY <1>4 DEF Adjust
  <2>2. PICK r : r = Entry("adjustment", c, 0, NoSheet)
    OBVIOUS
  <2>3. r.kind = "adjustment" /\ IsABag(Rows(r, 1)) /\ BagToSet(Rows(r, 1)) = {r}
    BY <2>2, RowsApart, OneRow
  <2>4. QED BY <2>1, <2>2, <2>3, OtherRows
<1>6. ASSUME NEW s \in Sessions, GrantNotNeeded(s) \/ GrantMissing(s) \/ SumBalance(s)
      PROVE  ledger' = ledger
  BY <1>6 DEF GrantNotNeeded, GrantMissing, SumBalance, ledgerVars
<1>7. ASSUME NEW s, Ask(s) \/ Overview(s) \/ Refuse(s) \/ Covered(s) \/ Launch(s)
      PROVE  ledger' = ledger
  BY <1>7 DEF Ask, Overview, Refuse, Covered, Launch, ledgerVars
<1>8. ASSUME NEW w, Claim(w) \/ KeepRaw(w) \/ Normalize(w) \/ Normalized(w) \/ NotNormalized(w)
      PROVE  ledger' = ledger
  BY <1>8 DEF Claim, KeepRaw, Normalize, Normalized, NotNormalized, ledgerVars
<1>9. ASSUME NextMonth \/ Kill \/ UNCHANGED vars PROVE ledger' = ledger
  BY <1>9 DEF NextMonth, Kill, vars, ledgerVars
<1>10. QED
  BY <1>1, <1>2, <1>3, <1>4, <1>6, <1>7, <1>8, <1>9 DEF Next, Balance

\* Only GrantMissing brings a session to the point of granting, and marks a race.
LEMMA NobodyElseGrants ==
  ASSUME Typed, [Next]_vars
  PROVE  \/ NoNewGrant /\ raced' = raced
         \/ \E s \in Sessions : GrantMissing(s)
<1>0. DOMAIN at = Sessions /\ DOMAIN period = Sessions
  BY DEF Typed
<1>1. ASSUME NEW s, NEW x, x # "grant", at' = [at EXCEPT ![s] = x],
             UNCHANGED <<period, raced>>
      PROVE  NoNewGrant /\ raced' = raced
  BY <1>0, <1>1 DEF NoNewGrant
<1>2. ASSUME NEW s, NEW p, at' = [at EXCEPT ![s] = "sum"],
             period' = [period EXCEPT ![s] = p], raced' = raced
      PROVE  NoNewGrant /\ raced' = raced
  BY <1>0, <1>2 DEF NoNewGrant
<1>3. ASSUME NEW s, Close(s), raced' = raced
      PROVE  NoNewGrant /\ raced' = raced
  BY <1>0, <1>3 DEF NoNewGrant, Close
<1>4. ASSUME NEW s, GrantNotNeeded(s)
      PROVE  NoNewGrant /\ raced' = raced
  BY <1>2, <1>4 DEF GrantNotNeeded
<1>5. ASSUME NEW s, Grant(s) \/ SumBalance(s) \/ Ask(s) \/ Covered(s)
      PROVE  NoNewGrant /\ raced' = raced
  <2>1. \E x : x # "grant" /\ at' = [at EXCEPT ![s] = x]
    BY <1>5 DEF Grant, SumBalance, Ask, Covered
  <2>2. UNCHANGED <<period, raced>>
    BY <1>5 DEF Grant, SumBalance, Ask, Covered
  <2>3. QED BY <1>1, <2>1, <2>2
<1>6. ASSUME NEW s, Overview(s) \/ Refuse(s) \/ Launch(s)
      PROVE  NoNewGrant /\ raced' = raced
  BY <1>3, <1>6 DEF Overview, Refuse, Launch
<1>7. ASSUME NEW w, Claim(w) \/ KeepRaw(w) \/ Normalize(w) \/ Normalized(w) \/ NotNormalized(w)
      PROVE  NoNewGrant /\ raced' = raced
  <2>1. \E x : x # "grant" /\ at' = [at EXCEPT ![w] = x]
    BY <1>7 DEF Claim, KeepRaw, Normalize, Normalized, NotNormalized, NextImage
  <2>2. UNCHANGED <<period, raced>>
    BY <1>7 DEF Claim, KeepRaw, Normalize, Normalized, NotNormalized
  <2>3. QED BY <1>1, <2>1, <2>2
<1>8. ASSUME NEW w, Complete(w) \/ Fail(w)
      PROVE  NoNewGrant /\ raced' = raced
  BY <1>3, <1>8 DEF Complete, Fail, Released
<1>9. ASSUME Adjust \/ NextMonth \/ UNCHANGED vars
      PROVE  NoNewGrant /\ raced' = raced
  BY <1>9 DEF Adjust, NextMonth, vars, sessionVars, NoNewGrant
<1>10. CASE Kill
  BY <1>10 DEF Kill, NoNewGrant
<1>11. QED
  BY <1>4, <1>5, <1>6, <1>7, <1>8, <1>9, <1>10 DEF Next, Balance

\* A session that finds no grant, and no other session granting, is alone.
LEMMA MissingStep ==
  ASSUME Typed, GrantsKnown, NEW s \in Sessions, GrantMissing(s)
  PROVE  GrantsKnown'
<1>1. /\ at[s] = "balance" /\ ledger' = ledger
      /\ at' = [at EXCEPT ![s] = "grant"] /\ period' = [period EXCEPT ![s] = month]
      /\ DOMAIN at = Sessions /\ DOMAIN period = Sessions /\ month \in 1..MaxMonth
  BY DEF GrantMissing, ledgerVars, Typed
<1>2. /\ at'[s] = "grant" /\ period'[s] = month
      /\ \A t \in Sessions \ {s} : at'[t] = at[t] /\ period'[t] = period[t]
  BY <1>1
<1>3. /\ raced \subseteq raced'
      /\ \A t \in Sessions \ {s} : at[t] = "grant" /\ period[t] = month => month \in raced'
  BY DEF GrantMissing
<1>4. Times(FreeRow(month), ledger) = 0
  <2>1. PICK B : B = OwnRows(s, flushed[s])
    OBVIOUS
  <2>2. IsABag(ledger) /\ IsABag(B)
    BY <2>1, OwnedRows DEF Typed
  <2>3. BagToSet(ledger) \subseteq BagToSet(VisibleRows(s))
    BY <2>1, <2>2, BagSum DEF VisibleRows
  <2>4. FreeRow(month) \notin BagToSet(ledger)
    BY <2>3, RowsApart DEF GrantMissing, Granted
  <2>5. QED BY <2>4 DEF Times, BagIn
<1>5. GrantOnce'
  BY <1>1, <1>3 DEF GrantsKnown, GrantOnce, RowsOf
<1>6. ASSUME NEW u \in Sessions, at'[u] = "grant"
      PROVE  /\ period'[u] \in 1..MaxMonth
             /\ period'[u] \notin raced' =>
                  /\ Times(FreeRow(period'[u]), ledger') = 0
                  /\ \A t \in Sessions \ {u} : at'[t] = "grant" => period'[t] # period'[u]
  <2>1. CASE u = s
    BY <1>1, <1>2, <1>3, <1>4, <2>1
  <2>2. CASE u # s
    <3>1. at[u] = "grant" /\ period'[u] = period[u]
      BY <1>2, <1>6, <2>2
    <3>2. period[u] \in 1..MaxMonth
      BY <3>1 DEF GrantsKnown
    <3>3. ASSUME period[u] \notin raced'
          PROVE  /\ Times(FreeRow(period[u]), ledger) = 0
                 /\ \A t \in Sessions \ {u} : at'[t] = "grant" => period'[t] # period[u]
      <4>1. /\ Times(FreeRow(period[u]), ledger) = 0
            /\ \A t \in Sessions \ {u} : at[t] = "grant" => period[t] # period[u]
        BY <1>3, <3>1, <3>3 DEF GrantsKnown
      <4>2. period[u] # month
        BY <1>3, <2>2, <3>1, <3>3
      <4>3. QED BY <1>2, <4>1, <4>2
    <3>4. QED BY <1>1, <3>1, <3>2, <3>3
  <2>3. QED BY <2>1, <2>2
<1>7. QED BY <1>5, <1>6 DEF GrantsKnown

\* The insert of the only session granting is the first of its month.
LEMMA GrantStep ==
  ASSUME Typed, GrantsKnown, NEW s \in Sessions, Grant(s)
  PROVE  GrantsKnown'
<1>1. /\ at[s] = "grant" /\ at' = [at EXCEPT ![s] = "sum"] /\ period' = period /\ raced' = raced
      /\ DOMAIN at = Sessions
  BY DEF Grant, Typed
<1>2. /\ at'[s] # "grant" /\ \A t \in Sessions \ {s} : at'[t] = at[t]
  BY <1>1
<1>3. PICK f : f = FreeRow(period[s])
  OBVIOUS
<1>4. /\ \A e \in BagToSet(ledger') : e.kind = "subscription" => e \in BagToSet(ledger) \/ e = f
      /\ \A e : e.kind = "subscription" /\ e # f => Times(e, ledger') = Times(e, ledger)
      /\ Times(f, ledger') = Times(f, ledger) + 1
  BY <1>3, GrantedRows, RowsApart
<1>5. /\ f.kind = "subscription" /\ f.period = period[s] /\ period[s] \in 1..MaxMonth
      /\ period[s] \notin raced => Times(f, ledger) = 0
  BY <1>1, <1>3, RowsApart DEF GrantsKnown
<1>6. GrantOnce'
  <2>1. ASSUME NEW e \in BagToSet(ledger'), e.kind = "subscription"
        PROVE  /\ e = FreeRow(e.period) /\ e.period \in 1..MaxMonth
               /\ e.period \notin raced => Times(e, ledger') <= 1
    <3>1. CASE e = f
      BY <1>3, <1>4, <1>5, <3>1
    <3>2. CASE e # f
      BY <1>4, <2>1, <3>2 DEF GrantsKnown, GrantOnce, RowsOf
    <3>3. QED BY <3>1, <3>2
  <2>2. QED BY <1>1, <2>1 DEF GrantOnce, RowsOf
<1>7. ASSUME NEW u \in Sessions, at'[u] = "grant"
      PROVE  /\ period[u] \in 1..MaxMonth
             /\ period[u] \notin raced =>
                  /\ Times(FreeRow(period[u]), ledger') = 0
                  /\ \A t \in Sessions \ {u} : at'[t] = "grant" => period[t] # period[u]
  <2>1. at[u] = "grant" /\ u # s
    BY <1>2, <1>7
  <2>2. period[u] \in 1..MaxMonth
    BY <2>1 DEF GrantsKnown
  <2>3. ASSUME period[u] \notin raced
        PROVE  /\ Times(FreeRow(period[u]), ledger') = 0
               /\ \A t \in Sessions \ {u} : at'[t] = "grant" => period[t] # period[u]
    <3>1. /\ Times(FreeRow(period[u]), ledger) = 0
          /\ \A t \in Sessions \ {u} : at[t] = "grant" => period[t] # period[u]
      BY <2>1, <2>3 DEF GrantsKnown
    <3>2. FreeRow(period[u]) # f /\ FreeRow(period[u]).kind = "subscription"
      BY <1>1, <1>5, <2>1, <3>1, RowsApart
    <3>3. QED BY <1>2, <1>4, <3>1, <3>2
  <2>4. QED BY <2>2, <2>3
<1>8. QED BY <1>1, <1>6, <1>7 DEF GrantsKnown

\* The free credits of a month are granted once, across sessions, months and process
\* deaths, unless two sessions were between the SELECT and the INSERT of
\* ensure_subscription_grant (credits.py:44) for that month.
THEOREM MonthGrantedOnce == Spec => []GrantOnce
<1>1. Init => Typed /\ GrantsKnown
  <2> SUFFICES ASSUME Init PROVE Typed /\ GrantsKnown
    OBVIOUS
  <2>1. Typed
    BY TypedInit
  <2>2. PICK r : r = Entry("purchase", Opening, 0, NoSheet)
    OBVIOUS
  <2>3. BagToSet(ledger) = {r} /\ r.kind = "purchase"
    BY <2>2, OneRow, RowsApart DEF Init
  <2>4. GrantOnce
    BY <2>3 DEF GrantOnce, RowsOf
  <2>5. \A s \in Sessions : at[s] # "grant"
    BY DEF Init
  <2>6. QED BY <2>1, <2>4, <2>5 DEF GrantsKnown
<1>2. (Typed /\ GrantsKnown) /\ [Next]_vars => (Typed /\ GrantsKnown)'
  <2> SUFFICES ASSUME Typed, GrantsKnown, [Next]_vars PROVE Typed' /\ GrantsKnown'
    OBVIOUS
  <2>1. Typed'
    BY TypedStep
  <2>2. CASE \E s \in Sessions : Grant(s)
    BY <2>1, <2>2, GrantStep
  <2>3. CASE \E s \in Sessions : GrantMissing(s)
    BY <2>1, <2>3, MissingStep
  <2>4. CASE Stands("subscription") /\ NoNewGrant /\ raced' = raced
    BY <2>1, <2>4, QuietGrants
  <2>5. QED
    BY <2>2, <2>3, <2>4, FreeRowsStand, NobodyElseGrants
<1>3. Typed /\ GrantsKnown => GrantOnce
  BY DEF GrantsKnown
<1>4. QED BY <1>1, <1>2, <1>3, PTL DEF Spec


-----------------------------------------------------------------------------
(* A debit lands with the work it pays for *)

\* What a worker has in its transaction is what it has normalised, as long as no
\* grant committed a part of it.
Staging ==
  /\ \A w \in Workers : at[w] = "idle" => flushed[w] = 0 /\ staged[w] = 0
  /\ \A w \in Workers : \A i \in Sheets \ split :
       item[w] = {i} => flushed[w] + staged[w] = made[w]

\* Every step keeps what a worker has in its transaction equal to what it has normalised.
LEMMA StagingStep ==
  ASSUME Typed, Staging, [Next]_vars
  PROVE  Staging'
<1>0. /\ DOMAIN at = Sessions /\ DOMAIN flushed = Sessions /\ DOMAIN staged = Sessions
      /\ DOMAIN made = Workers /\ DOMAIN item = Workers
      /\ \A w \in Workers : w \in Sessions /\ w \notin Requests
      /\ \A w \in Workers : flushed[w] \in Nat /\ staged[w] \in Nat /\ made[w] \in Nat
  BY LedgerAssumption DEF Typed, Sessions, LedgerAssumption
<1>1. ASSUME NEW s, NEW x, x # "idle", at' = [at EXCEPT ![s] = x],
             UNCHANGED <<flushed, staged, made, item, split>>
      PROVE  Staging'
  BY <1>0, <1>1 DEF Staging
<1>2. ASSUME NEW s, GrantNotNeeded(s) \/ GrantMissing(s) \/ SumBalance(s)
      PROVE  Staging'
  <2>1. /\ \E x : x # "idle" /\ at' = [at EXCEPT ![s] = x]
        /\ UNCHANGED <<flushed, staged, made, item, split>>
    BY <1>2 DEF GrantNotNeeded, GrantMissing, SumBalance, workVars
  <2>2. QED BY <1>1, <2>1
<1>3. ASSUME NEW s \in Sessions, Grant(s) PROVE Staging'
  <2>1. /\ at' = [at EXCEPT ![s] = "sum"] /\ UNCHANGED <<item, made>>
        /\ flushed' = [flushed EXCEPT ![s] = 0] /\ staged' = [staged EXCEPT ![s] = 0]
        /\ split \subseteq split' /\ (s \in Workers => item[s] \subseteq split')
    BY <1>3 DEF Grant
  <2>2. /\ at'[s] = "sum"
        /\ \A w \in Workers \ {s} : /\ at'[w] = at[w] /\ flushed'[w] = flushed[w]
                                    /\ staged'[w] = staged[w]
    BY <1>0, <2>1
  <2>3. \A w \in Workers : at'[w] = "idle" => flushed'[w] = 0 /\ staged'[w] = 0
    BY <2>2 DEF Staging
  <2>4. ASSUME NEW w \in Workers, NEW i \in Sheets \ split', item'[w] = {i}
        PROVE  flushed'[w] + staged'[w] = made'[w]
    <3>1. w # s
      BY <2>1, <2>4
    <3>2. QED BY <2>1, <2>2, <2>4, <3>1 DEF Staging
  <2>5. QED BY <2>3, <2>4 DEF Staging
<1>4. ASSUME NEW s \in Requests, at' = [at EXCEPT ![s] = at'[s]],
             UNCHANGED <<flushed, staged, made, item, split>>
      PROVE  Staging'
  <2>1. \A w \in Workers : at'[w] = at[w]
    BY <1>0, <1>4
  <2>2. QED BY <1>4, <2>1 DEF Staging
<1>5. ASSUME NEW s \in Requests, Ask(s) \/ Overview(s) \/ Refuse(s) \/ Covered(s) \/ Launch(s)
      PROVE  Staging'
  <2>1. PICK x : at' = [at EXCEPT ![s] = x]
    BY <1>5 DEF Ask, Overview, Refuse, Covered, Launch, Close
  <2>2. s \in Sessions
    BY DEF Sessions
  <2>3. at'[s] = x
    BY <1>0, <2>1, <2>2
  <2>4. UNCHANGED <<flushed, staged, made, item, split>>
    BY <1>5 DEF Ask, Overview, Refuse, Covered, Launch, workVars
  <2>5. QED BY <1>4, <2>1, <2>3, <2>4
<1>6. ASSUME NEW w \in Workers, Claim(w) PROVE Staging'
  <2>1. /\ at[w] = "idle" /\ \E x : x # "idle" /\ at' = [at EXCEPT ![w] = x]
        /\ \E S : item' = [item EXCEPT ![w] = S]
        /\ made' = [made EXCEPT ![w] = 0] /\ UNCHANGED <<flushed, staged, split>>
    BY <1>6 DEF Claim
  <2>2. flushed[w] = 0 /\ staged[w] = 0
    BY <2>1 DEF Staging
  <2>3. /\ at'[w] # "idle" /\ made'[w] = 0
        /\ \A v \in Workers \ {w} : /\ at'[v] = at[v] /\ made'[v] = made[v]
                                    /\ item'[v] = item[v]
    BY <1>0, <2>1
  <2>4. \A v \in Workers : at'[v] = "idle" => flushed'[v] = 0 /\ staged'[v] = 0
    BY <2>1, <2>3 DEF Staging
  <2>5. \A v \in Workers : \A i \in Sheets \ split' :
          item'[v] = {i} => flushed'[v] + staged'[v] = made'[v]
    BY <2>1, <2>2, <2>3 DEF Staging
  <2>6. QED BY <2>4, <2>5 DEF Staging
<1>7. ASSUME NEW w \in Workers, KeepRaw(w) \/ NotNormalized(w) PROVE Staging'
  <2>1. /\ \E x : x # "idle" /\ at' = [at EXCEPT ![w] = x]
        /\ UNCHANGED <<flushed, staged, made, item, split>>
    BY <1>7 DEF KeepRaw, NotNormalized, NextImage
  <2>2. QED BY <1>1, <2>1
<1>8. ASSUME NEW w \in Workers, Normalize(w) \/ Normalized(w) PROVE Staging'
  <2>1. /\ \E x : x # "idle" /\ at' = [at EXCEPT ![w] = x]
        /\ UNCHANGED <<item, split>>
    BY <1>8 DEF Normalize, Normalized, NextImage
  <2>2. \/ /\ flushed' = [flushed EXCEPT ![w] = flushed[w] + staged[w]]
           /\ staged' = [staged EXCEPT ![w] = 0] /\ made' = made
        \/ /\ flushed' = flushed /\ staged' = [staged EXCEPT ![w] = staged[w] + 1]
           /\ made' = [made EXCEPT ![w] = made[w] + 1]
    BY <1>8 DEF Normalize, Normalized
  <2>3. \A v \in Workers \ {w} : /\ at'[v] = at[v] /\ made'[v] = made[v]
                                 /\ flushed'[v] = flushed[v] /\ staged'[v] = staged[v]
    BY <1>0, <2>1, <2>2
  <2>4. /\ at'[w] # "idle"
        /\ flushed[w] + staged[w] = made[w] => flushed'[w] + staged'[w] = made'[w]
    BY <1>0, <2>1, <2>2
  <2>5. \A v \in Workers : at'[v] = "idle" => flushed'[v] = 0 /\ staged'[v] = 0
    BY <2>3, <2>4 DEF Staging
  <2>6. \A v \in Workers : \A i \in Sheets \ split' :
          item'[v] = {i} => flushed'[v] + staged'[v] = made'[v]
    BY <2>1, <2>3, <2>4 DEF Staging
  <2>7. QED BY <2>5, <2>6 DEF Staging
<1>9. ASSUME NEW w \in Workers, Complete(w) \/ Fail(w) PROVE Staging'
  <2>1. /\ \E x : at' = [at EXCEPT ![w] = x]
        /\ item' = [item EXCEPT ![w] = {}] /\ flushed' = [flushed EXCEPT ![w] = 0]
        /\ staged' = [staged EXCEPT ![w] = 0] /\ made' = [made EXCEPT ![w] = 0]
        /\ UNCHANGED split
    BY <1>9 DEF Complete, Fail, Released, Close
  <2>2. /\ flushed'[w] = 0 /\ staged'[w] = 0 /\ made'[w] = 0
        /\ \A v \in Workers \ {w} : /\ at'[v] = at[v] /\ made'[v] = made[v]
                                    /\ flushed'[v] = flushed[v] /\ staged'[v] = staged[v]
                                    /\ item'[v] = item[v]
    BY <1>0, <2>1
  <2>3. \A v \in Workers : at'[v] = "idle" => flushed'[v] = 0 /\ staged'[v] = 0
    BY <2>2 DEF Staging
  <2>4. \A v \in Workers : \A i \in Sheets \ split' :
          item'[v] = {i} => flushed'[v] + staged'[v] = made'[v]
    BY <2>1, <2>2 DEF Staging
  <2>5. QED BY <2>3, <2>4 DEF Staging
<1>10. CASE Kill
  <2>1. /\ flushed' = [s \in Sessions |-> 0] /\ staged' = [s \in Sessions |-> 0]
        /\ made' = [w \in Workers |-> 0]
    BY <1>10 DEF Kill
  <2>2. QED BY <1>0, <2>1 DEF Staging
<1>11. ASSUME Adjust \/ NextMonth \/ UNCHANGED vars PROVE Staging'
  BY <1>11 DEF Adjust, NextMonth, vars, sessionVars, workVars, Staging
<1>12. QED
  BY <1>2, <1>3, <1>5, <1>6, <1>7, <1>8, <1>9, <1>10, <1>11 DEF Next, Balance

\* A step that leaves the debits and the work they pay for.
QuietDebits ==
  Stands("enrich_item") /\ Stands("image_process") /\ UNCHANGED <<runs, entries, split>>

\* A step that touches neither the debits nor the work they pay for keeps them in line.
LEMMA QuietDebitsKeep ==
  ASSUME DebitWithWork, QuietDebits
  PROVE  DebitWithWork'
<1>1. /\ RowsOf("enrich_item")' = RowsOf("enrich_item")
      /\ RowsOf("image_process")' = RowsOf("image_process")
  BY DEF QuietDebits, Stands, RowsOf
<1>2. \A i \in Sheets : /\ Times(SheetRow(i), ledger') = Times(SheetRow(i), ledger)
                        /\ Times(ImageRow(i), ledger') = Times(ImageRow(i), ledger)
  BY RowsApart DEF QuietDebits, Stands
<1>3. QED BY <1>1, <1>2 DEF DebitWithWork, QuietDebits

\* Only a grant and a completion write debits.
LEMMA DebitsStand ==
  ASSUME Typed, [Next]_vars
  PROVE  \/ QuietDebits
         \/ \E s \in Sessions : Grant(s)
         \/ \E w \in Workers : Complete(w)
<1>1. ASSUME UNCHANGED <<ledger, runs, entries, split>> PROVE QuietDebits
  BY <1>1 DEF QuietDebits, Stands
<1>2. ASSUME NEW w \in Workers, Fail(w) PROVE QuietDebits
  <2>1. ledger' = ledger (+) EmptyBag /\ UNCHANGED <<runs, entries, split>>
    BY <1>2 DEF Fail, LeftByFailure
  <2>2. QED BY <2>1, NoRows, OtherRows DEF QuietDebits
<1>3. CASE Adjust
  <2>1. PICK c : ledger' = ledger (+) Rows(Entry("adjustment", c, 0, NoSheet), 1)
    BY <1>3 DEF Adjust
  <2>2. PICK r : r = Entry("adjustment", c, 0, NoSheet)
    OBVIOUS
  <2>3. r.kind = "adjustment" /\ IsABag(Rows(r, 1)) /\ BagToSet(Rows(r, 1)) = {r}
    BY <2>2, RowsApart, OneRow
  <2>4. Stands("enrich_item") /\ Stands("image_process")
    BY <2>1, <2>2, <2>3, OtherRows
  <2>5. QED BY <1>3, <2>4 DEF QuietDebits, Adjust, sheetVars
<1>4. ASSUME NEW s \in Sessions, GrantNotNeeded(s) \/ GrantMissing(s) \/ SumBalance(s)
      PROVE  UNCHANGED <<ledger, runs, entries, split>>
  BY <1>4 DEF GrantNotNeeded, GrantMissing, SumBalance, ledgerVars, sheetVars
<1>5. ASSUME NEW s, Ask(s) \/ Overview(s) \/ Refuse(s) \/ Covered(s) \/ Launch(s)
      PROVE  UNCHANGED <<ledger, runs, entries, split>>
  BY <1>5 DEF Ask, Overview, Refuse, Covered, Launch, ledgerVars, sheetVars
<1>6. ASSUME NEW w, Claim(w) \/ KeepRaw(w) \/ Normalize(w) \/ Normalized(w) \/ NotNormalized(w)
      PROVE  UNCHANGED <<ledger, runs, entries, split>>
  BY <1>6 DEF Claim, KeepRaw, Normalize, Normalized, NotNormalized, ledgerVars, sheetVars
<1>7. ASSUME NextMonth \/ Kill \/ UNCHANGED vars
      PROVE  UNCHANGED <<ledger, runs, entries, split>>
  BY <1>7 DEF NextMonth, Kill, vars, ledgerVars, sheetVars
<1>8. QED
  BY <1>1, <1>2, <1>3, <1>4, <1>5, <1>6, <1>7 DEF Next, Balance

\* A grant commits what its session had staged: the sheet it holds is marked.
LEMMA GrantKeepsDebits ==
  ASSUME Typed, DebitWithWork, NEW s \in Sessions, Grant(s)
  PROVE  DebitWithWork'
<1>1. /\ UNCHANGED <<runs, entries>> /\ split \subseteq split'
      /\ s \in Workers => item[s] \subseteq split'
  BY DEF Grant, sheetVars
<1>2. FreeRow(period[s]).kind = "subscription"
  BY RowsApart
<1>3. /\ \A e \in BagToSet(ledger') :
           \/ e \in BagToSet(ledger) \/ e = FreeRow(period[s])
           \/ s \in Workers /\ \E i \in Sheets : item[s] = {i} /\ e = ImageRow(i)
      /\ \A e : \/ e = FreeRow(period[s]) \/ Times(e, ledger') = Times(e, ledger)
                \/ s \in Workers /\ \E i \in Sheets : item[s] = {i} /\ e = ImageRow(i)
  BY GrantedRows
<1>4. RowsOf("enrich_item")' \subseteq {SheetRow(i) : i \in Sheets}
  BY <1>2, <1>3, RowsApart DEF DebitWithWork, RowsOf
<1>5. RowsOf("image_process")' \subseteq {ImageRow(i) : i \in Sheets}
  BY <1>2, <1>3, RowsApart DEF DebitWithWork, RowsOf
<1>6. ASSUME NEW i \in Sheets PROVE Times(SheetRow(i), ledger') = Times(SheetRow(i), ledger)
  <2>1. SheetRow(i) # FreeRow(period[s]) /\ \A k : SheetRow(i) # ImageRow(k)
    BY RowsApart
  <2>2. QED BY <1>3, <2>1
<1>7. ASSUME NEW i \in Sheets, i \notin split'
      PROVE  Times(ImageRow(i), ledger') = Times(ImageRow(i), ledger)
  <2>1. ImageRow(i) # FreeRow(period[s]) /\ \A k : ImageRow(i) = ImageRow(k) => k = i
    BY RowsApart
  <2>2. QED BY <1>1, <1>3, <1>7, <2>1
<1>8. QED BY <1>1, <1>4, <1>5, <1>6, <1>7 DEF DebitWithWork

\* A completion writes the debits of the work it commits.
LEMMA CompleteKeepsDebits ==
  ASSUME Typed, Staging, DebitWithWork, NEW w \in Workers, Complete(w)
  PROVE  DebitWithWork'
<1>1. PICK i \in item[w] : /\ ledger' = ledger (+) TransactionRows(w) (+) Debits(SheetRow(i), 1)
                           /\ runs' = [runs EXCEPT ![i] = @ + 1]
                           /\ entries' = [entries EXCEPT ![i] = @ + made[w]]
                           /\ split' = split
  BY DEF Complete
<1>2. i \in Sheets /\ item[w] = {i} /\ made[w] \in Nat
  BY DEF Typed
<1>3. /\ runs'[i] = runs[i] + 1 /\ entries'[i] = entries[i] + made[w]
      /\ \A k \in Sheets \ {i} : runs'[k] = runs[k] /\ entries'[k] = entries[k]
      /\ \A k \in Sheets : runs[k] \in Nat /\ entries[k] \in Nat
  BY <1>1, <1>2 DEF Typed
<1>4. i \notin split => flushed[w] + staged[w] = made[w]
  BY <1>2 DEF Staging
<1>5. /\ BagToSet(ledger') \subseteq BagToSet(ledger) \cup {ImageRow(i), SheetRow(i)}
      /\ Times(SheetRow(i), ledger')
           = Times(SheetRow(i), ledger) + (IF Price.enrich_item > 0 THEN 1 ELSE 0)
      /\ Times(ImageRow(i), ledger')
           = Times(ImageRow(i), ledger)
               + (IF Price.image_process > 0 THEN flushed[w] + staged[w] ELSE 0)
      /\ \A e : e # SheetRow(i) /\ e # ImageRow(i) => Times(e, ledger') = Times(e, ledger)
  BY <1>1, <1>2, CompletedRows
<1>6. RowsOf("enrich_item")' \subseteq {SheetRow(k) : k \in Sheets}
  BY <1>2, <1>5, RowsApart DEF DebitWithWork, RowsOf
<1>7. RowsOf("image_process")' \subseteq {ImageRow(k) : k \in Sheets}
  BY <1>2, <1>5, RowsApart DEF DebitWithWork, RowsOf
<1>8. ASSUME NEW k \in Sheets, k # i
      PROVE  /\ Times(SheetRow(k), ledger') = Times(SheetRow(k), ledger)
             /\ Times(ImageRow(k), ledger') = Times(ImageRow(k), ledger)
  <2>1. /\ SheetRow(k) # SheetRow(i) /\ SheetRow(k) # ImageRow(i)
        /\ ImageRow(k) # SheetRow(i) /\ ImageRow(k) # ImageRow(i)
    BY <1>8, RowsApart
  <2>2. QED BY <1>5, <2>1
<1>9. ASSUME NEW k \in Sheets
      PROVE  /\ Times(SheetRow(k), ledger') = IF Price.enrich_item > 0 THEN runs'[k] ELSE 0
             /\ k \notin split' =>
                  Times(ImageRow(k), ledger') = IF Price.image_process > 0 THEN entries'[k] ELSE 0
  <2>1. CASE k # i
    BY <1>1, <1>3, <1>8, <2>1 DEF DebitWithWork
  <2>2. CASE k = i
    <3>1. Times(SheetRow(i), ledger) = IF Price.enrich_item > 0 THEN runs[i] ELSE 0
      BY <1>2 DEF DebitWithWork
    <3>2. i \notin split =>
            Times(ImageRow(i), ledger) = IF Price.image_process > 0 THEN entries[i] ELSE 0
      BY <1>2 DEF DebitWithWork
    <3>3. QED BY <1>1, <1>2, <1>3, <1>4, <1>5, <2>2, <3>1, <3>2
  <2>3. QED BY <2>1, <2>2
<1>10. QED BY <1>6, <1>7, <1>9 DEF DebitWithWork

\* The ledger holds one debit for every completed run of a sheet and, unless a grant
\* committed its transaction half-way, one for every image committed with it.
THEOREM DebitsMatchWork == Spec => []DebitWithWork
<1>1. Init => Typed /\ Staging /\ DebitWithWork
  <2> SUFFICES ASSUME Init PROVE Typed /\ Staging /\ DebitWithWork
    OBVIOUS
  <2>1. Typed
    BY TypedInit
  <2>2. /\ \A s \in Sessions : flushed[s] = 0 /\ staged[s] = 0
        /\ \A w \in Workers : made[w] = 0 /\ w \in Sessions
        /\ \A i \in Sheets : runs[i] = 0 /\ entries[i] = 0
    BY DEF Init, Sessions
  <2>3. Staging
    BY <2>2 DEF Staging
  <2>4. PICK r : r = Entry("purchase", Opening, 0, NoSheet)
    OBVIOUS
  <2>5. BagToSet(ledger) = {r} /\ r.kind = "purchase" /\ \A e : e # r => Times(e, ledger) = 0
    BY <2>4, OneRow, RowsApart DEF Init
  <2>6. \A i : SheetRow(i) # r /\ ImageRow(i) # r
    BY <2>5, RowsApart
  <2>7. DebitWithWork
    BY <2>2, <2>5, <2>6 DEF DebitWithWork, RowsOf
  <2>8. QED BY <2>1, <2>3, <2>7
<1>2. (Typed /\ Staging /\ DebitWithWork) /\ [Next]_vars => (Typed /\ Staging /\ DebitWithWork)'
  <2> SUFFICES ASSUME Typed, Staging, DebitWithWork, [Next]_vars
               PROVE  Typed' /\ Staging' /\ DebitWithWork'
    OBVIOUS
  <2>1. Typed' /\ Staging'
    BY TypedStep, StagingStep
  <2>2. CASE QuietDebits
    BY <2>1, <2>2, QuietDebitsKeep
  <2>3. CASE \E s \in Sessions : Grant(s)
    BY <2>1, <2>3, GrantKeepsDebits
  <2>4. CASE \E w \in Workers : Complete(w)
    BY <2>1, <2>4, CompleteKeepsDebits
  <2>5. QED BY <2>2, <2>3, <2>4, DebitsStand
<1>3. QED BY <1>1, <1>2, PTL DEF Spec

-----------------------------------------------------------------------------
(* A sum over a finite set.  The fold SumOver is built on adds its terms     *)
(* in an order nobody knows; counting one coin per credit does not need one. *)

\* f[x] coins for each x of S.
Coins(f, S) == UNION {{x} \X (1..f[x]) : x \in S}

\* What f comes to over S: the coins above zero less the coins below.
Tally(f, S) == Cardinality(Coins(f, S)) - Cardinality(Coins([x \in S |-> -f[x]], S))

\* The coins of one element.
LEMMA CoinsOfOne ==
  ASSUME NEW x, NEW n \in Int
  PROVE  /\ IsFiniteSet({x} \X (1..n))
         /\ Cardinality({x} \X (1..n)) = IF n > 0 THEN n ELSE 0
<1>1. 1 \in Int /\ n \in Int
  OBVIOUS
<1>2. IsFiniteSet(1..n) /\ Cardinality(1..n) = IF 1 > n THEN 0 ELSE n - 1 + 1
  BY <1>1, FS_Interval
<1>3. IsFiniteSet({x}) /\ Cardinality({x}) = 1
  BY FS_Singleton
<1>4. /\ IsFiniteSet({x} \X (1..n))
      /\ Cardinality({x} \X (1..n)) = 1 * Cardinality(1..n)
  BY <1>2, <1>3, FS_Product
<1>5. QED BY <1>2, <1>4

\* A finite set has finitely many coins.
LEMMA CoinsFinite ==
  ASSUME NEW S, IsFiniteSet(S), NEW f, \A x \in S : f[x] \in Int
  PROVE  IsFiniteSet(Coins(f, S))
<1> DEFINE Parts == {{x} \X (1..f[x]) : x \in S}
           g == [x \in S |-> {x} \X (1..f[x])]
<1>1. g \in [S -> Parts] /\ \A t \in Parts : \E x \in S : g[x] = t
  OBVIOUS
<1>2. g \in Surjection(S, Parts)
  BY <1>1 DEF Surjection
<1>3. IsFiniteSet(Parts)
  BY <1>2, FS_Surjection
<1>4. \A t \in Parts : IsFiniteSet(t)
  BY CoinsOfOne
<1>5. QED BY <1>3, <1>4, FS_UNION DEF Coins

\* The coins of a set are those of its two halves, which share none.
LEMMA CoinsSplit ==
  ASSUME NEW S, IsFiniteSet(S), NEW f, \A x \in S : f[x] \in Int,
         NEW N \in SUBSET S
  PROVE  /\ Cardinality(Coins(f, S)) = Cardinality(Coins(f, N)) + Cardinality(Coins(f, S \ N))
         /\ Cardinality(Coins(f, N)) \in Nat /\ Cardinality(Coins(f, S \ N)) \in Nat
<1>1. IsFiniteSet(N) /\ IsFiniteSet(S \ N)
  BY FS_Subset, FS_Difference
<1>2. IsFiniteSet(Coins(f, N)) /\ IsFiniteSet(Coins(f, S \ N))
  BY <1>1, CoinsFinite
<1>3. Coins(f, S) = Coins(f, N) \cup Coins(f, S \ N)
  <2>1. ASSUME NEW p PROVE p \in Coins(f, S) <=> p \in Coins(f, N) \/ p \in Coins(f, S \ N)
    BY DEF Coins
  <2>2. QED BY <2>1
<1>4. Coins(f, N) \cap Coins(f, S \ N) = {}
  BY DEF Coins
<1>5. Cardinality({}) = 0
  BY FS_EmptySet
<1>6. Cardinality(Coins(f, N)) \in Nat /\ Cardinality(Coins(f, S \ N)) \in Nat
  BY <1>2, FS_CardinalityType
<1>7. PICK A, B : A = Coins(f, N) /\ B = Coins(f, S \ N)
  OBVIOUS
<1>8. Cardinality(A \cup B) = Cardinality(A) + Cardinality(B) - Cardinality(A \cap B)
  BY <1>2, <1>7, FS_Union
<1>9. Cardinality(A \cap B) = 0
  BY <1>4, <1>5, <1>7
<1>10. Cardinality(A \cup B) = Cardinality(A) + Cardinality(B)
  BY <1>6, <1>7, <1>8, <1>9
<1>11. QED BY <1>3, <1>6, <1>7, <1>10

\* The coins of a set depend on the values in it alone.
LEMMA CoinsSame ==
  ASSUME NEW S, NEW f, NEW g, \A x \in S : f[x] = g[x]
  PROVE  Coins(f, S) = Coins(g, S)
BY DEF Coins

\* The tally of a set is that of its two halves.
LEMMA TallySplit ==
  ASSUME NEW S, IsFiniteSet(S), NEW f, \A x \in S : f[x] \in Int,
         NEW N \in SUBSET S
  PROVE  /\ Tally(f, S) = Tally(f, N) + Tally(f, S \ N)
         /\ Tally(f, N) \in Int /\ Tally(f, S \ N) \in Int /\ Tally(f, S) \in Int
<1> DEFINE m(T) == [x \in T |-> -f[x]]
<1>1. \A x \in S : m(S)[x] \in Int
  OBVIOUS
<1>2. /\ \A x \in N : m(S)[x] = m(N)[x]
      /\ \A x \in S \ N : m(S)[x] = m(S \ N)[x]
  OBVIOUS
<1>3. PICK h : h = m(S)
  OBVIOUS
<1>4. /\ Coins(h, N) = Coins(m(N), N)
      /\ Coins(h, S \ N) = Coins(m(S \ N), S \ N)
  <2>1. PICK a, b : a = m(N) /\ b = m(S \ N)
    OBVIOUS
  <2>2. (\A x \in N : h[x] = a[x]) /\ (\A x \in S \ N : h[x] = b[x])
    BY <1>2, <1>3, <2>1
  <2>3. Coins(h, N) = Coins(a, N) /\ Coins(h, S \ N) = Coins(b, S \ N)
    BY <2>2, CoinsSame
  <2>4. QED BY <2>1, <2>3
<1>5. /\ Cardinality(Coins(h, S)) = Cardinality(Coins(h, N)) + Cardinality(Coins(h, S \ N))
      /\ Cardinality(Coins(h, N)) \in Nat /\ Cardinality(Coins(h, S \ N)) \in Nat
  BY <1>1, <1>3, CoinsSplit
<1>6. /\ Cardinality(Coins(f, S)) = Cardinality(Coins(f, N)) + Cardinality(Coins(f, S \ N))
      /\ Cardinality(Coins(f, N)) \in Nat /\ Cardinality(Coins(f, S \ N)) \in Nat
  BY CoinsSplit
<1>7. /\ Tally(f, S) = Cardinality(Coins(f, S)) - Cardinality(Coins(h, S))
      /\ Tally(f, N) = Cardinality(Coins(f, N)) - Cardinality(Coins(h, N))
      /\ Tally(f, S \ N) = Cardinality(Coins(f, S \ N)) - Cardinality(Coins(h, S \ N))
  BY <1>3, <1>4 DEF Tally
<1>8. QED BY <1>5, <1>6, <1>7

\* The tally of one element is its value.
LEMMA TallyOfOne ==
  ASSUME NEW x, NEW f, f[x] \in Int
  PROVE  Tally(f, {x}) = f[x]
<1>1. PICK h : h = [y \in {x} |-> -f[y]]
  OBVIOUS
<1>2. h[x] = -f[x] /\ h[x] \in Int
  BY <1>1
<1>3. Coins(f, {x}) = {x} \X (1..f[x]) /\ Coins(h, {x}) = {x} \X (1..h[x])
  BY DEF Coins
<1>4. /\ Cardinality(Coins(f, {x})) = IF f[x] > 0 THEN f[x] ELSE 0
      /\ Cardinality(Coins(h, {x})) = IF h[x] > 0 THEN h[x] ELSE 0
  BY <1>2, <1>3, CoinsOfOne
<1>5. Tally(f, {x}) = Cardinality(Coins(f, {x})) - Cardinality(Coins(h, {x}))
  BY <1>1 DEF Tally
<1>6. QED BY <1>2, <1>4, <1>5

\* Nothing comes to nothing.
LEMMA TallyOfNone ==
  ASSUME NEW f
  PROVE  Tally(f, {}) = 0
<1>1. PICK h : h = [x \in {} |-> -f[x]]
  OBVIOUS
<1>2. Coins(f, {}) = {} /\ Coins(h, {}) = {}
  BY DEF Coins
<1>3. Cardinality({}) = 0
  BY FS_EmptySet
<1>4. Tally(f, {}) = Cardinality(Coins(f, {})) - Cardinality(Coins(h, {}))
  BY <1>1 DEF Tally
<1>5. QED BY <1>2, <1>3, <1>4

\* The tally depends on the values in the set alone.
LEMMA TallySame ==
  ASSUME NEW S, NEW f, NEW g, \A x \in S : f[x] = g[x]
  PROVE  Tally(f, S) = Tally(g, S)
<1>1. [x \in S |-> -f[x]] = [x \in S |-> -g[x]]
  OBVIOUS
<1>2. Coins(f, S) = Coins(g, S)
  BY CoinsSame
<1>3. QED BY <1>1, <1>2 DEF Tally

\* Values below other values, none below zero, come to no more.
LEMMA TallyBelow ==
  ASSUME NEW S, IsFiniteSet(S), NEW f, NEW g,
         \A x \in S : f[x] \in Nat /\ g[x] \in Nat /\ f[x] <= g[x]
  PROVE  Tally(f, S) \in Nat /\ Tally(f, S) <= Tally(g, S)
<1>1. /\ Coins([x \in S |-> -f[x]], S) = {} /\ Coins([x \in S |-> -g[x]], S) = {}
  BY DEF Coins
<1>2. Coins(f, S) \subseteq Coins(g, S)
  BY DEF Coins
<1>3. IsFiniteSet(Coins(f, S)) /\ IsFiniteSet(Coins(g, S))
  BY CoinsFinite
<1>4. Cardinality(Coins(f, S)) <= Cardinality(Coins(g, S))
  BY <1>2, <1>3, FS_Subset
<1>5. Cardinality(Coins(f, S)) \in Nat /\ Cardinality(Coins(g, S)) \in Nat /\ Cardinality({}) = 0
  BY <1>3, FS_CardinalityType, FS_EmptySet
<1>6. QED BY <1>1, <1>4, <1>5 DEF Tally

\* Values of at most n come to at most n for each element.
LEMMA TallyBound ==
  ASSUME NEW S, IsFiniteSet(S), NEW n \in Nat, NEW f, \A x \in S : f[x] \in 0..n
  PROVE  Tally(f, S) <= n * Cardinality(S)
<1>1. Coins([x \in S |-> -f[x]], S) = {}
  BY DEF Coins
<1>2. Coins(f, S) \subseteq S \X (1..n)
  BY DEF Coins
<1>3. 1 \in Int /\ n \in Int
  OBVIOUS
<1>4. IsFiniteSet(1..n) /\ Cardinality(1..n) = n
  BY <1>3, FS_Interval
<1>5. IsFiniteSet(S \X (1..n)) /\ Cardinality(S \X (1..n)) = Cardinality(S) * n
  BY <1>4, FS_Product
<1>6. Cardinality(Coins(f, S)) <= Cardinality(S) * n /\ IsFiniteSet(Coins(f, S))
  BY <1>2, <1>5, FS_Subset
<1>7. Cardinality(Coins(f, S)) \in Nat /\ Cardinality(S) \in Nat /\ Cardinality({}) = 0
  BY <1>6, FS_CardinalityType, FS_EmptySet
<1>8. Tally(f, S) = Cardinality(Coins(f, S)) - 0
  BY <1>1, <1>7 DEF Tally
<1>9. n * Cardinality(S) = Cardinality(S) * n
  BY <1>7
<1>10. QED BY <1>6, <1>7, <1>8, <1>9

\* Values none of which is above zero come to no more than zero.
LEMMA TallyOfDebts ==
  ASSUME NEW S, IsFiniteSet(S), NEW f, \A x \in S : f[x] \in Int /\ f[x] <= 0
  PROVE  Tally(f, S) <= 0
<1>1. Coins(f, S) = {}
  BY DEF Coins
<1>2. PICK h : h = [x \in S |-> -f[x]]
  OBVIOUS
<1>3. \A x \in S : h[x] \in Int
  BY <1>2
<1>4. IsFiniteSet(Coins(h, S))
  BY <1>3, CoinsFinite
<1>5. Cardinality(Coins(h, S)) \in Nat /\ Cardinality({}) = 0
  BY <1>4, FS_CardinalityType, FS_EmptySet
<1>6. QED BY <1>1, <1>2, <1>5 DEF Tally

\* A property that holds of a finite set as soon as it holds of all its proper
\* subsets holds of every subset: a set of exceptions has no least one.
LEMMA NoLeastException ==
  ASSUME NEW S, IsFiniteSet(S), NEW Bad \in SUBSET (SUBSET S),
         \A T \in Bad : \E R \in Bad : R \subseteq T /\ R # T
  PROVE  Bad = {}
<1>1. SUBSET S = FiniteSubsetsOf(S)
  BY FS_FiniteSubsetsOfFinite
<1>2. IsWellFoundedOn(StrictSubsetOrdering(S), SUBSET S)
  BY <1>1, FS_StrictSubsetOrderingWellFounded
<1>3. SUFFICES ASSUME Bad # {} PROVE FALSE
  OBVIOUS
<1>4. PICK T0 : T0 \in Bad
  BY <1>3
<1>5. PICK T \in Bad : \A R \in Bad : ~(<<R, T>> \in StrictSubsetOrdering(S))
  BY <1>2, <1>4, WFMin
<1>6. PICK R \in Bad : R \subseteq T /\ R # T
  OBVIOUS
<1>7. <<R, T>> \in StrictSubsetOrdering(S)
  BY <1>6 DEF StrictSubsetOrdering
<1>8. QED BY <1>5, <1>7

\* it adds the value of one element of a set to what it gives for the rest.
IsFold(it, f, S) ==
  it = [s \in SUBSET S |->
          IF s = {} THEN 0
          ELSE f[CHOOSE x \in s : TRUE] + it[s \ {CHOOSE x \in s : TRUE}]]

\* Such a function is the tally, whichever element it takes.
LEMMA FoldIsTally ==
  ASSUME NEW S, IsFiniteSet(S), NEW f, \A x \in S : f[x] \in Int,
         NEW it, IsFold(it, f, S)
  PROVE  \A s \in SUBSET S : it[s] = Tally(f, s)
<1> DEFINE Bad == {s \in SUBSET S : it[s] # Tally(f, s)}
<1>1. ASSUME NEW T \in Bad PROVE \E R \in Bad : R \subseteq T /\ R # T
  <2>1. T \in SUBSET S /\ it[T] # Tally(f, T)
    OBVIOUS
  <2>2. IsFiniteSet(T) /\ \A x \in T : f[x] \in Int
    BY <2>1, FS_Subset
  <2>3. T # {}
    <3>1. SUFFICES ASSUME T = {} PROVE FALSE
      OBVIOUS
    <3>2. it[T] = 0
      BY <2>1, <3>1 DEF IsFold
    <3>3. QED BY <2>1, <3>1, <3>2, TallyOfNone
  <2>4. PICK c : c = CHOOSE x \in T : TRUE
    OBVIOUS
  <2>5. c \in T
    BY <2>3, <2>4
  <2>6. it[T] = f[c] + it[T \ {c}]
    BY <2>1, <2>3, <2>4 DEF IsFold
  <2>7. Tally(f, T) = Tally(f, {c}) + Tally(f, T \ {c}) /\ f[c] \in Int
    <3>1. {c} \in SUBSET T
      BY <2>5
    <3>2. QED BY <2>2, <2>5, <3>1, TallySplit
  <2>8. Tally(f, {c}) = f[c]
    BY <2>7, TallyOfOne
  <2>9. T \ {c} \in Bad
    BY <2>1, <2>6, <2>7, <2>8
  <2>10. QED
    <3> HIDE DEF Bad
    <3>1. QED BY <2>5, <2>9
<1>2. Bad = {}
  <2>1. Bad \in SUBSET (SUBSET S)
    OBVIOUS
  <2> HIDE DEF Bad
  <2>2. QED BY <1>1, <2>1, NoLeastException
<1>3. QED BY <1>2

\* The tally is such a function.
LEMMA TallyIsFold ==
  ASSUME NEW S, IsFiniteSet(S), NEW f, \A x \in S : f[x] \in Int
  PROVE  IsFold([s \in SUBSET S |-> Tally(f, s)], f, S)
<1>1. PICK g : g = [s \in SUBSET S |-> Tally(f, s)]
  OBVIOUS
<1>2. ASSUME NEW s \in SUBSET S
      PROVE  Tally(f, s) = IF s = {} THEN 0
               ELSE f[CHOOSE x \in s : TRUE] + g[s \ {CHOOSE x \in s : TRUE}]
  <2>1. CASE s = {}
    BY <2>1, TallyOfNone
  <2>2. CASE s # {}
    <3>1. PICK c : c = CHOOSE x \in s : TRUE
      OBVIOUS
    <3>2. c \in s /\ IsFiniteSet(s)
      BY <2>2, <3>1, FS_Subset
    <3>3. {c} \in SUBSET s /\ \A x \in s : f[x] \in Int
      BY <3>2
    <3>4. Tally(f, s) = Tally(f, {c}) + Tally(f, s \ {c}) /\ f[c] \in Int
      BY <3>2, <3>3, TallySplit
    <3>5. Tally(f, {c}) = f[c]
      BY <3>4, TallyOfOne
    <3>6. g[s \ {c}] = Tally(f, s \ {c})
      BY <1>1
    <3>7. QED BY <2>2, <3>1, <3>4, <3>5, <3>6
  <2>3. QED BY <2>1, <2>2
<1>3. IsFold(g, f, S)
  BY <1>1, <1>2 DEF IsFold
<1>4. QED BY <1>1, <1>3

\* What rows sum to, in whatever order the fold takes them.
LEMMA SumIsTally ==
  ASSUME NEW S, IsFiniteSet(S), NEW rows, NEW f,
         \A e \in S : f[e] = e.credits * Times(e, rows) /\ f[e] \in Int
  PROVE  SumOver(S, rows) = Tally(f, S)
<1> DEFINE Adds(it) == it = [s \in SUBSET S |->
             IF s = {} THEN 0
             ELSE (CHOOSE x \in s : TRUE).credits * Times(CHOOSE x \in s : TRUE, rows)
                    + it[s \ {CHOOSE x \in s : TRUE}]]
<1>1. SumOver(S, rows) = (CHOOSE it : Adds(it))[S]
  BY DEF SumOver, MapThenSumSet, MapThenFoldSet
<1>2. ASSUME NEW it PROVE IsFold(it, f, S) <=> Adds(it)
  <2>1. \A s \in SUBSET S : s # {} =>
          f[CHOOSE x \in s : TRUE]
            = (CHOOSE x \in s : TRUE).credits * Times(CHOOSE x \in s : TRUE, rows)
    OBVIOUS
  <2>2. [s \in SUBSET S |->
             IF s = {} THEN 0
             ELSE f[CHOOSE x \in s : TRUE] + it[s \ {CHOOSE x \in s : TRUE}]]
          = [s \in SUBSET S |->
             IF s = {} THEN 0
             ELSE (CHOOSE x \in s : TRUE).credits * Times(CHOOSE x \in s : TRUE, rows)
                    + it[s \ {CHOOSE x \in s : TRUE}]]
    BY <2>1
  <2>3. QED BY <2>2 DEF IsFold
<1> HIDE DEF Adds
<1>3. \E it : Adds(it)
  BY <1>2, TallyIsFold
<1>4. PICK it : it = CHOOSE k : Adds(k)
  OBVIOUS
<1>5. Adds(it)
  BY <1>3, <1>4
<1>6. IsFold(it, f, S)
  BY <1>2, <1>5
<1>7. it[S] = Tally(f, S)
  BY <1>6, FoldIsTally
<1>8. QED BY <1>1, <1>4, <1>7

-----------------------------------------------------------------------------
(* What rows are worth *)

\* Rows whose amounts can be added.
Priced(rows) ==
  IsABag(rows) /\ IsFiniteSet(BagToSet(rows)) /\ \A e \in BagToSet(rows) : e.credits \in Int

\* An amount times a count.
LEMMA Amount ==
  ASSUME NEW c \in Int, NEW a \in Nat, NEW b \in Nat
  PROVE  c * a \in Int /\ c * (a + b) = c * a + c * b /\ c * 0 = 0
OBVIOUS

\* Rows that only differ in one, by it, differ in their sum by what it is worth.
LEMMA SumWithout ==
  ASSUME NEW rows, IsABag(rows), NEW S, IsFiniteSet(S), \A e \in S : e.credits \in Int, NEW r
  PROVE  /\ SumOver(S, rows) \in Int /\ SumOver(S \ {r}, rows) \in Int
         /\ SumOver(S, rows) = SumOver(S \ {r}, rows)
                                 + (IF r \in S THEN r.credits * Times(r, rows) ELSE 0)
<1>1. \A e : Times(e, rows) \in Nat
  BY NoRows, BagSum
<1>2. PICK f : f = [e \in S |-> e.credits * Times(e, rows)]
  OBVIOUS
<1>3. \A e \in S : f[e] = e.credits * Times(e, rows) /\ f[e] \in Int
  BY <1>1, <1>2, Amount
<1>4. IsFiniteSet(S \ {r}) /\ S \ {r} \in SUBSET S
  BY FS_Difference
<1>5. SumOver(S, rows) = Tally(f, S) /\ SumOver(S \ {r}, rows) = Tally(f, S \ {r})
  BY <1>3, <1>4, SumIsTally
<1>6. Tally(f, S) \in Int
  BY <1>3, <1>4, TallySplit
<1>7. CASE r \in S
  <2>1. {r} \in SUBSET S
    BY <1>7
  <2>2. /\ Tally(f, S) = Tally(f, {r}) + Tally(f, S \ {r})
        /\ Tally(f, S \ {r}) \in Int
    BY <1>3, <2>1, TallySplit
  <2>3. Tally(f, {r}) = f[r]
    BY <1>3, <1>7, TallyOfOne
  <2>4. QED BY <1>3, <1>5, <1>6, <1>7, <2>2, <2>3
<1>8. CASE r \notin S
  <2>1. S \ {r} = S
    BY <1>8
  <2>2. \A x \in Int : x + 0 = x
    OBVIOUS
  <2>3. SumOver(S, rows) = SumOver(S, rows) + 0
    BY <1>5, <1>6, <2>2
  <2>4. (IF r \in S THEN r.credits * Times(r, rows) ELSE 0) = 0
    BY <1>8
  <2>5. QED BY <1>5, <1>6, <2>1, <2>3, <2>4
<1>9. QED BY <1>7, <1>8

\* The same rows as often are worth the same.
LEMMA SumSame ==
  ASSUME NEW A, IsABag(A), NEW B, IsABag(B), NEW S, IsFiniteSet(S),
         \A e \in S : e.credits \in Int /\ Times(e, A) = Times(e, B)
  PROVE  SumOver(S, A) = SumOver(S, B)
<1>1. \A e : Times(e, A) \in Nat /\ Times(e, B) \in Nat
  BY BagSum
<1>2. PICK f : f = [e \in S |-> e.credits * Times(e, A)]
  OBVIOUS
<1>3. \A e \in S : f[e] = e.credits * Times(e, A) /\ f[e] \in Int
  BY <1>1, <1>2, Amount
<1>4. \A e \in S : f[e] = e.credits * Times(e, B)
  BY <1>3
<1>5. QED BY <1>3, <1>4, SumIsTally

\* Sets of rows that differ in one at most, of which the second bag holds n more.
LEMMA SumMoved ==
  ASSUME NEW A, IsABag(A), NEW B, IsABag(B), NEW S, IsFiniteSet(S), NEW T, IsFiniteSet(T),
         \A e \in S \cup T : e.credits \in Int,
         NEW r, r.credits \in Int, S \ {r} = T \ {r}, \A e \in S \ {r} : Times(e, A) = Times(e, B),
         NEW n \in Nat, Times(r, B) = Times(r, A) + n,
         r \notin S => Times(r, A) = 0, r \notin T => Times(r, B) = 0
  PROVE  SumOver(T, B) = SumOver(S, A) + r.credits * n
<1>1. Times(r, A) \in Nat /\ Times(r, B) \in Nat
  BY BagSum
<1>2. /\ SumOver(S \ {r}, A) \in Int
      /\ SumOver(S, A) = SumOver(S \ {r}, A) + (IF r \in S THEN r.credits * Times(r, A) ELSE 0)
  BY SumWithout
<1>3. /\ SumOver(T \ {r}, B) \in Int
      /\ SumOver(T, B) = SumOver(T \ {r}, B) + (IF r \in T THEN r.credits * Times(r, B) ELSE 0)
  BY SumWithout
<1>4. SumOver(S \ {r}, A) = SumOver(T \ {r}, B)
  <2>1. IsFiniteSet(S \ {r})
    BY FS_Difference
  <2>2. QED BY <2>1, SumSame
<1>5. PICK c, a, b, x : /\ c = r.credits /\ a = Times(r, A) /\ b = Times(r, B)
                        /\ x = SumOver(S \ {r}, A)
  OBVIOUS
<1>6. /\ c * a \in Int /\ c * n \in Int /\ c * b = c * a + c * n /\ c * 0 = 0
  BY <1>1, <1>5, Amount
<1>7. SumOver(S, A) = x + c * a
  BY <1>2, <1>5, <1>6
<1>8. SumOver(T, B) = x + c * b
  BY <1>3, <1>4, <1>5, <1>6
<1>9. QED BY <1>2, <1>5, <1>6, <1>7, <1>8

\* The rows the bound is about: all but the debits no look holds back.
Held(rows) == {e \in BagToSet(rows) : e.credits >= 0 \/ e.kind = "image_process"}
Standing(rows) == SumOver(Held(rows), rows)

\* Some copies of one row come to a ledger.
LEMMA RowsAdded ==
  ASSUME NEW A, Priced(A), NEW D, IsABag(D), NEW r, r.credits \in Int,
         BagToSet(D) \subseteq {r}, \A e : e # r => Times(e, D) = 0,
         NEW n \in Nat, Times(r, D) = n
  PROVE  /\ Priced(A (+) D)
         /\ SumOf(A (+) D) = SumOf(A) + r.credits * n
         /\ Standing(A (+) D) = Standing(A)
              + (IF r.credits >= 0 \/ r.kind = "image_process" THEN r.credits * n ELSE 0)
<1>1. PICK B : B = A (+) D
  OBVIOUS
<1>2. PICK S, T : S = BagToSet(A) /\ T = BagToSet(B)
  OBVIOUS
<1>3. /\ IsABag(A) /\ IsABag(B) /\ T = S \cup BagToSet(D)
      /\ \A e : Times(e, B) = Times(e, A) + Times(e, D)
      /\ \A e : Times(e, A) \in Nat
  BY <1>1, <1>2, BagSum DEF Priced
<1>4. /\ IsFiniteSet(S) /\ \A e \in S : e.credits \in Int
  BY <1>2 DEF Priced
<1>5. IsFiniteSet(T)
  <2>1. IsFiniteSet(S \cup {r})
    BY <1>4, FS_AddElement
  <2>2. T \in SUBSET (S \cup {r})
    BY <1>3
  <2>3. QED BY <2>1, <2>2, FS_Subset
<1>6. S \ {r} = T \ {r} /\ (\A e \in T : e.credits \in Int) /\ \A e : e # r => Times(e, A) = Times(e, B)
  BY <1>3, <1>4
<1>7. Times(r, B) = Times(r, A) + n
  BY <1>3
<1>8. (r \notin S => Times(r, A) = 0) /\ (r \notin T => Times(r, B) = 0)
  BY <1>2 DEF Times, BagIn
<1>9. Priced(B)
  BY <1>2, <1>3, <1>5, <1>6 DEF Priced
<1>10. SumOver(T, B) = SumOver(S, A) + r.credits * n
  BY <1>3, <1>4, <1>5, <1>6, <1>7, <1>8, SumMoved
<1>11. PICK H, K : H = Held(A) /\ K = Held(B)
  OBVIOUS
<1>12. /\ H \subseteq S /\ K \subseteq T /\ H \ {r} = K \ {r}
  BY <1>2, <1>6, <1>11 DEF Held
<1>13. IsFiniteSet(H) /\ IsFiniteSet(K)
  BY <1>4, <1>5, <1>12, FS_Subset
<1>14. CASE r.credits >= 0 \/ r.kind = "image_process"
  <2>1. (r \notin H => Times(r, A) = 0) /\ (r \notin K => Times(r, B) = 0)
    BY <1>2, <1>8, <1>11, <1>14 DEF Held
  <2>2. SumOver(K, B) = SumOver(H, A) + r.credits * n
    BY <1>3, <1>4, <1>6, <1>7, <1>12, <1>13, <2>1, SumMoved
  <2>3. QED BY <1>1, <1>2, <1>9, <1>10, <1>11, <1>14, <2>2 DEF Standing, SumOf
<1>15. CASE ~(r.credits >= 0 \/ r.kind = "image_process")
  <2>1. r \notin H /\ r \notin K
    BY <1>11, <1>15 DEF Held
  <2>2. H = K
    BY <1>12, <2>1
  <2>3. SumOver(K, B) = SumOver(H, A)
    BY <1>3, <1>4, <1>6, <1>12, <1>13, <2>1, <2>2, SumSame
  <2>4. SumOver(H, A) \in Int
    BY <1>3, <1>4, <1>12, <1>13, SumWithout
  <2>5. Standing(A (+) D) = Standing(A) + 0
    BY <1>1, <1>11, <2>3, <2>4 DEF Standing
  <2>6. QED BY <1>1, <1>2, <1>9, <1>10, <1>15, <2>5 DEF SumOf
<1>16. QED BY <1>14, <1>15

\* The sum of the ledger is what stands less what is unguarded, which is no credit.
LEMMA SumStands ==
  ASSUME Priced(ledger)
  PROVE  /\ Standing(ledger) \in Int /\ Unguarded \in Int /\ SumOf(ledger) \in Int
         /\ SumOf(ledger) = Standing(ledger) - Unguarded
         /\ SumOf(ledger) <= Standing(ledger)
<1>1. PICK rows : rows = ledger
  OBVIOUS
<1>2. PICK S : S = BagToSet(rows)
  OBVIOUS
<1>3. PICK H, N : /\ H = {e \in S : e.credits >= 0 \/ e.kind = "image_process"}
                  /\ N = {e \in S : e.credits < 0 /\ e.kind # "image_process"}
  OBVIOUS
<1>4. IsABag(rows) /\ IsFiniteSet(S) /\ \A e \in S : e.credits \in Int
  BY <1>1, <1>2 DEF Priced
<1>5. N \in SUBSET S /\ H = S \ N
  BY <1>3, <1>4
<1>6. IsFiniteSet(N) /\ IsFiniteSet(H)
  BY <1>4, <1>5, FS_Subset, FS_Difference
<1>7. PICK f : f = [e \in S |-> e.credits * Times(e, rows)]
  OBVIOUS
<1>8. \A e : Times(e, rows) \in Nat
  BY <1>4, BagSum
<1>9. \A e \in S : f[e] = e.credits * Times(e, rows) /\ f[e] \in Int
  BY <1>4, <1>7, <1>8, Amount
<1>10. /\ SumOver(S, rows) = Tally(f, S) /\ SumOver(N, rows) = Tally(f, N)
       /\ SumOver(H, rows) = Tally(f, H)
  BY <1>4, <1>5, <1>6, <1>9, SumIsTally
<1>11. /\ Tally(f, S) = Tally(f, N) + Tally(f, H)
       /\ Tally(f, N) \in Int /\ Tally(f, H) \in Int /\ Tally(f, S) \in Int
  BY <1>4, <1>5, <1>9, TallySplit
<1>12. Tally(f, N) <= 0
  <2>1. \A e \in N : f[e] \in Int /\ f[e] <= 0
    <3>1. \A c \in Int, t \in Nat : c < 0 => c * t <= 0
      OBVIOUS
    <3>2. QED BY <1>3, <1>4, <1>8, <1>9, <3>1
  <2>2. QED BY <1>6, <2>1, TallyOfDebts
<1>13. /\ SumOf(ledger) = SumOver(S, rows) /\ Standing(ledger) = SumOver(H, rows)
       /\ Unguarded = -SumOver(N, rows)
  BY <1>1, <1>2, <1>3 DEF SumOf, Standing, Held, Unguarded
<1>14. QED BY <1>10, <1>11, <1>12, <1>13

-----------------------------------------------------------------------------
(* What the workers may still debit *)

\* The points of the loop over the images of a sheet.
InLoop == {"balance", "grant", "sum", "decide", "provider"}

\* How far a worker is with its images: it has debited fewer than it has come to.
AtWork(w) ==
  /\ staged[w] <= 1 /\ flushed[w] + staged[w] <= Images
  /\ at[w] \in InLoop => image[w] \in 1..Images /\ flushed[w] + staged[w] < image[w]
  /\ at[w] = "provider" => staged[w] = 0
  /\ IF at[w] = "idle" THEN flushed[w] = 0 /\ staged[w] = 0 ELSE item[w] # {}

Working ==
  /\ image \in [Workers -> Nat] /\ seen \in [Sessions -> Int]
  /\ \A w \in Workers : AtWork(w)

\* A worker that has seen enough for one more image, and has not staged its debit.
Paying(w) == at[w] = "provider" \/ (at[w] = "decide" /\ seen[w] >= Price.image_process)

\* The images a worker may add to the ledger without another look at the balance.
Charged(w) == flushed[w] + staged[w] + (IF Paying(w) THEN 1 ELSE 0)
Charges == [w \in Workers |-> Charged(w)]

\* The overdraft the images can reach, and what makes the bound inductive: what the
\* workers may still add is covered as well.
Room == Price.image_process * (1 + Images * (Cardinality(Workers) - 1))
Covering ==
  /\ Priced(ledger)
  /\ Standing(ledger) + Room >= Price.image_process * Tally(Charges, Workers)

\* A step that leaves a worker where it was.
Rests(w) ==
  /\ at'[w] = at[w] /\ seen'[w] = seen[w] /\ image'[w] = image[w]
  /\ flushed'[w] = flushed[w] /\ staged'[w] = staged[w] /\ item'[w] = item[w]

LEMMA Rested ==
  ASSUME NEW w \in Workers, Rests(w)
  PROVE  (AtWork(w) => AtWork(w)') /\ Charged(w)' = Charged(w)
BY DEF Rests, AtWork, Charged, Paying

\* A worker that is not done with its images may add one for each at most.
LEMMA ChargedBound ==
  ASSUME Typed, Working, NEW w \in Workers
  PROVE  Charged(w) \in 0..Images
<1>1. flushed[w] \in Nat /\ staged[w] \in Nat /\ Images \in Nat
  BY LedgerAssumption DEF Typed, Sessions, LedgerAssumption
<1>2. AtWork(w)
  BY DEF Working
<1>3. CASE Paying(w)
  <2>1. flushed[w] + staged[w] < image[w] /\ image[w] \in 1..Images
    BY <1>2, <1>3 DEF AtWork, Paying, InLoop
  <2>2. QED BY <1>1, <1>3, <2>1 DEF Charged
<1>4. CASE ~Paying(w)
  BY <1>1, <1>2, <1>4 DEF Charged, AtWork
<1>5. QED BY <1>3, <1>4

\* A session's step leaves the other workers where they were.
LEMMA OthersRest ==
  ASSUME Typed, Working, NEW s \in Sessions,
         \/ Balance(s)
         \/ s \in Requests /\ (Ask(s) \/ Overview(s) \/ Refuse(s) \/ Covered(s) \/ Launch(s))
         \/ s \in Workers /\ \/ Claim(s) \/ KeepRaw(s) \/ Normalize(s) \/ Normalized(s)
                             \/ NotNormalized(s) \/ Complete(s) \/ Fail(s)
  PROVE  \A w \in Workers \ {s} : Rests(w)
<1>0. /\ DOMAIN at = Sessions /\ DOMAIN seen = Sessions /\ DOMAIN image = Workers
      /\ DOMAIN flushed = Sessions /\ DOMAIN staged = Sessions /\ DOMAIN item = Workers
      /\ \A w \in Workers : w \in Sessions
  BY DEF Typed, Working, Sessions
<1>1. ASSUME \E x : at' = [at EXCEPT ![s] = x],
             \/ seen' = seen \/ \E x : seen' = [seen EXCEPT ![s] = x],
             \/ image' = image \/ \E x : image' = [image EXCEPT ![s] = x],
             \/ flushed' = flushed \/ \E x : flushed' = [flushed EXCEPT ![s] = x],
             \/ staged' = staged \/ \E x : staged' = [staged EXCEPT ![s] = x],
             \/ item' = item \/ \E x : item' = [item EXCEPT ![s] = x]
      PROVE  \A w \in Workers \ {s} : Rests(w)
  <2> SUFFICES ASSUME NEW w \in Workers \ {s} PROVE Rests(w)
    OBVIOUS
  <2>1. at'[w] = at[w] /\ seen'[w] = seen[w] /\ image'[w] = image[w]
    BY <1>0, <1>1
  <2>2. flushed'[w] = flushed[w] /\ staged'[w] = staged[w] /\ item'[w] = item[w]
    BY <1>0, <1>1
  <2>3. QED BY <2>1, <2>2 DEF Rests
<1>2. CASE Balance(s)
  <2>1. CASE GrantNotNeeded(s) \/ GrantMissing(s)
    BY <1>1, <2>1 DEF GrantNotNeeded, GrantMissing, workVars
  <2>2. CASE Grant(s)
    BY <1>1, <2>2 DEF Grant
  <2>3. CASE SumBalance(s)
    BY <1>1, <2>3 DEF SumBalance, workVars
  <2>4. QED BY <1>2, <2>1, <2>2, <2>3 DEF Balance
<1>3. CASE s \in Requests /\ (Ask(s) \/ Covered(s))
  BY <1>1, <1>3 DEF Ask, Covered, workVars
<1>4. CASE s \in Requests /\ (Overview(s) \/ Refuse(s) \/ Launch(s))
  BY <1>1, <1>4 DEF Overview, Refuse, Launch, Close, workVars
<1>5. CASE s \in Workers /\ Claim(s)
  <2>1. \E x : item' = [item EXCEPT ![s] = x]
    BY <1>5 DEF Claim
  <2>2. QED BY <1>1, <1>5, <2>1 DEF Claim
<1>6. CASE s \in Workers /\ (KeepRaw(s) \/ Normalize(s))
  BY <1>1, <1>6 DEF KeepRaw, Normalize, NextImage
<1>7. CASE s \in Workers /\ (Normalized(s) \/ NotNormalized(s))
  BY <1>1, <1>7 DEF Normalized, NotNormalized, NextImage
<1>8. CASE s \in Workers /\ (Complete(s) \/ Fail(s))
  <2>1. Released(s)
    BY <1>8 DEF Complete, Fail
  <2>2. QED BY <1>1, <2>1 DEF Released, Close
<1>9. QED BY <1>2, <1>3, <1>4, <1>5, <1>6, <1>7, <1>8

\* A look at the balance up to the sum asks for nothing.
LEMMA BeforeTheSum ==
  ASSUME Typed, Working, NEW w \in Workers, GrantNotNeeded(w) \/ GrantMissing(w)
  PROVE  AtWork(w)' /\ Charged(w)' = Charged(w)
<1>1. w \in Sessions /\ DOMAIN at = Sessions
  BY DEF Typed, Sessions
<1>2. /\ at[w] = "balance" /\ at'[w] \in {"sum", "grant"}
      /\ UNCHANGED <<flushed, staged, image, item>>
  BY <1>1 DEF GrantNotNeeded, GrantMissing, workVars
<1>3. AtWork(w)
  BY DEF Working
<1>4. AtWork(w)'
  BY <1>2, <1>3 DEF AtWork, InLoop
<1>5. QED BY <1>2, <1>4 DEF Charged, Paying

\* The grant commits what the worker had, and leaves it with nothing.
LEMMA GrantEmpties ==
  ASSUME Typed, Working, NEW w \in Workers, Grant(w)
  PROVE  /\ AtWork(w)' /\ Charged(w)' = 0 /\ Charged(w) = flushed[w] + staged[w]
         /\ item[w] # {}
<1>1. /\ w \in Sessions /\ DOMAIN at = Sessions /\ DOMAIN flushed = Sessions
      /\ DOMAIN staged = Sessions /\ flushed[w] \in Nat /\ staged[w] \in Nat
  BY DEF Typed, Sessions
<1>2. /\ at[w] = "grant" /\ at'[w] = "sum" /\ flushed'[w] = 0 /\ staged'[w] = 0
      /\ UNCHANGED <<image, item>>
  BY <1>1 DEF Grant
<1>3. AtWork(w)
  BY DEF Working
<1>4. AtWork(w)' /\ item[w] # {}
  BY <1>1, <1>2, <1>3, LedgerAssumption DEF AtWork, InLoop, LedgerAssumption
<1>5. QED BY <1>1, <1>2, <1>4 DEF Charged, Paying

\* The sum of the balance lets the worker pay for one image more, if it covers it.
LEMMA SumLooks ==
  ASSUME Typed, Working, NEW w \in Workers, SumBalance(w)
  PROVE  /\ AtWork(w)' /\ item[w] # {} /\ staged[w] <= 1
         /\ Charged(w)' <= flushed[w] + staged[w] + 1
         /\ ~(seen'[w] >= Price.image_process) => Charged(w)' = Charged(w)
<1>1. /\ w \in Sessions /\ DOMAIN at = Sessions /\ flushed[w] \in Nat /\ staged[w] \in Nat
      /\ Price.image_process \in Nat
  BY LedgerAssumption DEF Typed, Sessions, LedgerAssumption
<1>2. /\ at[w] = "sum" /\ at'[w] = "decide" /\ UNCHANGED <<flushed, staged, image, item>>
  BY <1>1 DEF SumBalance, workVars
<1>3. AtWork(w)
  BY DEF Working
<1>4. AtWork(w)' /\ item[w] # {} /\ staged[w] <= 1
  BY <1>2, <1>3 DEF AtWork, InLoop
<1>5. /\ Charged(w) = flushed[w] + staged[w]
      /\ Charged(w)' = flushed[w] + staged[w]
                         + (IF seen'[w] >= Price.image_process THEN 1 ELSE 0)
  BY <1>1, <1>2 DEF Charged, Paying
<1>6. CASE seen'[w] >= Price.image_process
  BY <1>1, <1>4, <1>5, <1>6
<1>7. CASE ~(seen'[w] >= Price.image_process)
  BY <1>1, <1>4, <1>5, <1>7
<1>8. QED BY <1>6, <1>7

\* A claimed sheet starts with nothing debited.
LEMMA ClaimStarts ==
  ASSUME Typed, Working, NEW w \in Workers, Claim(w)
  PROVE  AtWork(w)' /\ Charged(w)' = Charged(w)
<1>1. /\ w \in Sessions /\ DOMAIN at = Sessions /\ Images \in Nat
      /\ DOMAIN image = Workers /\ DOMAIN item = Workers
  BY LedgerAssumption DEF Typed, Working, Sessions, LedgerAssumption
<1>2. PICK i \in Sheets : item' = [item EXCEPT ![w] = {i}]
  BY DEF Claim
<1>3. /\ at[w] = "idle" /\ image'[w] = 1 /\ item'[w] # {} /\ UNCHANGED <<flushed, staged>>
      /\ at'[w] = IF Images = 0 THEN "complete" ELSE "balance"
  BY <1>1, <1>2 DEF Claim
<1>4. flushed[w] = 0 /\ staged[w] = 0
  BY <1>3 DEF Working, AtWork
<1>5. AtWork(w)'
  <2>1. CASE Images = 0
    BY <1>1, <1>3, <1>4, <2>1 DEF AtWork, InLoop
  <2>2. CASE Images # 0
    BY <1>1, <1>3, <1>4, <2>2 DEF AtWork, InLoop
  <2>3. QED BY <2>1, <2>2
<1>6. QED BY <1>3, <1>4, <1>5 DEF Charged, Paying

\* The loop over the images debits no more than the look allowed.
LEMMA ImageStep ==
  ASSUME Typed, Working, NEW w \in Workers,
         KeepRaw(w) \/ Normalize(w) \/ Normalized(w) \/ NotNormalized(w)
  PROVE  AtWork(w)' /\ Charged(w)' <= Charged(w)
<1>1. /\ w \in Sessions /\ DOMAIN at = Sessions /\ Images \in Nat
      /\ DOMAIN image = Workers /\ DOMAIN flushed = Sessions /\ DOMAIN staged = Sessions
      /\ flushed[w] \in Nat /\ staged[w] \in Nat /\ image[w] \in Nat
  BY LedgerAssumption DEF Typed, Working, Sessions, LedgerAssumption
<1>2. /\ staged[w] <= 1 /\ flushed[w] + staged[w] <= Images
      /\ at[w] = "provider" => staged[w] = 0
  BY DEF Working, AtWork
<1>3. ASSUME at[w] \in InLoop, at[w] # "idle"
      PROVE  image[w] \in 1..Images /\ flushed[w] + staged[w] < image[w] /\ item[w] # {}
  BY <1>3 DEF Working, AtWork
<1>4. UNCHANGED <<seen, item>>
  BY DEF KeepRaw, Normalize, Normalized, NotNormalized
<1>5. ASSUME NextImage(w)
      PROVE  /\ image'[w] = image[w] + 1
             /\ at'[w] = IF image[w] = Images THEN "complete" ELSE "balance"
  BY <1>1, <1>5 DEF NextImage
<1>6. CASE KeepRaw(w)
  <2>1. /\ at[w] = "decide" /\ ~Affordable(w) /\ UNCHANGED <<flushed, staged>> /\ NextImage(w)
    BY <1>6 DEF KeepRaw
  <2>2. /\ image[w] \in 1..Images /\ flushed[w] + staged[w] < image[w] /\ item[w] # {}
    BY <1>3, <2>1 DEF InLoop
  <2>3. AtWork(w)'
    BY <1>1, <1>2, <1>4, <1>5, <2>1, <2>2 DEF AtWork, InLoop
  <2>4. Charged(w)' = flushed[w] + staged[w] /\ Charged(w) = flushed[w] + staged[w]
    BY <1>1, <1>5, <2>1 DEF Charged, Paying, Affordable
  <2>5. QED BY <1>1, <2>3, <2>4
<1>7. CASE Normalize(w)
  <2>1. /\ at[w] = "decide" /\ Affordable(w) /\ at'[w] = "provider" /\ UNCHANGED image
        /\ flushed'[w] = flushed[w] + staged[w] /\ staged'[w] = 0
    BY <1>1, <1>7 DEF Normalize
  <2>2. /\ image[w] \in 1..Images /\ flushed[w] + staged[w] < image[w] /\ item[w] # {}
    BY <1>3, <2>1 DEF InLoop
  <2>3. AtWork(w)'
    BY <1>1, <1>2, <1>4, <2>1, <2>2 DEF AtWork, InLoop
  <2>4. Charged(w)' = flushed[w] + staged[w] + 1 /\ Charged(w) = flushed[w] + staged[w] + 1
    BY <1>1, <2>1 DEF Charged, Paying, Affordable
  <2>5. QED BY <1>1, <2>3, <2>4
<1>8. CASE Normalized(w) \/ NotNormalized(w)
  <2>1. /\ at[w] = "provider" /\ UNCHANGED flushed /\ NextImage(w)
        /\ staged'[w] \in {staged[w], staged[w] + 1}
    BY <1>1, <1>8 DEF Normalized, NotNormalized
  <2>2. /\ image[w] \in 1..Images /\ flushed[w] + staged[w] < image[w] /\ item[w] # {}
        /\ staged[w] = 0
    BY <1>2, <1>3, <2>1 DEF InLoop
  <2>3. flushed[w] + staged'[w] < image[w] + 1 /\ flushed[w] + staged'[w] <= Images
    BY <1>1, <2>1, <2>2
  <2>4. AtWork(w)'
    BY <1>1, <1>4, <1>5, <2>1, <2>2, <2>3 DEF AtWork, InLoop
  <2>5. Charged(w)' = flushed[w] + staged'[w] /\ Charged(w) = flushed[w] + staged[w] + 1
    BY <1>1, <1>5, <2>1 DEF Charged, Paying
  <2>6. QED BY <1>1, <2>1, <2>4, <2>5
<1>9. QED BY <1>6, <1>7, <1>8

\* A worker that is done with its sheet has nothing left to debit.
LEMMA ReleaseEmpties ==
  ASSUME Typed, Working, NEW w \in Workers, Complete(w) \/ Fail(w)
  PROVE  /\ AtWork(w)' /\ Charged(w)' = 0
         /\ at[w] = "complete" => Charged(w) = flushed[w] + staged[w]
<1>1. /\ w \in Sessions /\ DOMAIN at = Sessions /\ DOMAIN flushed = Sessions
      /\ DOMAIN staged = Sessions /\ flushed[w] \in Nat /\ staged[w] \in Nat /\ Images \in Nat
  BY LedgerAssumption DEF Typed, Sessions, LedgerAssumption
<1>2. Released(w)
  BY DEF Complete, Fail
<1>3. at'[w] = "idle" /\ flushed'[w] = 0 /\ staged'[w] = 0
  BY <1>1, <1>2 DEF Released, Close
<1>4. AtWork(w)'
  BY <1>1, <1>3 DEF AtWork, InLoop
<1>5. QED BY <1>1, <1>3, <1>4 DEF Charged, Paying

\* Every worker stays where its code can be.
LEMMA AtWorkStep ==
  ASSUME Typed, Working, [Next]_vars, NEW w \in Workers
  PROVE  AtWork(w)'
<1>1. w \in Sessions /\ w \notin Requests /\ AtWork(w)
  BY LedgerAssumption DEF Working, Sessions, LedgerAssumption
<1>2. ASSUME NEW s \in Sessions, s # w,
             \/ Balance(s)
             \/ s \in Requests /\ (Ask(s) \/ Overview(s) \/ Refuse(s) \/ Covered(s) \/ Launch(s))
             \/ s \in Workers /\ \/ Claim(s) \/ KeepRaw(s) \/ Normalize(s) \/ Normalized(s)
                                 \/ NotNormalized(s) \/ Complete(s) \/ Fail(s)
      PROVE  AtWork(w)'
  <2>1. Rests(w)
    BY <1>2, OthersRest
  <2>2. QED BY <1>1, <2>1, Rested
<1>3. CASE Balance(w)
  BY <1>3, BeforeTheSum, GrantEmpties, SumLooks DEF Balance
<1>4. CASE \/ Claim(w) \/ KeepRaw(w) \/ Normalize(w) \/ Normalized(w)
           \/ NotNormalized(w) \/ Complete(w) \/ Fail(w)
  BY <1>4, ClaimStarts, ImageStep, ReleaseEmpties
<1>5. CASE Adjust \/ NextMonth \/ UNCHANGED vars
  <2>1. Rests(w)
    BY <1>5 DEF Adjust, NextMonth, vars, sessionVars, workVars, Rests
  <2>2. QED BY <1>1, <2>1, Rested
<1>6. CASE Kill
  <2>1. at'[w] = "idle" /\ flushed'[w] = 0 /\ staged'[w] = 0
    BY <1>1, <1>6 DEF Kill
  <2>2. QED BY <2>1, LedgerAssumption DEF AtWork, InLoop, LedgerAssumption
<1>7. ASSUME NEW s \in Requests,
             Ask(s) \/ Overview(s) \/ Refuse(s) \/ Covered(s) \/ Launch(s)
      PROVE  AtWork(w)'
  BY <1>1, <1>2, <1>7 DEF Sessions
<1>8. ASSUME NEW s \in Workers,
             \/ Claim(s) \/ KeepRaw(s) \/ Normalize(s) \/ Normalized(s)
             \/ NotNormalized(s) \/ Complete(s) \/ Fail(s)
      PROVE  AtWork(w)'
  BY <1>2, <1>4, <1>8 DEF Sessions
<1>9. QED BY <1>2, <1>3, <1>5, <1>6, <1>7, <1>8 DEF Next

\* What a ledger sums to, and what is held of it, are whole numbers of credits.
LEMMA StandingTyped ==
  ASSUME NEW A, Priced(A)
  PROVE  Standing(A) \in Int /\ SumOf(A) \in Int
<1>1. IsABag(A) /\ IsFiniteSet(BagToSet(A)) /\ \A e \in BagToSet(A) : e.credits \in Int
  BY DEF Priced
<1>2. Held(A) \in SUBSET BagToSet(A)
  BY DEF Held
<1>3. IsFiniteSet(Held(A))
  BY <1>1, <1>2, FS_Subset
<1>4. QED BY <1>1, <1>2, <1>3, SumWithout DEF Standing, SumOf

\* What a session has in its transaction comes to the ledger at the price of its images.
LEMMA OwnedAdded ==
  ASSUME Typed, NEW s \in Sessions, NEW n \in Nat, NEW A, Priced(A)
  PROVE  \E k \in {0, n} :
           /\ Priced(A (+) OwnRows(s, n))
           /\ SumOf(A (+) OwnRows(s, n)) = SumOf(A) - Price.image_process * k
           /\ Standing(A (+) OwnRows(s, n)) = Standing(A) - Price.image_process * k
           /\ s \notin Workers => k = 0
           /\ s \in Workers /\ item[s] # {} => k = n
<1>0. SumOf(A) \in Int /\ Standing(A) \in Int
  BY StandingTyped
<1>1. PICK D : D = OwnRows(s, n)
  OBVIOUS
<1>2. IsABag(D)
  BY <1>1, OwnedRows
<1>3. PICK p : p = Price.image_process
  OBVIOUS
<1>4. p \in Nat
  BY <1>3, LedgerAssumption DEF LedgerAssumption
<1>5. CASE \E i \in Sheets :
             /\ s \in Workers /\ item[s] = {i} /\ BagToSet(D) \subseteq {ImageRow(i)}
             /\ Times(ImageRow(i), D) = IF Price.image_process > 0 THEN n ELSE 0
             /\ \A e : e # ImageRow(i) => Times(e, D) = 0
  <2>1. PICK i \in Sheets :
             /\ s \in Workers /\ item[s] = {i} /\ BagToSet(D) \subseteq {ImageRow(i)}
             /\ Times(ImageRow(i), D) = IF Price.image_process > 0 THEN n ELSE 0
             /\ \A e : e # ImageRow(i) => Times(e, D) = 0
    BY <1>5
  <2>2. PICK r : r = ImageRow(i)
    OBVIOUS
  <2>3. r.credits = -p /\ r.credits \in Int /\ r.kind = "image_process"
    BY <1>3, <1>4, <2>2, RowsApart
  <2>4. PICK m \in {0, n} : m = IF p > 0 THEN n ELSE 0
    OBVIOUS
  <2>5. Times(r, D) = m /\ m \in Nat /\ BagToSet(D) \subseteq {r} /\ \A e : e # r => Times(e, D) = 0
    BY <1>3, <2>1, <2>2, <2>4
  <2>6. /\ Priced(A (+) D)
        /\ SumOf(A (+) D) = SumOf(A) + r.credits * m
        /\ Standing(A (+) D) = Standing(A) + r.credits * m
    BY <1>2, <2>3, <2>5, RowsAdded
  <2>7. r.credits * m = -(p * n) /\ p * n \in Int
    <3>1. CASE p > 0
      <4>1. m = n /\ r.credits = -p
        BY <2>3, <2>4, <3>1
      <4>2. \A x \in Nat, y \in Nat : (-x) * y = -(x * y) /\ x * y \in Int
        OBVIOUS
      <4>3. QED BY <1>4, <4>1, <4>2
    <3>2. CASE p = 0
      BY <1>4, <2>3, <2>4, <3>2
    <3>3. QED BY <1>4, <3>1, <3>2
  <2>8. /\ SumOf(A (+) D) = SumOf(A) - p * n
        /\ Standing(A (+) D) = Standing(A) - p * n
    BY <1>0, <2>6, <2>7
  <2>9. QED BY <1>1, <1>3, <2>1, <2>6, <2>8
<1>6. CASE /\ BagToSet(D) = {} /\ (\A e : Times(e, D) = 0)
           /\ ~(s \in Workers /\ item[s] # {})
  <2>1. PICK r : r = Entry("adjustment", 0, 0, NoSheet)
    OBVIOUS
  <2>2. r.credits = 0 /\ r.credits \in Int /\ r.kind = "adjustment"
    BY <2>1 DEF Entry
  <2>3. /\ Priced(A (+) D)
        /\ SumOf(A (+) D) = SumOf(A) + r.credits * 0
        /\ Standing(A (+) D) = Standing(A) + r.credits * 0
    BY <1>2, <1>6, <2>2, RowsAdded
  <2>4. r.credits * 0 = 0 /\ p * 0 = 0
    BY <1>4, <2>2
  <2>5. SumOf(A (+) D) = SumOf(A) - p * 0 /\ Standing(A (+) D) = Standing(A) - p * 0
    BY <1>0, <2>3, <2>4
  <2>6. QED BY <1>1, <1>3, <1>6, <2>3, <2>5
<1>7. QED BY <1>1, <1>5, <1>6, OwnedRows

-----------------------------------------------------------------------------
(* The bound on the overdraft *)

\* Room for M images, of which k are debited now, has room for the rest.
LEMMA RoomLeft ==
  ASSUME NEW p \in Nat, NEW M \in Nat, NEW N \in Nat, NEW k \in Nat, N + k <= M,
         NEW x \in Int, NEW y \in Int, NEW room \in Int, x + room >= p * M, y >= x - p * k
  PROVE  y + room >= p * N
<1>1. PICK d \in Nat : M = N + k + d
  <2>1. M - N - k \in Nat /\ M = N + k + (M - N - k)
    OBVIOUS
  <2>2. QED BY <2>1
<1>2. p * M = p * N + p * k + p * d /\ p * N \in Int /\ p * k \in Int
  <2>1. \A a \in Nat, b \in Nat, c \in Nat : p * (a + b + c) = p * a + p * b + p * c
    OBVIOUS
  <2>2. QED BY <1>1, <2>1
<1>3. p * d \in Nat
  OBVIOUS
<1>4. QED BY <1>2, <1>3

\* The constants of the bound.
LEMMA RoomTyped ==
  /\ IsFiniteSet(Workers) /\ Cardinality(Workers) \in Nat /\ Cardinality(Workers) >= 1
  /\ Images \in Nat /\ Price.image_process \in Nat
  /\ Images * (Cardinality(Workers) - 1) \in Nat /\ Room \in Nat
<1>1. /\ IsFiniteSet(Workers) /\ Workers # {} /\ Images \in Nat /\ Price.image_process \in Nat
  BY LedgerAssumption DEF LedgerAssumption
<1>2. Cardinality(Workers) \in Nat /\ Cardinality(Workers) # 0
  BY <1>1, FS_CardinalityType, FS_EmptySet
<1>3. Cardinality(Workers) - 1 \in Nat
  BY <1>2
<1>4. \A a \in Nat, b \in Nat : a * b \in Nat
  OBVIOUS
<1>5. Images * (Cardinality(Workers) - 1) \in Nat
  BY <1>1, <1>3, <1>4
<1>6. 1 + Images * (Cardinality(Workers) - 1) \in Nat
  BY <1>5
<1>7. Room \in Nat
  BY <1>1, <1>4, <1>6 DEF Room
<1>8. QED BY <1>1, <1>2, <1>5, <1>7

\* The charges before and after a step, worker by worker.
LEMMA ChargesTyped ==
  ASSUME Typed, Working, [Next]_vars
  PROVE  /\ \A w \in Workers : Charges[w] \in 0..Images /\ Charges'[w] \in 0..Images
         /\ \A w \in Workers : Charges[w] = Charged(w) /\ Charges'[w] = Charged(w)'
         /\ Tally(Charges, Workers) \in Nat /\ Tally(Charges', Workers) \in Nat
<1>1. \A w \in Workers : Charges[w] = Charged(w) /\ Charges'[w] = Charged(w)'
  BY DEF Charges
<1>2. ASSUME NEW w \in Workers PROVE Charged(w)' \in 0..Images
  <2>1. Typed' /\ AtWork(w)'
    BY TypedStep, AtWorkStep
  <2>2. /\ flushed'[w] \in Nat /\ staged'[w] \in Nat /\ Images \in Nat
    BY <2>1, LedgerAssumption DEF Typed, Sessions, LedgerAssumption
  <2>3. CASE Paying(w)'
    <3>1. flushed'[w] + staged'[w] < image'[w] /\ image'[w] \in 1..Images
      BY <2>1, <2>3 DEF AtWork, Paying, InLoop
    <3>2. QED BY <2>2, <2>3, <3>1 DEF Charged
  <2>4. CASE ~Paying(w)'
    BY <2>1, <2>2, <2>4 DEF Charged, AtWork
  <2>5. QED BY <2>3, <2>4
<1>3. \A w \in Workers : Charges[w] \in 0..Images /\ Charges'[w] \in 0..Images
  BY <1>1, <1>2, ChargedBound
<1>4. PICK a, b : a = Charges /\ b = Charges'
  OBVIOUS
<1>5. \A w \in Workers : a[w] \in Nat /\ b[w] \in Nat /\ a[w] <= a[w] /\ b[w] <= b[w]
  BY <1>3, <1>4, RoomTyped
<1>6. Tally(a, Workers) \in Nat /\ Tally(b, Workers) \in Nat
  BY <1>5, RoomTyped, TallyBelow
<1>7. QED BY <1>1, <1>3, <1>4, <1>6

\* A step that adds no charge and takes no credit keeps the workers covered.
LEMMA CoveredStill ==
  ASSUME Typed, Working, Covering, [Next]_vars,
         \A w \in Workers : Charged(w)' <= Charged(w),
         Priced(ledger'), Standing(ledger') >= Standing(ledger)
  PROVE  Covering'
<1>1. PICK a, b : a = Charges /\ b = Charges'
  OBVIOUS
<1>2. \A w \in Workers : a[w] \in Nat /\ b[w] \in Nat /\ b[w] <= a[w]
  BY <1>1, ChargesTyped, RoomTyped
<1>3. Tally(b, Workers) \in Nat /\ Tally(a, Workers) \in Nat /\ Tally(b, Workers) <= Tally(a, Workers)
  <2>1. Tally(b, Workers) \in Nat /\ Tally(b, Workers) <= Tally(a, Workers)
    BY <1>2, RoomTyped, TallyBelow
  <2>2. QED BY <1>1, <2>1, ChargesTyped
<1>4. PICK p, x, y, room, M, N :
        /\ p = Price.image_process /\ x = Standing(ledger) /\ y = Standing(ledger')
        /\ room = Room /\ M = Tally(a, Workers) /\ N = Tally(b, Workers)
  OBVIOUS
<1>5. /\ p \in Nat /\ x \in Int /\ y \in Int /\ room \in Int /\ M \in Nat /\ N \in Nat
      /\ N + 0 <= M /\ x + room >= p * M
  BY <1>1, <1>3, <1>4, RoomTyped, StandingTyped DEF Covering
<1>6. y >= x - p * 0
  BY <1>4, <1>5
<1>7. y + room >= p * N
  BY <1>5, <1>6, RoomLeft
<1>8. Room' = Room
  BY DEF Room
<1>9. QED BY <1>1, <1>4, <1>7, <1>8 DEF Covering

\* A worker that commits k of its charges takes their price, and no charge is added.
LEMMA CoveredCommit ==
  ASSUME Typed, Working, Covering, [Next]_vars, NEW w \in Workers, NEW k \in Nat,
         \A v \in Workers \ {w} : Charged(v)' = Charged(v), Charged(w)' + k <= Charged(w),
         Priced(ledger'), Standing(ledger') >= Standing(ledger) - Price.image_process * k
  PROVE  Covering'
<1>1. PICK a, b : a = Charges /\ b = Charges'
  OBVIOUS
<1>2. /\ \A v \in Workers : a[v] \in Nat /\ b[v] \in Nat
      /\ \A v \in Workers \ {w} : b[v] = a[v]
      /\ b[w] + k <= a[w]
  BY <1>1, ChargesTyped, RoomTyped
<1>3. /\ Tally(a, Workers) = Tally(a, {w}) + Tally(a, Workers \ {w})
      /\ Tally(b, Workers) = Tally(b, {w}) + Tally(b, Workers \ {w})
      /\ Tally(a, Workers \ {w}) \in Int
  BY <1>2, RoomTyped, TallySplit
<1>4. Tally(a, {w}) = a[w] /\ Tally(b, {w}) = b[w] /\ Tally(a, Workers \ {w}) = Tally(b, Workers \ {w})
  <2>1. a[w] \in Int /\ b[w] \in Int
    BY <1>2
  <2>2. Tally(a, {w}) = a[w] /\ Tally(b, {w}) = b[w]
    BY <2>1, TallyOfOne
  <2>3. PICK O : O = Workers \ {w}
    OBVIOUS
  <2>4. \A v \in O : a[v] = b[v]
    BY <1>2, <2>3
  <2>5. Tally(a, O) = Tally(b, O)
    BY <2>4, TallySame
  <2>6. QED BY <2>2, <2>3, <2>5
<1>5. PICK p, x, y, room, M, N :
        /\ p = Price.image_process /\ x = Standing(ledger) /\ y = Standing(ledger')
        /\ room = Room /\ M = Tally(a, Workers) /\ N = Tally(b, Workers)
  OBVIOUS
<1>6. /\ p \in Nat /\ x \in Int /\ y \in Int /\ room \in Int /\ M \in Nat /\ N \in Nat
      /\ x + room >= p * M /\ y >= x - p * k
  BY <1>1, <1>5, ChargesTyped, RoomTyped, StandingTyped DEF Covering
<1>7. N + k <= M
  <2>1. PICK c : c = Tally(a, Workers \ {w})
    OBVIOUS
  <2>2. M = a[w] + c /\ N = b[w] + c /\ c \in Int
    BY <1>3, <1>4, <1>5, <2>1
  <2>3. QED BY <1>2, <2>2
<1>8. y + room >= p * N
  BY <1>6, <1>7, RoomLeft
<1>9. Room' = Room
  BY DEF Room
<1>10. QED BY <1>1, <1>5, <1>8, <1>9 DEF Covering

\* A look at the balance that covers one more image covers what the worker had
\* flushed as well; the others may owe all their images.
LEMMA CoveredByLook ==
  ASSUME Typed, Working, Covering, [Next]_vars, NEW w \in Workers, SumBalance(w)
  PROVE  Covering'
<1>1. w \in Sessions /\ flushed[w] \in Nat /\ staged[w] \in Nat
  BY DEF Typed, Sessions
<1>2. ledger' = ledger /\ Priced(ledger') /\ Standing(ledger') = Standing(ledger)
  BY DEF SumBalance, ledgerVars, Covering
<1>3. ASSUME NEW v \in Workers \ {w} PROVE Charged(v)' = Charged(v)
  <2>1. Rests(v)
    BY <1>1, OthersRest DEF Balance
  <2>2. QED BY <2>1, Rested
<1>4. CASE ~(seen'[w] >= Price.image_process)
  <2>1. Charged(w)' = Charged(w)
    BY <1>4, SumLooks
  <2>2. \A v \in Workers : Charged(v)' <= Charged(v)
    BY <1>3, <2>1, ChargedBound, RoomTyped
  <2>3. Standing(ledger') >= Standing(ledger)
    BY <1>2, StandingTyped DEF Covering
  <2>4. QED BY <1>2, <2>2, <2>3, CoveredStill
<1>5. CASE seen'[w] >= Price.image_process
  <2>1. item[w] # {} /\ staged[w] <= 1 /\ Charged(w)' <= flushed[w] + staged[w] + 1
    BY SumLooks
  <2>2. seen'[w] = SumOf(VisibleRows(w))
    BY <1>1 DEF SumBalance, Working
  <2>3. SumOf(VisibleRows(w)) = SumOf(ledger) - Price.image_process * flushed[w]
    BY <1>1, <2>1, OwnedAdded DEF VisibleRows, Covering
  <2>4. SumOf(ledger) \in Int /\ Standing(ledger) \in Int /\ SumOf(ledger) <= Standing(ledger)
    BY SumStands DEF Covering
  <2>5. PICK b : b = Charges'
    OBVIOUS
  <2>6. /\ \A v \in Workers : b[v] \in 0..Images /\ b[v] \in Int
        /\ b[w] <= flushed[w] + 2 /\ b[w] \in Nat
    BY <1>1, <2>1, <2>5, ChargesTyped, RoomTyped
  <2>7. /\ Tally(b, Workers) = Tally(b, {w}) + Tally(b, Workers \ {w})
        /\ Tally(b, Workers \ {w}) \in Int /\ Tally(b, {w}) = b[w]
    BY <2>6, RoomTyped, TallySplit, TallyOfOne
  <2>8. /\ IsFiniteSet(Workers \ {w})
        /\ Cardinality(Workers \ {w}) = Cardinality(Workers) - 1
    BY RoomTyped, FS_RemoveElement
  <2>9. Tally(b, Workers \ {w}) <= Images * (Cardinality(Workers) - 1)
    BY <2>6, <2>8, RoomTyped, TallyBound
  <2>10. PICK p, x, k, q, N :
           /\ p = Price.image_process /\ x = Standing(ledger) /\ k = flushed[w]
           /\ q = Images * (Cardinality(Workers) - 1) /\ N = Tally(b, Workers)
    OBVIOUS
  <2>11. /\ p \in Nat /\ x \in Int /\ k \in Nat /\ q \in Nat /\ N \in Nat
         /\ N <= q + k + 2
    BY <1>1, <2>4, <2>5, <2>6, <2>7, <2>9, <2>10, ChargesTyped, RoomTyped
  <2>12. p * k \in Int /\ x - p * k >= p
    <3>1. PICK z : z = p * k
      OBVIOUS
    <3>2. z \in Int
      BY <2>11, <3>1
    <3>3. SumOf(ledger) - z >= p
      BY <1>5, <2>2, <2>3, <2>10, <3>1
    <3>4. QED BY <2>4, <2>10, <2>11, <3>1, <3>2, <3>3
  <2>13. x + p * (1 + q) >= p * N
    <3>1. PICK d \in Nat : q + k + 2 = N + d
      <4>1. q + k + 2 - N \in Nat /\ q + k + 2 = N + (q + k + 2 - N)
        BY <2>11
      <4>2. QED BY <4>1
    <3>2. p * (1 + q) + p * k + p = p * N + p * d
      <4>1. p * (1 + q) + p * k + p = p * (q + k + 2)
        BY <2>11
      <4>2. p * (N + d) = p * N + p * d
        BY <2>11
      <4>3. QED BY <3>1, <4>1, <4>2
    <3>3. p * d \in Nat /\ p * N \in Int /\ p * (1 + q) \in Int
      BY <2>11
    <3>4. QED BY <2>11, <2>12, <3>2, <3>3
  <2>14. Room' = Room /\ Room = p * (1 + q)
    BY <2>10 DEF Room
  <2>15. QED BY <1>2, <2>5, <2>10, <2>13, <2>14 DEF Covering
<1>6. QED BY <1>4, <1>5

\* The rows a step adds besides image debits are priced, and none takes a held credit.
LEMMA OtherRowAdded ==
  ASSUME NEW A, Priced(A), NEW D, IsABag(D), NEW r, r.credits \in Int,
         BagToSet(D) \subseteq {r}, \A e : e # r => Times(e, D) = 0,
         NEW n \in Nat, Times(r, D) = n, r.credits >= 0 \/ r.kind # "image_process" \/ n = 0
  PROVE  Priced(A (+) D) /\ Standing(A (+) D) >= Standing(A)
<1>1. Standing(A) \in Int
  BY StandingTyped
<1>2. /\ Priced(A (+) D)
      /\ Standing(A (+) D) = Standing(A)
           + (IF r.credits >= 0 \/ r.kind = "image_process" THEN r.credits * n ELSE 0)
  BY RowsAdded
<1>3. CASE r.credits >= 0
  <2>1. \A c \in Nat, m \in Nat : c * m \in Nat
    OBVIOUS
  <2>2. r.credits * n \in Nat
    BY <1>3, <2>1
  <2>3. QED BY <1>1, <1>2, <1>3, <2>2
<1>4. CASE n = 0
  <2>1. r.credits * n = 0
    BY <1>4
  <2>2. QED BY <1>1, <1>2, <2>1
<1>5. CASE r.credits < 0 /\ r.kind # "image_process"
  BY <1>1, <1>2, <1>5
<1>6. QED BY <1>3, <1>4, <1>5

\* Every session's step keeps what the workers may still debit covered.
LEMMA CoveredBySession ==
  ASSUME Typed, Working, Covering, [Next]_vars, NEW s \in Sessions, Balance(s)
  PROVE  Covering'
<1>1. \A w \in Workers \ {s} : Charged(w)' = Charged(w)
  BY OthersRest, Rested
<1>2. \A w \in Workers : Charged(w) \in 0..Images
  BY ChargedBound
<1>3. Standing(ledger) \in Int /\ Priced(ledger) /\ Price.image_process \in Nat
  BY StandingTyped, RoomTyped DEF Covering
<1>4. CASE GrantNotNeeded(s) \/ GrantMissing(s)
  <2>1. ledger' = ledger
    BY <1>4 DEF GrantNotNeeded, GrantMissing, ledgerVars
  <2>2. \A w \in Workers : Charged(w)' <= Charged(w)
    BY <1>1, <1>2, <1>4, BeforeTheSum, RoomTyped
  <2>3. Priced(ledger') /\ Standing(ledger') >= Standing(ledger)
    BY <1>3, <2>1
  <2>4. QED BY <2>2, <2>3, CoveredStill
<1>5. CASE SumBalance(s)
  <2>1. CASE s \in Workers
    BY <1>5, <2>1, CoveredByLook
  <2>2. CASE s \notin Workers
    <3>1. ledger' = ledger
      BY <1>5 DEF SumBalance, ledgerVars
    <3>2. \A w \in Workers : Charged(w)' <= Charged(w)
      BY <1>1, <1>2, <2>2, RoomTyped
    <3>3. Priced(ledger') /\ Standing(ledger') >= Standing(ledger)
      BY <1>3, <3>1
    <3>4. QED BY <3>2, <3>3, CoveredStill
  <2>3. QED BY <2>1, <2>2
<1>6. CASE Grant(s)
  <2>1. flushed[s] \in Nat /\ staged[s] \in Nat
    BY DEF Typed
  <2>2. PICK n : n = flushed[s] + staged[s]
    OBVIOUS
  <2>3. n \in Nat
    BY <2>1, <2>2
  <2>4. PICK A : A = ledger (+) OwnRows(s, n)
    OBVIOUS
  <2>5. PICK k \in {0, n} :
          /\ Priced(A) /\ Standing(A) = Standing(ledger) - Price.image_process * k
          /\ s \notin Workers => k = 0
          /\ s \in Workers /\ item[s] # {} => k = n
    BY <1>3, <2>3, <2>4, OwnedAdded
  <2>6. PICK D, r : D = Rows(FreeRow(period[s]), 1) /\ r = FreeRow(period[s])
    OBVIOUS
  <2>7. ledger' = A (+) D
    BY <1>6, <2>2, <2>4, <2>6 DEF Grant, TransactionRows
  <2>8. r.credits \in Int /\ r.credits >= 0
    BY <2>6, LedgerAssumption DEF FreeRow, Entry, LedgerAssumption
  <2>9. /\ IsABag(D) /\ BagToSet(D) \subseteq {r} /\ Times(r, D) = 1
        /\ \A e : e # r => Times(e, D) = 0
    BY <2>6, OneRow
  <2>10. Priced(ledger') /\ Standing(ledger') >= Standing(A)
    BY <2>5, <2>7, <2>8, <2>9, OtherRowAdded
  <2>11. CASE s \in Workers
    <3>1. Charged(s)' = 0 /\ Charged(s) = n /\ k = n
      BY <1>6, <2>2, <2>5, <2>11, GrantEmpties
    <3>2. Charged(s)' + k <= Charged(s) /\ k \in Nat
      BY <2>3, <3>1
    <3>3. Standing(ledger') >= Standing(ledger) - Price.image_process * k
      BY <2>5, <2>10
    <3>4. QED BY <1>1, <2>10, <2>11, <3>2, <3>3, CoveredCommit
  <2>12. CASE s \notin Workers
    <3>1. Price.image_process * 0 = 0
      BY <1>3
    <3>2. Standing(A) = Standing(ledger)
      BY <1>3, <2>5, <2>12, <3>1
    <3>3. \A w \in Workers : Charged(w)' <= Charged(w)
      BY <1>1, <1>2, <2>12, RoomTyped
    <3>4. Standing(ledger') >= Standing(ledger)
      BY <2>10, <3>2
    <3>5. QED BY <2>10, <3>3, <3>4, CoveredStill
  <2>13. QED BY <2>11, <2>12
<1>7. QED BY <1>4, <1>5, <1>6 DEF Balance

\* The completion of a sheet debits its images out of what was covered.
LEMMA CoveredByCompletion ==
  ASSUME Typed, Working, Covering, [Next]_vars, NEW w \in Workers, Complete(w)
  PROVE  Covering'
<1>1. \A v \in Workers \ {w} : Charged(v)' = Charged(v)
  BY OthersRest, Rested DEF Sessions
<1>2. /\ w \in Sessions /\ flushed[w] \in Nat /\ staged[w] \in Nat
      /\ Standing(ledger) \in Int /\ Priced(ledger) /\ Price.image_process \in Nat
  BY StandingTyped, RoomTyped DEF Typed, Sessions, Covering
<1>3. PICK n : n = flushed[w] + staged[w]
  OBVIOUS
<1>4. n \in Nat
  BY <1>2, <1>3
<1>5. PICK i \in item[w] : ledger' = ledger (+) TransactionRows(w) (+) Debits(SheetRow(i), 1)
  BY DEF Complete
<1>6. PICK A : A = ledger (+) OwnRows(w, n)
  OBVIOUS
<1>7. Priced(A) /\ Standing(A) = Standing(ledger) - Price.image_process * n
  BY <1>2, <1>4, <1>5, <1>6, OwnedAdded
<1>8. PICK D, r, m : D = Debits(SheetRow(i), 1) /\ r = SheetRow(i) /\ m = Times(r, D)
  OBVIOUS
<1>9. r.credits \in Int /\ r.kind = "enrich_item"
  BY <1>8, LedgerAssumption, RowsApart DEF LedgerAssumption
<1>10. IsABag(D) /\ BagToSet(D) \subseteq {r} /\ (\A e : e # r => Times(e, D) = 0) /\ m \in Nat
  <2>1. /\ IsABag(Debits(r, 1)) /\ BagToSet(Debits(r, 1)) \subseteq {r}
        /\ Times(r, Debits(r, 1)) = IF r.credits < 0 THEN 1 ELSE 0
        /\ \A e : e # r => Times(e, Debits(r, 1)) = 0
    BY <1>9, DebitedRows
  <2>2. D = Debits(r, 1)
    BY <1>8
  <2>3. QED BY <1>8, <2>1, <2>2
<1>11. ledger' = A (+) D
  BY <1>3, <1>5, <1>6, <1>8 DEF TransactionRows
<1>12. Priced(ledger') /\ Standing(ledger') >= Standing(A)
  BY <1>7, <1>8, <1>9, <1>10, <1>11, OtherRowAdded
<1>13. Charged(w)' + n <= Charged(w)
  <2>1. at[w] = "complete"
    BY DEF Complete
  <2>2. Charged(w)' = 0 /\ Charged(w) = n
    BY <1>3, <2>1, ReleaseEmpties
  <2>3. QED BY <1>4, <2>2
<1>14. Standing(ledger') >= Standing(ledger) - Price.image_process * n
  BY <1>7, <1>12
<1>15. QED BY <1>1, <1>4, <1>12, <1>13, <1>14, CoveredCommit

\* What a step adds to no ledger is worth nothing.
LEMMA NothingAdded ==
  ASSUME NEW A, Priced(A)
  PROVE  Priced(A (+) EmptyBag) /\ Standing(A (+) EmptyBag) >= Standing(A)
<1>1. PICK r : r = Entry("adjustment", 0, 0, NoSheet)
  OBVIOUS
<1>2. r.credits \in Int /\ r.credits >= 0
  BY <1>1 DEF Entry
<1>3. PICK D : D = EmptyBag
  OBVIOUS
<1>4. IsABag(D) /\ BagToSet(D) \subseteq {r} /\ Times(r, D) = 0 /\ \A e : Times(e, D) = 0
  BY <1>3, NoRows
<1>5. QED BY <1>2, <1>3, <1>4, OtherRowAdded

\* Every step keeps what the workers may still debit covered.
LEMMA CoveringStep ==
  ASSUME Typed, Working, Covering, [Next]_vars
  PROVE  Covering'
<1>0. /\ \A w \in Workers : Charged(w) \in 0..Images /\ w \in Sessions /\ w \notin Requests
      /\ Standing(ledger) \in Int /\ Priced(ledger)
  BY ChargedBound, StandingTyped, LedgerAssumption DEF Covering, Sessions, LedgerAssumption
<1>1. ASSUME ledger' = ledger, \A w \in Workers : Charged(w)' <= Charged(w)
      PROVE  Covering'
  <2>1. Priced(ledger') /\ Standing(ledger') >= Standing(ledger)
    BY <1>0, <1>1
  <2>2. QED BY <1>1, <2>1, CoveredStill
<1>2. ASSUME NEW s \in Sessions, Balance(s) PROVE Covering'
  BY <1>2, CoveredBySession
<1>3. ASSUME NEW s \in Requests,
             Ask(s) \/ Overview(s) \/ Refuse(s) \/ Covered(s) \/ Launch(s)
      PROVE  Covering'
  <2>1. ledger' = ledger
    BY <1>3 DEF Ask, Overview, Refuse, Covered, Launch, ledgerVars
  <2>2. \A w \in Workers : Rests(w)
    BY <1>0, <1>3, OthersRest DEF Sessions
  <2>3. \A w \in Workers : Charged(w)' <= Charged(w)
    BY <1>0, <2>2, Rested, RoomTyped
  <2>4. QED BY <1>1, <2>1, <2>3
<1>4. ASSUME NEW w \in Workers, \/ Claim(w) \/ KeepRaw(w) \/ Normalize(w) \/ Normalized(w)
                                \/ NotNormalized(w)
      PROVE  Covering'
  <2>1. ledger' = ledger
    BY <1>4 DEF Claim, KeepRaw, Normalize, Normalized, NotNormalized, ledgerVars
  <2>2. \A v \in Workers \ {w} : Charged(v)' = Charged(v)
    BY <1>0, <1>4, OthersRest, Rested
  <2>3. Charged(w)' <= Charged(w)
    BY <1>0, <1>4, ClaimStarts, ImageStep, RoomTyped
  <2>4. \A v \in Workers : Charged(v)' <= Charged(v)
    BY <1>0, <2>2, <2>3, RoomTyped
  <2>5. QED BY <1>1, <2>1, <2>4
<1>5. ASSUME NEW w \in Workers, Complete(w) PROVE Covering'
  BY <1>5, CoveredByCompletion
<1>6. ASSUME NEW w \in Workers, Fail(w) PROVE Covering'
  <2>1. ledger' = ledger (+) EmptyBag
    BY <1>6 DEF Fail, LeftByFailure
  <2>2. Priced(ledger') /\ Standing(ledger') >= Standing(ledger)
    BY <1>0, <2>1, NothingAdded
  <2>3. \A v \in Workers \ {w} : Charged(v)' = Charged(v)
    BY <1>0, <1>6, OthersRest, Rested
  <2>4. Charged(w)' = 0
    BY <1>6, ReleaseEmpties
  <2>5. \A v \in Workers : Charged(v)' <= Charged(v)
    BY <1>0, <2>3, <2>4, RoomTyped
  <2>6. QED BY <2>2, <2>5, CoveredStill
<1>7. CASE Adjust
  <2>1. PICK c \in Adjustments : ledger' = ledger (+) Rows(Entry("adjustment", c, 0, NoSheet), 1)
    BY <1>7 DEF Adjust
  <2>2. PICK D, r : /\ r = Entry("adjustment", c, 0, NoSheet)
                    /\ D = Rows(Entry("adjustment", c, 0, NoSheet), 1)
    OBVIOUS
  <2>3. r.credits \in Int /\ r.kind # "image_process"
    BY <2>2, LedgerAssumption DEF Entry, LedgerAssumption
  <2>4. /\ IsABag(D) /\ BagToSet(D) \subseteq {r} /\ Times(r, D) = 1
        /\ \A e : e # r => Times(e, D) = 0
    BY <2>2, OneRow
  <2>5. Priced(ledger') /\ Standing(ledger') >= Standing(ledger)
    BY <1>0, <2>1, <2>2, <2>3, <2>4, OtherRowAdded
  <2>6. \A w \in Workers : Rests(w)
    BY <1>7 DEF Adjust, sessionVars, workVars, Rests
  <2>7. \A w \in Workers : Charged(w)' <= Charged(w)
    BY <1>0, <2>6, Rested, RoomTyped
  <2>8. QED BY <2>5, <2>7, CoveredStill
<1>8. CASE NextMonth \/ UNCHANGED vars
  <2>1. ledger' = ledger /\ \A w \in Workers : Rests(w)
    BY <1>8 DEF NextMonth, vars, ledgerVars, sessionVars, workVars, Rests
  <2>2. \A w \in Workers : Charged(w)' <= Charged(w)
    BY <1>0, <2>1, Rested, RoomTyped
  <2>3. QED BY <1>1, <2>1, <2>2
<1>9. CASE Kill
  <2>1. ledger' = ledger
    BY <1>9 DEF Kill, ledgerVars
  <2>2. \A w \in Workers : at'[w] = "idle" /\ flushed'[w] = 0 /\ staged'[w] = 0
    BY <1>0, <1>9 DEF Kill
  <2>3. \A w \in Workers : Charged(w)' = 0
    BY <2>2 DEF Charged, Paying
  <2>4. \A w \in Workers : Charged(w)' <= Charged(w)
    BY <1>0, <2>3, RoomTyped
  <2>5. QED BY <1>1, <2>1, <2>4
<1>10. QED BY <1>2, <1>3, <1>4, <1>5, <1>6, <1>7, <1>8, <1>9 DEF Next

\* The types the bound needs, and where every worker is, stand step by step.
LEMMA WorkingStep ==
  ASSUME Typed, Working, Covering, [Next]_vars
  PROVE  Working'
<1>1. \A w \in Workers : AtWork(w)'
  BY AtWorkStep
<1>2. /\ image \in [Workers -> Nat] /\ seen \in [Sessions -> Int]
      /\ Workers \subseteq Sessions /\ Requests \subseteq Sessions
  BY DEF Working, Sessions
<1>3. ASSUME image' = image \/ \E w \in Workers, n \in Nat : image' = [image EXCEPT ![w] = n],
             seen' = seen \/ \E s \in Sessions, n \in Int : seen' = [seen EXCEPT ![s] = n]
      PROVE  Working'
  <2>1. image' \in [Workers -> Nat] /\ seen' \in [Sessions -> Int]
    BY <1>2, <1>3
  <2>2. QED BY <1>1, <2>1 DEF Working
<1>4. ASSUME NEW s \in Sessions, GrantNotNeeded(s) \/ GrantMissing(s) \/ Grant(s) PROVE Working'
  BY <1>3, <1>4 DEF GrantNotNeeded, GrantMissing, Grant, workVars
<1>5. ASSUME NEW s \in Sessions, SumBalance(s) PROVE Working'
  <2>1. seen' = [seen EXCEPT ![s] = SumOf(VisibleRows(s))] /\ image' = image
    BY <1>5 DEF SumBalance, workVars
  <2>2. flushed[s] \in Nat /\ SumOf(ledger) \in Int /\ Price.image_process \in Nat
    BY SumStands, RoomTyped DEF Typed, Covering
  <2>3. PICK k \in {0, flushed[s]} :
          SumOf(ledger (+) OwnRows(s, flushed[s])) = SumOf(ledger) - Price.image_process * k
    BY <2>2, OwnedAdded DEF Covering
  <2>4. \A a \in Nat, b \in Nat : a * b \in Nat
    OBVIOUS
  <2>5. Price.image_process * k \in Nat
    BY <2>2, <2>3, <2>4
  <2>6. SumOf(VisibleRows(s)) \in Int
    BY <2>2, <2>3, <2>5 DEF VisibleRows
  <2>7. QED BY <1>3, <2>1, <2>6
<1>6. ASSUME NEW s \in Requests,
             Ask(s) \/ Overview(s) \/ Refuse(s) \/ Covered(s) \/ Launch(s)
      PROVE  Working'
  <2>1. image' = image /\ (seen' = seen \/ seen' = [seen EXCEPT ![s] = 0])
    BY <1>6 DEF Ask, Overview, Refuse, Covered, Launch, Close, workVars
  <2>2. QED BY <1>2, <1>3, <2>1
<1>7. ASSUME NEW w \in Workers, Claim(w) PROVE Working'
  BY <1>3, <1>7 DEF Claim
<1>8. ASSUME NEW w \in Workers, KeepRaw(w) \/ Normalize(w) \/ Normalized(w) \/ NotNormalized(w)
      PROVE  Working'
  <2>1. seen' = seen /\ (image' = image \/ image' = [image EXCEPT ![w] = image[w] + 1])
    BY <1>8 DEF KeepRaw, Normalize, Normalized, NotNormalized, NextImage
  <2>2. image[w] + 1 \in Nat
    BY <1>2
  <2>3. QED BY <1>3, <2>1, <2>2
<1>9. ASSUME NEW w \in Workers, Complete(w) \/ Fail(w) PROVE Working'
  <2>1. Released(w)
    BY <1>9 DEF Complete, Fail
  <2>2. image' = [image EXCEPT ![w] = 0] /\ seen' = [seen EXCEPT ![w] = 0]
    BY <2>1 DEF Released, Close
  <2>3. w \in Sessions /\ 0 \in Nat /\ 0 \in Int
    BY <1>2
  <2>4. \E v \in Workers, n \in Nat : image' = [image EXCEPT ![v] = n]
    BY <2>2, <2>3
  <2>5. \E s \in Sessions, n \in Int : seen' = [seen EXCEPT ![s] = n]
    BY <2>2, <2>3
  <2>6. QED BY <1>3, <2>4, <2>5
<1>10. CASE Adjust \/ NextMonth \/ UNCHANGED vars
  <2>1. image' = image /\ seen' = seen
    BY <1>10 DEF Adjust, NextMonth, vars, sessionVars, workVars
  <2>2. QED BY <1>3, <2>1
<1>11. CASE Kill
  <2>1. image' = [w \in Workers |-> 0] /\ seen' = [s \in Sessions |-> 0]
    BY <1>11 DEF Kill
  <2>2. QED BY <1>1, <2>1 DEF Working
<1>12. QED
  BY <1>4, <1>5, <1>6, <1>7, <1>8, <1>9, <1>10, <1>11 DEF Next, Balance

\* Nobody has debited anything at first, and what was bought is there.
LEMMA CoveringInit == Init => Working /\ Covering
<1> SUFFICES ASSUME Init PROVE Working /\ Covering
  OBVIOUS
<1>1. /\ at = [s \in Sessions |-> "idle"] /\ seen = [s \in Sessions |-> 0]
      /\ image = [w \in Workers |-> 0] /\ flushed = [s \in Sessions |-> 0]
      /\ staged = [s \in Sessions |-> 0]
  BY DEF Init
<1>2. \A w \in Workers : /\ at[w] = "idle" /\ flushed[w] = 0 /\ staged[w] = 0
  BY <1>1 DEF Sessions
<1>3. Working
  <2>1. image \in [Workers -> Nat] /\ seen \in [Sessions -> Int]
    BY <1>1
  <2>2. 0 <= 1 /\ 0 + 0 <= Images
    BY LedgerAssumption DEF LedgerAssumption
  <2>3. \A w \in Workers : AtWork(w)
    BY <1>2, <2>2 DEF AtWork, InLoop
  <2>4. QED BY <2>1, <2>3 DEF Working
<1>4. PICK r, n : r = Entry("purchase", Opening, 0, NoSheet) /\ n = 1
  OBVIOUS
<1>5. r.credits \in Nat /\ ledger = Rows(r, 1)
  BY <1>4, LedgerAssumption DEF Entry, LedgerAssumption, Init
<1>6. IsABag(ledger) /\ BagToSet(ledger) = {r} /\ Times(r, ledger) = 1
  BY <1>5, OneRow
<1>7. Priced(ledger)
  <2>1. IsFiniteSet({r}) /\ \A e \in {r} : e.credits \in Int
    BY <1>5, FS_Singleton
  <2>2. QED BY <1>6, <2>1 DEF Priced
<1>8. Standing(ledger) >= 0
  <2>1. Held(ledger) = {r} /\ IsFiniteSet({r})
    BY <1>5, <1>6, FS_Singleton DEF Held
  <2>2. PICK f : f = [e \in {r} |-> e.credits * Times(e, ledger)]
    OBVIOUS
  <2>3. f[r] = r.credits * 1 /\ r.credits * 1 \in Nat
    BY <1>5, <1>6, <2>2
  <2>4. SumOver({r}, ledger) = Tally(f, {r}) /\ Tally(f, {r}) = f[r]
    BY <2>1, <2>2, <2>3, SumIsTally, TallyOfOne
  <2>5. QED BY <2>1, <2>3, <2>4 DEF Standing
<1>9. Tally(Charges, Workers) = 0
  <2>1. PICK a, z : a = Charges /\ z = [w \in Workers |-> 0]
    OBVIOUS
  <2>2. \A w \in Workers : a[w] = 0
    BY <1>2, <2>1 DEF Charges, Charged, Paying
  <2>3. \A w \in Workers : a[w] \in 0..0
    BY <2>2
  <2>4. Tally(a, Workers) <= 0 * Cardinality(Workers)
    BY <2>3, RoomTyped, TallyBound
  <2>5. Tally(a, Workers) \in Nat
    BY <2>2, RoomTyped, TallyBelow
  <2>6. QED BY <2>1, <2>4, <2>5, RoomTyped
<1>10. Price.image_process * Tally(Charges, Workers) = 0
  BY <1>9, RoomTyped
<1>11. Covering
  BY <1>7, <1>8, <1>10, RoomTyped, StandingTyped DEF Covering
<1>12. QED BY <1>3, <1>11

\* Whatever the workers do at the same time, the images overdraw the account by one
\* image and what the other workers have in their transactions, at most.
THEOREM ImagesOverdrawLittle == Spec => []ImagesOverdrawBound
<1>1. Init => Typed /\ Working /\ Covering
  BY TypedInit, CoveringInit
<1>2. Typed /\ Working /\ Covering /\ [Next]_vars => (Typed /\ Working /\ Covering)'
  BY TypedStep, WorkingStep, CoveringStep
<1>3. Typed /\ Working /\ Covering => ImagesOverdrawBound
  <2> SUFFICES ASSUME Typed, Working, Covering PROVE ImagesOverdrawBound
    OBVIOUS
  <2>1. /\ SumOf(ledger) = Standing(ledger) - Unguarded
        /\ Standing(ledger) \in Int /\ Unguarded \in Int
    BY SumStands DEF Covering
  <2>2. PICK a : a = Charges
    OBVIOUS
  <2>3. \A w \in Workers : a[w] \in Nat /\ a[w] <= a[w]
    BY <2>2, ChargedBound, RoomTyped DEF Charges
  <2>4. Tally(a, Workers) \in Nat
    BY <2>3, RoomTyped, TallyBelow
  <2>5. \A p \in Nat, k \in Nat : p * k \in Nat
    OBVIOUS
  <2>6. Price.image_process * Tally(Charges, Workers) \in Nat
    BY <2>2, <2>4, <2>5, RoomTyped
  <2>7. Standing(ledger) + Room >= 0
    BY <2>1, <2>6, RoomTyped DEF Covering
  <2>8. SumOf(ledger) >= -Unguarded - Room
    BY <2>1, <2>7, RoomTyped
  <2>9. QED BY <2>8 DEF ImagesOverdrawBound, Room
<1>4. QED BY <1>1, <1>2, <1>3, PTL DEF Spec

-----------------------------------------------------------------------------
(* The price grid and what a snapshot keeps of it *)

Settings == [policy : BillingDays, coefficient : Coefficients, own : BOOLEAN]
AccountRows == [Accounts -> Settings \cup {Missing}]
PriceRows == [id : Nat, scope : Scopes, model : Models, unit : Units]
Tables == [Models -> Units \cup {0}]
KeptPrices == [scope : {"own", "common"}, model : Models, unit : Units]
SnapshotRows == [account : Accounts, coefficient : Coefficients, prices : SUBSET KeptPrices]

\* A row that is missing has no settings.
LEMMA MissingIsApart == Missing \notin Settings
BY DEF Missing, Settings

\* Among rows with bounded numbers one has the highest.
LEMMA HighestRow ==
  ASSUME NEW T, T # {}, NEW n \in Nat, \A r \in T : r.id \in Nat /\ r.id <= n
  PROVE  \E r \in T : \A q \in T : q.id <= r.id
<1> DEFINE D == {n - r.id : r \in T}
<1>1. D \subseteq Nat /\ D # {}
  OBVIOUS
<1>2. IsWellFoundedOn(OpToRel(<, Nat), Nat)
  BY NatLessThanWellFounded
<1>3. PICK x \in D : \A y \in D : ~(<<y, x>> \in OpToRel(<, Nat))
  BY <1>1, <1>2, WFMin
<1>4. \A y \in D : ~(y < x)
  <2>1. TAKE y \in D
  <2>2. <<y, x>> \in Nat \X Nat
    BY <1>1
  <2>3. ~(<<y, x>>[1] < <<y, x>>[2])
    BY <1>3, <2>2 DEF OpToRel
  <2>4. QED BY <2>3
<1>5. PICK r \in T : x = n - r.id
  OBVIOUS
<1>6. \A q \in T : q.id <= r.id
  BY <1>4, <1>5
<1>7. QED BY <1>6

\* The grid of an account gives each model a unit price, or 0 for none.
LEMMA GridIsTable ==
  ASSUME price \subseteq PriceRows, lastId \in Nat, \A r \in price : r.id <= lastId, NEW a
  PROVE  Grid(price, a).own \in Tables /\ Grid(price, a).common \in Tables
<1>1. ASSUME NEW s PROVE TableOf(price, s) \in Tables
  <2>1. ASSUME NEW m \in Models PROVE TableOf(price, s)[m] \in Units \cup {0}
    <3> DEFINE mine == {r \in price : r.scope = s /\ r.model = m}
               highest == CHOOSE r \in mine : \A q \in mine : q.id <= r.id
    <3>1. TableOf(price, s)[m] = IF mine = {} THEN 0 ELSE highest.unit
      BY <2>1 DEF TableOf
    <3>2. CASE mine = {}
      BY <3>1, <3>2
    <3>3. CASE mine # {}
      <4>1. \E r \in mine : \A q \in mine : q.id <= r.id
        BY <3>3, HighestRow DEF PriceRows
      <4>2. highest \in mine
        BY <4>1
      <4>3. highest \in PriceRows
        BY <4>2
      <4>4. QED BY <3>1, <3>3, <4>3 DEF PriceRows
    <3>4. QED BY <3>2, <3>3
  <2>2. QED BY <2>1 DEF TableOf, Tables
<1>2. QED BY <1>1 DEF Grid

\* A snapshot keeps the prices of its grid, and gives them back scope by scope.
LEMMA SnapshotReplays ==
  ASSUME NEW grid, grid.own \in Tables, grid.common \in Tables
  PROVE  /\ Serialize(grid) \in SUBSET KeptPrices
         /\ \A m \in Models : Resolve(Replay(Serialize(grid)), m) = Resolve(grid, m)
<1>1. Serialize(grid) \in SUBSET KeptPrices
  BY DEF Serialize, KeptPrices
<1>2. ASSUME NEW s \in {"own", "common"}, NEW m \in Models
      PROVE  Replay(Serialize(grid))[s][m] = grid[s][m]
  <2> DEFINE mine == {r \in Serialize(grid) : r.scope = s /\ r.model = m}
             row == [scope |-> s, model |-> m, unit |-> grid[s][m]]
  <2>1. Replay(Serialize(grid))[s][m] = IF mine = {} THEN 0 ELSE (CHOOSE r \in mine : TRUE).unit
    BY <1>2 DEF Replay
  <2>2. grid[s][m] \in Units \cup {0}
    BY <1>2 DEF Tables
  <2>3. ASSUME NEW r \in mine PROVE r = row /\ grid[s][m] \in Units
    <3>1. r \in Serialize(grid) /\ r.scope = s /\ r.model = m
      OBVIOUS
    <3>2. PICK z \in {"own", "common"}, n \in Models : r = [scope |-> z, model |-> n, unit |-> grid[z][n]]
      BY <3>1 DEF Serialize
    <3>3. r.unit \in Units
      BY <3>1 DEF Serialize
    <3>4. z = s /\ n = m /\ r.unit = grid[z][n]
      BY <3>1, <3>2
    <3>5. QED BY <3>2, <3>3, <3>4
  <2>4. CASE grid[s][m] \in Units
    <3>1. row \in mine
      BY <1>2, <2>4 DEF Serialize
    <3>2. PICK r \in mine : r = (CHOOSE q \in mine : TRUE)
      BY <3>1
    <3>3. r = row
      BY <2>3
    <3>4. row.unit = grid[s][m]
      OBVIOUS
    <3>5. QED BY <2>1, <3>1, <3>2, <3>3, <3>4
  <2>5. CASE grid[s][m] \notin Units
    <3>1. mine = {}
      BY <2>3, <2>5
    <3>2. QED BY <2>1, <2>2, <2>5, <3>1
  <2>6. QED BY <2>4, <2>5
<1>3. /\ \A m \in Models : Replay(Serialize(grid)).own[m] = grid.own[m]
      /\ \A m \in Models : Replay(Serialize(grid)).common[m] = grid.common[m]
  BY <1>2
<1>4. AnyModel \in Models
  BY DEF Models
<1>5. QED BY <1>1, <1>3, <1>4 DEF Resolve, Pick

\* What a request holds: the settings and the prices it has read, and the snapshot it is to
\* write over, if any, which is one of its account.
Sensible(q) ==
  /\ q.op = "create" => q.scope \in Scopes /\ q.model \in Models /\ q.unit \in Units
  /\ q.op = "edit" => q.model \in Models /\ q.unit \in Units
  /\ q.op \in {"freeze", "refreeze"} =>
       /\ q.account \in Accounts /\ q.coefficient \in Coefficients
       /\ q.grid.own \in Tables /\ q.grid.common \in Tables
       /\ q.row = 0 \/ (q.op = "refreeze" /\ q.row \in DOMAIN snapshot /\ snapshot[q.row].account = q.account)
  /\ q.op = "policy" => q.policy \in BillingDays /\ q.seen \in AccountRows
  /\ q.op = "save" => q.account \in Accounts /\ Exists(q.account) /\ q.write \in Settings
  /\ q.op = "login" => q.account \in Accounts /\ q.write \in Settings

Books ==
  /\ account \in AccountRows /\ Exists(Oldest)
  /\ price \subseteq PriceRows /\ lastId \in Nat /\ \A r \in price : r.id <= lastId
  /\ snapshot \in Seq(SnapshotRows)
  /\ request = [w \in Servers |-> request[w]]

\* What the operator's form holds was read of an account.
Filled ==
  form = Blank \/ (form.account \in Accounts /\ Exists(form.account) /\ form.settings \in Settings)

WellTyped == Books /\ (\A w \in Servers : Sensible(request[w])) /\ Filled

\* Accounts do not go, nor do snapshots, so what a request holds stays sensible.
LEMMA SensibleStays ==
  ASSUME NEW q, Sensible(q), \A a \in Accounts : Exists(a) => Exists(a)',
         DOMAIN snapshot \subseteq DOMAIN snapshot',
         \A i \in DOMAIN snapshot : snapshot'[i].account = snapshot[i].account
  PROVE  Sensible(q)'
BY DEF Sensible, Exists, Scopes, Models, Tables, AccountRows, Settings, Missing

\* A step that moves one request, and keeps the accounts and the snapshots there are.
LEMMA RequestMoves ==
  ASSUME WellTyped, Books', NEW w \in Servers, NEW q, request' = [request EXCEPT ![w] = q], Sensible(q)',
         UNCHANGED form,
         \A a \in Accounts : Exists(a) => Exists(a)',
         DOMAIN snapshot \subseteq DOMAIN snapshot',
         \A i \in DOMAIN snapshot : snapshot'[i].account = snapshot[i].account
  PROVE  WellTyped'
<1>1. \A v \in Servers : request'[v] = IF v = w THEN q ELSE request[v]
  BY DEF WellTyped, Books
<1>2. ASSUME NEW v \in Servers PROVE Sensible(request[v])'
  <2>1. CASE v = w
    BY <1>1, <2>1 DEF Sensible
  <2>2. CASE v # w
    <3>1. Sensible(request[v])
      BY DEF WellTyped
    <3>2. PICK p : p = request[v]
      OBVIOUS
    <3>3. Sensible(p)'
      BY <3>1, <3>2, SensibleStays
    <3>4. p = request'[v]
      BY <1>1, <2>2, <3>2
    <3>5. QED BY <3>3, <3>4 DEF Sensible
  <2>3. QED BY <2>1, <2>2
<1>3. Filled'
  BY DEF WellTyped, Filled
<1>4. QED BY <1>2, <1>3 DEF WellTyped

\* A request begins: nothing is written yet.
LEMMA AskStep ==
  ASSUME WellTyped, NEW w \in Servers, NEW q, Begin(w, q), Sensible(q),
         UNCHANGED <<account, price, snapshot, lastId, form>>
  PROVE  WellTyped'
<1>1. request' = [request EXCEPT ![w] = q]
  BY DEF Begin
<1>2. Books'
  BY <1>1 DEF WellTyped, Books, Exists
<1>3. Sensible(q)'
  BY DEF Sensible, Exists
<1>4. (\A a \in Accounts : Exists(a) => Exists(a)')
  BY DEF Exists
<1>5. QED BY <1>1, <1>2, <1>3, <1>4, RequestMoves

\* An answered request holds nothing.
LEMMA IdleSensible == Sensible(Idle) /\ Sensible(Idle)' /\ Idle.op = "idle"
BY DEF Sensible, Idle

\* A request that ends: what it writes keeps the books.
LEMMA AnswerStep ==
  ASSUME WellTyped, NEW w \in Servers, End(w), UNCHANGED form, Books', \A a \in Accounts : Exists(a) => Exists(a)',
         DOMAIN snapshot \subseteq DOMAIN snapshot',
         \A i \in DOMAIN snapshot : snapshot'[i].account = snapshot[i].account
  PROVE  WellTyped'
<1>1. request' = [request EXCEPT ![w] = Idle]
  BY DEF End
<1>2. QED BY <1>1, IdleSensible, RequestMoves

\* The requests that only read.
LEMMA ReadsTyped ==
  ASSUME WellTyped, NEW w \in Servers,
         \/ \E m \in Models, u \in Units : \/ \E s \in Scopes : CheckNewPrice(w, s, m, u)
                                           \/ \E r \in price : CheckEdit(w, r, m, u)
         \/ \E a \in Accounts : Consult(w, a) \/ Refreeze(w, a) \/ FirstLogin(w, a)
         \/ \E a \in Accounts, own \in BOOLEAN : ClientSave(w, a, own)
         \/ \E own \in BOOLEAN, c \in Coefficients : OperatorSave(w, own, c)
         \/ \E p \in BillingDays : ReadPolicy(w, p)
  PROVE  WellTyped'
<1>1. /\ account \in AccountRows /\ account[Oldest] \in Settings /\ Books
      /\ \A a \in Accounts : Exists(a) => account[a] \in Settings
      /\ \A a : Grid(price, a).own \in Tables /\ Grid(price, a).common \in Tables
  BY GridIsTable, BillingAssumption DEF WellTyped, Books, Exists, AccountRows
<1>2. ASSUME NEW m \in Models, NEW u \in Units, NEW s \in Scopes, CheckNewPrice(w, s, m, u)
      PROVE  WellTyped'
  <2>1. PICK q : q = [op |-> "create", scope |-> s, model |-> m, unit |-> u]
    OBVIOUS
  <2>2. Begin(w, q) /\ UNCHANGED <<account, price, snapshot, lastId, form>>
    BY <1>2, <2>1 DEF CheckNewPrice, policyVars
  <2>3. Sensible(q)
    BY <2>1 DEF Sensible
  <2>4. QED BY <2>2, <2>3, AskStep
<1>3. ASSUME NEW m \in Models, NEW u \in Units, NEW r \in price, CheckEdit(w, r, m, u)
      PROVE  WellTyped'
  <2>1. PICK q : q = [op |-> "edit", row |-> r, model |-> m, unit |-> u]
    OBVIOUS
  <2>2. Begin(w, q) /\ UNCHANGED <<account, price, snapshot, lastId, form>>
    BY <1>3, <2>1 DEF CheckEdit, policyVars
  <2>3. Sensible(q)
    BY <2>1 DEF Sensible
  <2>4. QED BY <2>2, <2>3, AskStep
<1>4. ASSUME NEW a \in Accounts, NEW op \in {"freeze", "refreeze"}, NEW i, NEW q,
             q = [op |-> op, account |-> a, row |-> i,
                  coefficient |-> account[a].coefficient, grid |-> Grid(price, a)],
             i = 0 \/ (op = "refreeze" /\ i \in SnapshotsOf(a)), Exists(a)
      PROVE  Sensible(q)
  <2>1. account[a].coefficient \in Coefficients
    BY <1>1, <1>4 DEF Settings
  <2>2. /\ q.op = op /\ q.account = a /\ q.row = i
        /\ q.coefficient = account[a].coefficient /\ q.grid = Grid(price, a)
    BY <1>4
  <2>3. QED BY <1>1, <1>4, <2>1, <2>2 DEF Sensible, SnapshotsOf
<1>5. ASSUME NEW a \in Accounts, Consult(w, a) PROVE WellTyped'
  <2>1. PICK q : q = [op |-> "freeze", account |-> a, row |-> 0,
                      coefficient |-> account[a].coefficient, grid |-> Grid(price, a)]
    OBVIOUS
  <2>2. Begin(w, q) /\ UNCHANGED <<account, price, snapshot, lastId, form>> /\ Exists(a)
    BY <1>5, <2>1 DEF Consult, Frozen, policyVars
  <2>3. Sensible(q)
    BY <1>4, <2>1, <2>2
  <2>4. QED BY <2>2, <2>3, AskStep
<1>6. ASSUME NEW a \in Accounts, Refreeze(w, a) PROVE WellTyped'
  <2>1. PICK i \in (IF SnapshotsOf(a) = {} THEN {0} ELSE SnapshotsOf(a)) :
          Begin(w, [op |-> "refreeze", account |-> a, row |-> i,
                    coefficient |-> account[a].coefficient, grid |-> Grid(price, a)])
    BY <1>6 DEF Refreeze
  <2>2. PICK q : q = [op |-> "refreeze", account |-> a, row |-> i,
                      coefficient |-> account[a].coefficient, grid |-> Grid(price, a)]
    OBVIOUS
  <2>3. Begin(w, q) /\ UNCHANGED <<account, price, snapshot, lastId, form>> /\ Exists(a)
    BY <1>6, <2>1, <2>2 DEF Refreeze, Frozen, policyVars
  <2>4. Sensible(q)
    BY <1>4, <2>1, <2>2, <2>3
  <2>5. QED BY <2>3, <2>4, AskStep
<1>7. ASSUME NEW a \in Accounts, FirstLogin(w, a) PROVE WellTyped'
  <2>1. PICK q : q = [op |-> "login", account |-> a, write |-> Seed(account[Oldest]),
                      read |-> ReadNow(Oldest)]
    OBVIOUS
  <2>2. Begin(w, q) /\ UNCHANGED <<account, price, snapshot, lastId, form>>
    BY <1>7, <2>1 DEF FirstLogin, policyVars
  <2>3. Seed(account[Oldest]) \in Settings
    BY <1>1 DEF Seed, Settings
  <2>4. Sensible(q)
    BY <2>1, <2>3 DEF Sensible
  <2>5. QED BY <2>2, <2>4, AskStep
<1>8. ASSUME NEW a \in Accounts, NEW s \in Settings, NEW r, Exists(a), Save(w, a, s, r) PROVE WellTyped'
  <2>1. PICK q : q = [op |-> "save", account |-> a, seen |-> account[a], write |-> s, read |-> r]
    OBVIOUS
  <2>2. Begin(w, q) /\ UNCHANGED <<account, price, snapshot, lastId, form>>
    BY <1>8, <2>1 DEF Save, policyVars
  <2>3. Sensible(q)
    BY <1>8, <2>1 DEF Sensible
  <2>4. QED BY <2>2, <2>3, AskStep
<1>9. ASSUME NEW p \in BillingDays, ReadPolicy(w, p) PROVE WellTyped'
  <2>1. PICK q : q = [op |-> "policy", policy |-> p, seen |-> account]
    OBVIOUS
  <2>2. Begin(w, q) /\ UNCHANGED <<account, price, snapshot, lastId, form>>
    BY <1>9, <2>1 DEF ReadPolicy, policyVars
  <2>3. Sensible(q)
    BY <1>1, <2>1 DEF Sensible
  <2>4. QED BY <2>2, <2>3, AskStep
<1>10. ASSUME NEW a \in Accounts, NEW own \in BOOLEAN, ClientSave(w, a, own) PROVE WellTyped'
  <2>1. PICK s : s = [account[a] EXCEPT !.own = own]
    OBVIOUS
  <2>2. PICK r : r = ReadNow(a)
    OBVIOUS
  <2>3. Exists(a) /\ Save(w, a, s, r) /\ s \in Settings
    BY <1>1, <1>10, <2>1, <2>2 DEF ClientSave, Settings
  <2>4. QED BY <1>8, <2>3
<1>11. ASSUME NEW own \in BOOLEAN, NEW c \in Coefficients, OperatorSave(w, own, c) PROVE WellTyped'
  <2>1. /\ form.account \in Accounts /\ Exists(form.account) /\ form.settings \in Settings
        /\ Save(w, form.account, [form.settings EXCEPT !.own = own, !.coefficient = c], form.read)
    BY <1>11 DEF OperatorSave, WellTyped, Filled
  <2>2. PICK a \in Accounts : a = form.account
    BY <2>1
  <2>3. PICK s : s = [form.settings EXCEPT !.own = own, !.coefficient = c]
    OBVIOUS
  <2>4. PICK r : r = form.read
    OBVIOUS
  <2>5. Exists(a) /\ Save(w, a, s, r) /\ s \in Settings
    BY <2>1, <2>2, <2>3, <2>4 DEF Settings
  <2>6. QED BY <1>8, <2>5
<1>12. QED BY <1>2, <1>3, <1>5, <1>6, <1>7, <1>9, <1>10, <1>11

\* The requests that write the prices.
LEMMA PricesTyped ==
  ASSUME WellTyped, NEW w \in Servers, InsertPrice(w) \/ WriteEdit(w)
  PROVE  WellTyped'
<1>1. UNCHANGED <<account, snapshot, form>> /\ End(w) /\ Sensible(request[w])
  BY DEF InsertPrice, WriteEdit, WellTyped, policyVars
<1>2. request' = [v \in Servers |-> request'[v]]
  BY <1>1 DEF End, WellTyped, Books
<1>3. price' \subseteq PriceRows /\ lastId' \in Nat /\ \A r \in price' : r.id <= lastId'
  <2>1. CASE InsertPrice(w)
    <3>1. PICK n : n = [id |-> lastId', scope |-> request[w].scope, model |-> request[w].model,
                        unit |-> request[w].unit]
      OBVIOUS
    <3>2. price' = price \cup {n} /\ lastId' = lastId + 1 /\ request[w].op = "create"
      BY <2>1, <3>1 DEF InsertPrice
    <3>3. n \in PriceRows /\ n.id = lastId'
      BY <1>1, <3>1, <3>2 DEF Sensible, PriceRows, WellTyped, Books
    <3>4. QED BY <3>2, <3>3 DEF WellTyped, Books, PriceRows
  <2>2. CASE WriteEdit(w)
    <3> DEFINE Edited(r) == [r EXCEPT !.model = IF request[w].model = request[w].row.model THEN @ ELSE request[w].model,
                                      !.unit  = IF request[w].unit = request[w].row.unit THEN @ ELSE request[w].unit]
    <3>1. /\ price' = {IF r.id = request[w].row.id THEN Edited(r) ELSE r : r \in price}
          /\ lastId' = lastId /\ request[w].op = "edit"
      BY <2>2 DEF WriteEdit
    <3>2. ASSUME NEW r \in price PROVE Edited(r) \in PriceRows /\ Edited(r).id = r.id
      BY <1>1, <3>1 DEF Sensible, PriceRows, WellTyped, Books
    <3> HIDE DEF Edited
    <3>3. QED BY <3>1, <3>2 DEF WellTyped, Books
  <2>3. QED BY <2>1, <2>2
<1>4. Books'
  BY <1>1, <1>2, <1>3 DEF WellTyped, Books, Exists
<1>5. QED BY <1>1, <1>4, AnswerStep DEF Exists

\* The snapshot a request writes: a new one, or over the one it holds.
NewSnapshot(q) == [account |-> q.account, coefficient |-> q.coefficient, prices |-> Serialize(q.grid)]

LEMMA SnapshotWritten ==
  ASSUME WellTyped, NEW w \in Servers, WriteSnapshot(w)
  PROVE  /\ NewSnapshot(request[w]) \in SnapshotRows /\ snapshot' \in Seq(SnapshotRows)
         /\ NewSnapshot(request[w]).account = request[w].account
         /\ NewSnapshot(request[w]).prices = Serialize(request[w].grid)
         /\ request[w].account \in Accounts
         /\ \/ /\ request[w].row = 0 /\ DOMAIN snapshot' = 1 .. (Len(snapshot) + 1)
               /\ DOMAIN snapshot = 1 .. Len(snapshot) /\ Len(snapshot) \in Nat
               /\ snapshot'[Len(snapshot) + 1] = NewSnapshot(request[w])
               /\ \A i \in DOMAIN snapshot : snapshot'[i] = snapshot[i]
            \/ /\ request[w].op = "refreeze" /\ request[w].row \in DOMAIN snapshot
               /\ snapshot[request[w].row].account = request[w].account
               /\ DOMAIN snapshot' = DOMAIN snapshot
               /\ snapshot'[request[w].row] = NewSnapshot(request[w])
               /\ \A i \in DOMAIN snapshot : i # request[w].row => snapshot'[i] = snapshot[i]
<1> DEFINE q == request[w]
           n == NewSnapshot(q)
<1>1. /\ q.op \in {"freeze", "refreeze"} /\ Sensible(q) /\ snapshot \in Seq(SnapshotRows)
      /\ snapshot' = IF q.row = 0 THEN Append(snapshot, n) ELSE [snapshot EXCEPT ![q.row] = n]
  BY DEF WriteSnapshot, WellTyped, Books, NewSnapshot
<1>2. /\ q.account \in Accounts /\ q.coefficient \in Coefficients
      /\ q.grid.own \in Tables /\ q.grid.common \in Tables
      /\ q.row = 0 \/ (q.op = "refreeze" /\ q.row \in DOMAIN snapshot /\ snapshot[q.row].account = q.account)
  BY <1>1 DEF Sensible
<1>3. Serialize(q.grid) \in SUBSET KeptPrices
  BY <1>2, SnapshotReplays
<1>4. n \in SnapshotRows /\ n.account = q.account /\ n.prices = Serialize(q.grid)
  BY <1>2, <1>3 DEF SnapshotRows, NewSnapshot
<1> HIDE DEF n, q
<1>5. DOMAIN snapshot = 1 .. Len(snapshot) /\ Len(snapshot) \in Nat
  BY <1>1
<1>6. CASE q.row = 0
  <2>1. snapshot' = Append(snapshot, n)
    BY <1>1, <1>6
  <2>2. snapshot \in Seq(SnapshotRows) /\ n \in SnapshotRows
    BY <1>1, <1>4
  <2>3. /\ snapshot' \in Seq(SnapshotRows) /\ Len(snapshot') = Len(snapshot) + 1
        /\ snapshot'[Len(snapshot) + 1] = n
        /\ \A i \in 1 .. Len(snapshot) : snapshot'[i] = snapshot[i]
    BY <2>1, <2>2, AppendProperties
  <2>4. DOMAIN snapshot' = 1 .. (Len(snapshot) + 1)
    BY <2>3
  <2>5. QED BY <1>2, <1>4, <1>5, <1>6, <2>3, <2>4 DEF n, q
<1>7. CASE q.row # 0
  <2>1. snapshot' = [snapshot EXCEPT ![q.row] = n] /\ q.row \in DOMAIN snapshot
    BY <1>1, <1>2, <1>7
  <2>2. /\ snapshot' \in Seq(SnapshotRows) /\ DOMAIN snapshot' = DOMAIN snapshot
        /\ snapshot'[q.row] = n
        /\ \A i \in DOMAIN snapshot : i # q.row => snapshot'[i] = snapshot[i]
    BY <1>1, <1>4, <1>5, <2>1, ExceptSeq
  <2>3. QED BY <1>2, <1>4, <1>7, <2>2 DEF n, q
<1>8. QED BY <1>6, <1>7

\* The requests that write a snapshot or the settings of an account, and the others.
LEMMA WritesTyped ==
  ASSUME WellTyped, NEW w \in Servers,
         WriteSnapshot(w) \/ WritePolicy(w) \/ WriteSettings(w) \/ CreateAccount(w)
  PROVE  WellTyped'
<1>1. /\ UNCHANGED <<price, lastId, form>> /\ End(w) /\ Sensible(request[w])
      /\ account \in AccountRows /\ Missing \notin Settings
  BY MissingIsApart DEF WriteSnapshot, WritePolicy, WriteSettings, CreateAccount, WellTyped, Books, policyVars
<1>2. request' = [v \in Servers |-> request'[v]]
  BY <1>1 DEF End, WellTyped, Books
<1>3. CASE WriteSnapshot(w)
  <2>1. /\ UNCHANGED account /\ snapshot' \in Seq(SnapshotRows)
        /\ DOMAIN snapshot \subseteq DOMAIN snapshot'
        /\ \A i \in DOMAIN snapshot : snapshot'[i].account = snapshot[i].account
    BY <1>3, SnapshotWritten DEF WriteSnapshot
  <2>2. Books'
    BY <1>1, <1>2, <2>1 DEF WellTyped, Books, Exists
  <2>3. QED BY <1>1, <2>1, <2>2, AnswerStep DEF Exists
<1>4. CASE WritePolicy(w)
  <2>1. /\ request[w].seen \in AccountRows /\ request[w].policy \in BillingDays /\ UNCHANGED snapshot
        /\ account' = [a \in Accounts |->
             IF request[w].seen[a] = Missing \/ request[w].seen[a].policy = request[w].policy THEN account[a]
             ELSE [request[w].seen[a] EXCEPT !.policy = request[w].policy]]
    BY <1>1, <1>4 DEF WritePolicy, LeftAlone, Sensible
  <2>2. ASSUME NEW a \in Accounts
        PROVE  account'[a] \in Settings \cup {Missing} /\ (Exists(a) => Exists(a)')
    <3>1. CASE request[w].seen[a] = Missing \/ request[w].seen[a].policy = request[w].policy
      BY <1>1, <2>1, <3>1 DEF AccountRows, Exists
    <3>2. CASE ~(request[w].seen[a] = Missing \/ request[w].seen[a].policy = request[w].policy)
      <4>1. request[w].seen[a] \in Settings
        BY <2>1, <3>2 DEF AccountRows
      <4>2. account'[a] \in Settings
        BY <2>1, <3>2, <4>1 DEF Settings
      <4>3. QED BY <1>1, <4>2 DEF Exists
    <3>3. QED BY <3>1, <3>2
  <2>3. Books'
    BY <1>1, <1>2, <2>1, <2>2, BillingAssumption DEF WellTyped, Books, AccountRows
  <2>4. QED BY <1>1, <2>1, <2>2, <2>3, AnswerStep
<1>5. CASE WriteSettings(w) \/ CreateAccount(w)
  <2>1. /\ request[w].write \in Settings /\ request[w].account \in Accounts /\ UNCHANGED snapshot
        /\ account' = account \/ account' = [account EXCEPT ![request[w].account] = request[w].write]
    BY <1>1, <1>5 DEF WriteSettings, CreateAccount, Sensible
  <2>2. account' \in AccountRows /\ \A a \in Accounts : Exists(a) => Exists(a)'
    BY <1>1, <2>1 DEF AccountRows, Exists
  <2>3. Books'
    BY <1>1, <1>2, <2>1, <2>2, BillingAssumption DEF WellTyped, Books
  <2>4. QED BY <1>1, <2>1, <2>2, <2>3, AnswerStep
<1>6. QED BY <1>3, <1>4, <1>5

\* Every step keeps the books.
LEMMA BooksStep == WellTyped /\ [BillingNext]_billingVars => WellTyped'
<1>1. SUFFICES ASSUME WellTyped, [BillingNext]_billingVars PROVE WellTyped'
  OBVIOUS
<1>2. CASE UNCHANGED <<account, snapshot, request, lastId>> /\ price' \subseteq price /\ Filled'
  BY <1>1, <1>2 DEF WellTyped, Books, Sensible, Exists
<1>3. CASE Tick \/ (\E r \in price : DeletePrice(r)) \/ UNCHANGED billingVars
  <2>1. UNCHANGED <<account, snapshot, request, lastId, form>> /\ price' \subseteq price
    BY <1>3 DEF Tick, DeletePrice, billingVars, policyVars
  <2>2. Filled'
    BY <1>1, <2>1 DEF WellTyped, Filled, Exists
  <2>3. QED BY <1>2, <2>1, <2>2
<1>4. ASSUME NEW w \in Servers,
             \/ \E m \in Models, u \in Units :
                  \/ \E s \in Scopes : CheckNewPrice(w, s, m, u)
                  \/ \E r \in price : CheckEdit(w, r, m, u)
             \/ \E a \in Accounts :
                  \/ Consult(w, a) \/ Refreeze(w, a) \/ FirstLogin(w, a)
                  \/ \E own \in BOOLEAN : ClientSave(w, a, own)
             \/ \E own \in BOOLEAN, c \in Coefficients : OperatorSave(w, own, c)
             \/ \E p \in BillingDays : ReadPolicy(w, p)
      PROVE  WellTyped'
  BY <1>1, <1>4, ReadsTyped
<1>5. ASSUME NEW w \in Servers, \/ InsertPrice(w) \/ WriteEdit(w) \/ WriteSnapshot(w)
                                \/ WritePolicy(w) \/ WriteSettings(w) \/ CreateAccount(w)
      PROVE  WellTyped'
  BY <1>1, <1>5, PricesTyped, WritesTyped
<1>6. ASSUME NEW a \in Accounts, LoadForm(a) PROVE WellTyped'
  <2>1. /\ UNCHANGED <<account, snapshot, request, lastId, price>>
        /\ Exists(a) /\ form'.account = a /\ form'.settings = account[a]
    BY <1>6 DEF LoadForm
  <2>2. account[a] \in Settings
    BY <1>1, <2>1 DEF WellTyped, Books, AccountRows, Exists
  <2>3. Filled'
    BY <2>1, <2>2 DEF Filled, Exists
  <2>4. QED BY <1>2, <2>1, <2>3
<1>7. QED BY <1>1, <1>3, <1>4, <1>5, <1>6 DEF BillingNext

\* One account, no prices, no snapshots.
LEMMA BooksBegin == BillingInit => WellTyped
<1>1. SUFFICES ASSUME BillingInit PROVE WellTyped
  OBVIOUS
<1>2. [policy |-> 1, coefficient |-> 1, own |-> FALSE] \in Settings
  BY BillingAssumption DEF Settings
<1>3. account \in AccountRows /\ Exists(Oldest)
  BY <1>1, <1>2, BillingAssumption, MissingIsApart DEF BillingInit, AccountRows, Exists
<1>4. /\ request = [w \in Servers |-> request[w]]
      /\ \A w \in Servers : request[w] = Idle
  BY <1>1 DEF BillingInit
<1>5. Books
  BY <1>1, <1>3, <1>4 DEF BillingInit, Books
<1>6. Filled
  BY <1>1 DEF BillingInit, Filled
<1>7. QED BY <1>4, <1>5, <1>6, IdleSensible DEF WellTyped

\* Billing keeps its books: every row, snapshot and request under way is well formed
\* (usage_pricing.py, usage.py, admin.py, settings.py).
LEMMA BooksAlways == BillingSpec => []WellTyped
BY BooksBegin, BooksStep, PTL DEF BillingSpec

\* Only the write of a snapshot answers a request to freeze, or changes the snapshots.
LEMMA SnapshotsByRequest ==
  ASSUME WellTyped, [BillingNext]_billingVars
  PROVE  /\ snapshot' # snapshot => \E w \in Servers : WriteSnapshot(w)
         /\ \A w \in Servers : request[w].op \in {"freeze", "refreeze"} /\ request'[w] = Idle => WriteSnapshot(w)
<1>1. CASE UNCHANGED request /\ UNCHANGED snapshot
  BY <1>1, IdleSensible
<1>2. CASE Tick \/ (\E r \in price : DeletePrice(r)) \/ (\E a \in Accounts : LoadForm(a)) \/ UNCHANGED billingVars
  BY <1>1, <1>2 DEF Tick, DeletePrice, LoadForm, billingVars
<1>3. ASSUME NEW v \in Servers, UNCHANGED snapshot,
             \/ request[v] = Idle
             \/ request[v].op \notin {"freeze", "refreeze"},
             \E q : request' = [request EXCEPT ![v] = q]
      PROVE  \A w \in Servers : request[w].op \in {"freeze", "refreeze"} => request'[w] # Idle
  <2>1. PICK q : request' = [request EXCEPT ![v] = q]
    BY <1>3
  <2>2. \A w \in Servers : w # v => request'[w] = request[w]
    BY <2>1 DEF WellTyped, Books
  <2>3. QED BY <1>3, <2>2, IdleSensible
<1>4. ASSUME NEW v \in Servers,
             \/ \E m \in Models, u \in Units :
                  \/ \E s \in Scopes : CheckNewPrice(v, s, m, u)
                  \/ \E r \in price : CheckEdit(v, r, m, u)
             \/ \E a \in Accounts :
                  \/ Consult(v, a) \/ Refreeze(v, a) \/ FirstLogin(v, a)
                  \/ \E own \in BOOLEAN : ClientSave(v, a, own)
             \/ \E own \in BOOLEAN, c \in Coefficients : OperatorSave(v, own, c)
             \/ \E p \in BillingDays : ReadPolicy(v, p)
      PROVE  UNCHANGED snapshot /\ request[v] = Idle /\ \E q : request' = [request EXCEPT ![v] = q]
  BY <1>4 DEF CheckNewPrice, CheckEdit, Consult, Refreeze, FirstLogin, ClientSave, OperatorSave,
              Save, ReadPolicy, Begin
<1>5. ASSUME NEW v \in Servers, InsertPrice(v) \/ WriteEdit(v) \/ WritePolicy(v) \/ WriteSettings(v) \/ CreateAccount(v)
      PROVE  /\ UNCHANGED snapshot /\ request[v].op \notin {"freeze", "refreeze"}
             /\ \E q : request' = [request EXCEPT ![v] = q]
  BY <1>5 DEF InsertPrice, WriteEdit, WritePolicy, WriteSettings, CreateAccount, End
<1>6. ASSUME NEW v \in Servers, WriteSnapshot(v)
      PROVE  \A w \in Servers : w # v => request'[w] = request[w]
  BY <1>6 DEF WriteSnapshot, End, WellTyped, Books
<1>7. QED BY <1>2, <1>3, <1>4, <1>5, <1>6, IdleSensible DEF BillingNext

\* FreezeExact, for any number of requests, accounts and prices: a snapshot bills each model as
\* the grid it was taken from (serialize_grid, grid_from_snapshot).
THEOREM SnapshotsBillTheirGrid == BillingSpec => FreezeExact
<1>1. ASSUME WellTyped, [BillingNext]_billingVars, NEW w \in Servers,
             request[w].op \in {"freeze", "refreeze"}, request'[w] = Idle
      PROVE  \E i \in DOMAIN snapshot' : \A m \in Models :
               Resolve(Replay(snapshot'[i].prices), m) = Resolve(request[w].grid, m)
  <2>1. WriteSnapshot(w)
    BY <1>1, SnapshotsByRequest
  <2>2. PICK i \in DOMAIN snapshot' : snapshot'[i].prices = Serialize(request[w].grid)
    BY <1>1, <2>1, SnapshotWritten
  <2>3. request[w].grid.own \in Tables /\ request[w].grid.common \in Tables
    BY <1>1 DEF WellTyped, Sensible
  <2>4. QED BY <2>2, <2>3, SnapshotReplays
<1>2. WellTyped /\ [BillingNext]_billingVars =>
        [\A w \in Servers :
           /\ request[w].op \in {"freeze", "refreeze"} /\ request'[w] = Idle
           => \E i \in DOMAIN snapshot' : \A m \in Models :
                Resolve(Replay(snapshot'[i].prices), m) = Resolve(request[w].grid, m)]_billingVars
  BY <1>1
<1>3. QED BY <1>2, BooksAlways, PTL DEF BillingSpec, FreezeExact

\* The only snapshot of a billed month stays as it is: a step that writes another row, or that
\* freezes another account, does not touch it.
LEMMA OnlySnapshotStays ==
  ASSUME WellTyped, [BillingNext]_billingVars, NEW a \in Accounts,
         Cardinality(SnapshotsOf(a)) = 1, Cardinality(SnapshotsOf(a)') = 1, ~RefrozenNow(a)
  PROVE  /\ SnapshotsOf(a)' = SnapshotsOf(a)
         /\ \A i \in SnapshotsOf(a) : snapshot'[i] = snapshot[i]
<1>1. CASE snapshot' = snapshot
  BY <1>1 DEF SnapshotsOf
<1>2. CASE snapshot' # snapshot
  <2>1. PICK w \in Servers : WriteSnapshot(w)
    BY <1>2, SnapshotsByRequest
  <2>2. request'[w] = Idle
    BY <2>1 DEF WriteSnapshot, End, WellTyped, Books
  <2>3. CASE request[w].row = 0
    <3>1. PICK new : new = Len(snapshot) + 1
      OBVIOUS
    <3>2. /\ DOMAIN snapshot = 1 .. Len(snapshot) /\ Len(snapshot) \in Nat
          /\ DOMAIN snapshot' = DOMAIN snapshot \cup {new} /\ new \notin DOMAIN snapshot
          /\ snapshot'[new].account = request[w].account
          /\ \A i \in DOMAIN snapshot : snapshot'[i] = snapshot[i]
      <4>1. /\ DOMAIN snapshot = 1 .. Len(snapshot) /\ Len(snapshot) \in Nat
            /\ request[w].row \notin DOMAIN snapshot
        BY <2>3 DEF WellTyped, Books
      <4>2. /\ DOMAIN snapshot' = 1 .. (Len(snapshot) + 1)
            /\ snapshot'[Len(snapshot) + 1].account = request[w].account
            /\ \A i \in DOMAIN snapshot : snapshot'[i] = snapshot[i]
        BY <2>1, <4>1, SnapshotWritten
      <4>3. 1 .. (Len(snapshot) + 1) = (1 .. Len(snapshot)) \cup {Len(snapshot) + 1}
        BY <4>1
      <4>4. QED BY <3>1, <4>1, <4>2, <4>3
    <3>3. CASE request[w].account = a
      <4>1. SnapshotsOf(a)' = SnapshotsOf(a) \cup {new} /\ new \notin SnapshotsOf(a)
        BY <3>2, <3>3 DEF SnapshotsOf
      <4>2. IsFiniteSet(SnapshotsOf(a))
        <5>1. SnapshotsOf(a) \subseteq 1 .. Len(snapshot)
          BY <3>2 DEF SnapshotsOf
        <5>2. Len(snapshot) \in Int /\ 1 \in Int
          BY <3>2
        <5>3. IsFiniteSet(1 .. Len(snapshot))
          BY <5>2, FS_Interval
        <5>4. QED BY <5>1, <5>3, FS_Subset
      <4>3. Cardinality(SnapshotsOf(a) \cup {new}) = Cardinality(SnapshotsOf(a)) + 1
        BY <4>1, <4>2, FS_AddElement
      <4>4. QED BY <4>1, <4>3
    <3>4. CASE request[w].account # a
      BY <3>2, <3>4 DEF SnapshotsOf
    <3>5. QED BY <3>3, <3>4
  <2>4. CASE request[w].row # 0
    <3>1. /\ request[w].op = "refreeze" /\ request[w].row \in DOMAIN snapshot
          /\ snapshot[request[w].row].account = request[w].account
          /\ DOMAIN snapshot' = DOMAIN snapshot
          /\ snapshot'[request[w].row].account = request[w].account
          /\ \A i \in DOMAIN snapshot : i # request[w].row => snapshot'[i] = snapshot[i]
      BY <2>1, <2>4, SnapshotWritten
    <3>2. request[w].account # a
      BY <2>2, <3>1 DEF RefrozenNow
    <3>3. QED BY <3>1, <3>2 DEF SnapshotsOf
  <2>5. QED BY <2>3, <2>4
<1>3. QED BY <1>1, <1>2

\* FrozenBillStable, for any number of accounts, requests and prices: a month that stays billed,
\* and has one snapshot, is served at it until the operator freezes it again (_resolve_pricing).
THEOREM BilledMonthStands == BillingSpec => FrozenBillStable
<1>1. ASSUME WellTyped, [BillingNext]_billingVars, NEW a \in Accounts, Frozen(a), Frozen(a)',
             Cardinality(SnapshotsOf(a)) = 1, Cardinality(SnapshotsOf(a)') = 1, ~RefrozenNow(a)
      PROVE  Pricing(a)' = Pricing(a)
  <2>1. /\ SnapshotsOf(a)' = SnapshotsOf(a)
        /\ \A i \in SnapshotsOf(a) : snapshot'[i] = snapshot[i]
    BY <1>1, OnlySnapshotStays
  <2>2. SnapshotsOf(a) # {}
    BY <1>1, FS_EmptySet
  <2>3. Pricing(a) = {Bill(Replay(snapshot[i].prices), snapshot[i].coefficient) : i \in SnapshotsOf(a)}
    BY <1>1, <2>2 DEF Pricing
  <2>4. Pricing(a)' = {Bill(Replay(snapshot'[i].prices), snapshot'[i].coefficient) : i \in SnapshotsOf(a)'}
    BY <1>1, <2>1, <2>2 DEF Pricing, Bill, Replay, Resolve, Pick
  <2>5. QED BY <2>1, <2>3, <2>4
<1>2. WellTyped /\ [BillingNext]_billingVars =>
        [\A a \in Accounts :
           /\ Frozen(a) /\ Frozen(a)'
           /\ Cardinality(SnapshotsOf(a)) = 1 /\ Cardinality(SnapshotsOf(a)') = 1
           /\ ~RefrozenNow(a)
           => Pricing(a)' = Pricing(a)]_billingVars
  BY <1>1
<1>3. QED BY <1>2, BooksAlways, PTL DEF BillingSpec, FrozenBillStable

-----------------------------------------------------------------------------
(* The operator's policy *)

\* Settings that were read at some time; unless outdated, they carry the policy p.
Fits(read, settings, p) ==
  /\ read.edition \in Nat /\ read.edition <= edition
  /\ ~Outdated(read) => settings.policy = p

\* Every account that is not behind carries the policy p.
Alike(p) == \A a \in Accounts \ behind : Exists(a) => account[a].policy = p

Pending(q) == q.op \in {"save", "login"}

\* So will every account a request or the form is about to be written to: this is what
\* makes PolicyUniform inductive.
Agrees(p) ==
  /\ edition \in Nat /\ Alike(p)
  /\ \A w \in Servers : Pending(request[w]) => Fits(request[w].read, request[w].write, p)
  /\ form = Blank \/ Fits(form.read, form.settings, p)

Uniform == \E p : Agrees(p)

\* What was read fits as long as the policy is not written.
LEMMA FitsStill ==
  ASSUME NEW r, NEW s, NEW p, Fits(r, s, p), UNCHANGED edition
  PROVE  Fits(r, s, p)'
BY DEF Fits, Outdated

\* A step that moves one request, and leaves the form and the policy.
LEMMA AgreesMove ==
  ASSUME WellTyped, NEW p, Agrees(p), NEW w \in Servers, NEW q,
         request' = [request EXCEPT ![w] = q], UNCHANGED <<form, edition>>, Alike(p)',
         Pending(q) => Fits(q.read, q.write, p)
  PROVE  Uniform'
<1>1. \A v \in Servers : request'[v] = IF v = w THEN q ELSE request[v]
  BY DEF WellTyped, Books
<1>2. ASSUME NEW v \in Servers, Pending(request[v])' PROVE Fits(request[v].read, request[v].write, p)'
  <2>1. PICK k : k = request'[v]
    OBVIOUS
  <2>2. Pending(k)
    BY <1>2, <2>1 DEF Pending
  <2>3. Fits(k.read, k.write, p)
    BY <1>1, <2>1, <2>2 DEF Agrees
  <2>4. Fits(k.read, k.write, p)'
    BY <2>3, FitsStill
  <2>5. QED BY <2>1, <2>4 DEF Fits, Outdated
<1>3. (form = Blank \/ Fits(form.read, form.settings, p))'
  BY DEF Agrees, Fits, Outdated, Blank
<1>4. Agrees(p)'
  BY <1>2, <1>3 DEF Agrees
<1>5. QED BY <1>4 DEF Uniform

\* A request begins: what it is to write, if anything, fits.
LEMMA AgreesAsk ==
  ASSUME WellTyped, NEW p, Agrees(p), NEW w \in Servers, NEW q, Begin(w, q),
         UNCHANGED <<account, policyVars>>, Pending(q) => Fits(q.read, q.write, p)
  PROVE  Uniform'
<1>1. request' = [request EXCEPT ![w] = q] /\ UNCHANGED <<form, edition, behind>>
  BY DEF Begin, policyVars
<1>2. Alike(p)'
  BY <1>1 DEF Agrees, Alike, Exists
<1>3. QED BY <1>1, <1>2, AgreesMove

\* A request ends: the accounts that are not behind carry the policy.
LEMMA AgreesAnswer ==
  ASSUME WellTyped, NEW p, Agrees(p), NEW w \in Servers, End(w), UNCHANGED <<form, edition>>, Alike(p)'
  PROVE  Uniform'
<1>1. request' = [request EXCEPT ![w] = Idle]
  BY DEF End
<1>2. ~Pending(Idle)
  BY DEF Pending, Idle
<1>3. QED BY <1>1, <1>2, AgreesMove

\* What is read of an account now fits: it is marked if the account is behind.
LEMMA ReadFits ==
  ASSUME WellTyped, NEW p, Agrees(p), NEW a \in Accounts, Exists(a), NEW s, s.policy = account[a].policy
  PROVE  Fits(ReadNow(a), s, p)
<1>1. ReadNow(a).edition = edition /\ ReadNow(a).behind = (a \in behind)
  BY DEF ReadNow
<1>2. a \notin behind => s.policy = p
  BY DEF Agrees, Alike
<1>3. edition \in Nat
  BY DEF Agrees
<1>4. ~Outdated(ReadNow(a)) => a \notin behind
  BY <1>1 DEF Outdated
<1>5. ReadNow(a).edition \in Nat /\ ReadNow(a).edition <= edition
  BY <1>1, <1>3
<1>6. QED BY <1>2, <1>4, <1>5 DEF Fits

\* The requests that read settings.
LEMMA ReadsAgree ==
  ASSUME WellTyped, Uniform, NEW w \in Servers,
         \/ \E a \in Accounts : FirstLogin(w, a)
         \/ \E a \in Accounts, own \in BOOLEAN : ClientSave(w, a, own)
         \/ \E own \in BOOLEAN, c \in Coefficients : OperatorSave(w, own, c)
         \/ \E p \in BillingDays : ReadPolicy(w, p)
  PROVE  Uniform'
<1>1. PICK p : Agrees(p)
  BY DEF Uniform
<1>2. \A a \in Accounts : Exists(a) => account[a] \in Settings
  BY DEF WellTyped, Books, Exists, AccountRows
<1>3. ASSUME NEW a \in Accounts, FirstLogin(w, a) PROVE Uniform'
  <2>1. PICK s : s = Seed(account[Oldest])
    OBVIOUS
  <2>2. PICK r : r = ReadNow(Oldest)
    OBVIOUS
  <2>3. PICK q : q = [op |-> "login", account |-> a, write |-> s, read |-> r]
    OBVIOUS
  <2>4. Begin(w, q) /\ UNCHANGED <<account, policyVars>>
    BY <1>3, <2>1, <2>2, <2>3 DEF FirstLogin
  <2>5. Fits(r, s, p)
    <3>1. Oldest \in Accounts /\ Exists(Oldest) /\ s.policy = account[Oldest].policy
      BY <2>1, BillingAssumption DEF Seed, WellTyped, Books
    <3>2. QED BY <1>1, <2>2, <3>1, ReadFits
  <2>6. QED BY <1>1, <2>3, <2>4, <2>5, AgreesAsk
<1>4. ASSUME NEW a, NEW s, NEW r, Save(w, a, s, r), Fits(r, s, p) PROVE Uniform'
  <2>1. PICK q : q = [op |-> "save", account |-> a, seen |-> account[a], write |-> s, read |-> r]
    OBVIOUS
  <2>2. Begin(w, q) /\ UNCHANGED <<account, policyVars>>
    BY <1>4, <2>1 DEF Save
  <2>3. QED BY <1>1, <1>4, <2>1, <2>2, AgreesAsk
<1>5. ASSUME NEW a \in Accounts, NEW own \in BOOLEAN, ClientSave(w, a, own) PROVE Uniform'
  <2>1. PICK s : s = [account[a] EXCEPT !.own = own]
    OBVIOUS
  <2>2. PICK r : r = ReadNow(a)
    OBVIOUS
  <2>3. Exists(a) /\ Save(w, a, s, r) /\ s.policy = account[a].policy
    BY <1>2, <1>5, <2>1, <2>2 DEF ClientSave, Settings
  <2>4. Fits(r, s, p)
    BY <1>1, <2>2, <2>3, ReadFits
  <2>5. QED BY <1>4, <2>3, <2>4
<1>6. ASSUME NEW own \in BOOLEAN, NEW c \in Coefficients, OperatorSave(w, own, c) PROVE Uniform'
  <2>1. PICK s : s = [form.settings EXCEPT !.own = own, !.coefficient = c]
    OBVIOUS
  <2>2. PICK a, r : a = form.account /\ r = form.read
    OBVIOUS
  <2>3. form # Blank /\ Save(w, a, s, r) /\ form.settings \in Settings
    BY <1>6, <2>1, <2>2 DEF OperatorSave, WellTyped, Filled
  <2>4. s.policy = form.settings.policy
    BY <2>1, <2>3 DEF Settings
  <2>5. Fits(form.read, form.settings, p)
    BY <1>1, <2>3 DEF Agrees
  <2>6. Fits(r, s, p)
    BY <2>2, <2>4, <2>5 DEF Fits, Outdated
  <2>7. QED BY <1>4, <2>3, <2>6
<1>7. ASSUME NEW d \in BillingDays, ReadPolicy(w, d) PROVE Uniform'
  <2>1. PICK q : q = [op |-> "policy", policy |-> d, seen |-> account]
    OBVIOUS
  <2>2. Begin(w, q) /\ UNCHANGED <<account, policyVars>>
    BY <1>7, <2>1 DEF ReadPolicy
  <2>3. ~Pending(q)
    BY <2>1 DEF Pending
  <2>4. QED BY <1>1, <2>2, <2>3, AgreesAsk
<1>8. QED BY <1>3, <1>5, <1>6, <1>7

\* The operator's form goes to every account its request has read; the others that do not
\* carry it are behind, and so is whatever was read before.
LEMMA PolicyAgrees ==
  ASSUME WellTyped, Uniform, NEW w \in Servers, WritePolicy(w)
  PROVE  Uniform'
<1>1. PICK o : Agrees(o)
  BY DEF Uniform
<1>2. PICK q : q = request[w]
  OBVIOUS
<1>3. PICK p : p = q.policy
  OBVIOUS
<1>4. /\ q.op = "policy" /\ q.seen \in AccountRows /\ Missing \notin Settings
      /\ account' = [a \in Accounts |->
           IF LeftAlone(q, a) THEN account[a] ELSE [q.seen[a] EXCEPT !.policy = p]]
      /\ edition' = edition + 1 /\ UNCHANGED form /\ End(w)
      /\ behind' = {a \in Accounts : Exists(a) /\ LeftAlone(q, a) /\
                      (q.seen[a] = Missing \/ account[a].policy # p)}
  BY <1>2, <1>3, MissingIsApart DEF WritePolicy, WellTyped, Sensible
<1>5. Alike(p)'
  <2>1. ASSUME NEW a \in Accounts, a \notin behind', Exists(a)' PROVE account'[a].policy = p
    <3>1. CASE LeftAlone(q, a)
      BY <1>4, <2>1, <3>1 DEF Exists
    <3>2. CASE ~LeftAlone(q, a)
      <4>1. q.seen[a] \in Settings
        BY <1>4, <3>2 DEF LeftAlone, AccountRows
      <4>2. QED BY <1>4, <3>2, <4>1 DEF Settings
    <3>3. QED BY <3>1, <3>2
  <2>2. QED BY <2>1 DEF Alike
<1>6. ASSUME NEW r, NEW s, Fits(r, s, o) PROVE Fits(r, s, p)'
  BY <1>1, <1>4, <1>6 DEF Fits, Outdated, Agrees
<1>7. \A v \in Servers : request'[v] = IF v = w THEN Idle ELSE request[v]
  BY <1>4 DEF WellTyped, Books, End
<1>8. ASSUME NEW v \in Servers, Pending(request[v])' PROVE Fits(request[v].read, request[v].write, p)'
  <2>1. PICK k : k = request'[v]
    OBVIOUS
  <2>2. Pending(k)
    BY <1>8, <2>1 DEF Pending
  <2>3. k = request[v]
    BY <1>7, <2>1, <2>2 DEF Pending, Idle
  <2>4. Fits(k.read, k.write, o)
    BY <1>1, <2>2, <2>3 DEF Agrees
  <2>5. Fits(k.read, k.write, p)'
    BY <1>6, <2>4
  <2>6. QED BY <2>1, <2>5 DEF Fits, Outdated
<1>9. (form = Blank \/ Fits(form.read, form.settings, p))'
  <2>1. PICK f : f = form
    OBVIOUS
  <2>2. f = Blank \/ Fits(f.read, f.settings, o)
    BY <1>1, <2>1 DEF Agrees
  <2>3. f = Blank \/ Fits(f.read, f.settings, p)'
    BY <1>6, <2>2
  <2>4. form' = f
    BY <1>4, <2>1
  <2>5. QED BY <2>3, <2>4 DEF Fits, Outdated, Blank
<1>10. Agrees(p)'
  BY <1>1, <1>4, <1>5, <1>8, <1>9 DEF Agrees
<1>11. QED BY <1>10 DEF Uniform

\* A save carries the policy its form was loaded with, a new account the oldest one's: where
\* that one is outdated, the account is behind.
LEMMA SettingsAgree ==
  ASSUME WellTyped, Uniform, NEW w \in Servers, WriteSettings(w) \/ CreateAccount(w)
  PROVE  Uniform'
<1>1. PICK p : Agrees(p)
  BY DEF Uniform
<1>2. PICK q : q = request[w]
  OBVIOUS
<1>3. /\ Pending(q) /\ End(w) /\ UNCHANGED <<form, edition>> /\ account \in AccountRows
      /\ \/ UNCHANGED <<account, behind>>
         \/ account' = [account EXCEPT ![q.account] = q.write] /\ behind' = Mark(q.account, q)
  BY <1>2 DEF WriteSettings, CreateAccount, Pending, WellTyped, Books
<1>4. ~Outdated(q.read) => q.write.policy = p
  BY <1>1, <1>2, <1>3 DEF Agrees, Fits
<1>5. Alike(p)'
  <2>1. CASE UNCHANGED <<account, behind>>
    BY <1>1, <2>1 DEF Agrees, Alike, Exists
  <2>2. CASE account' = [account EXCEPT ![q.account] = q.write] /\ behind' = Mark(q.account, q)
    <3>1. ASSUME NEW a \in Accounts, a \notin behind', Exists(a)' PROVE account'[a].policy = p
      <4>1. CASE a = q.account
        <5>1. ~Outdated(q.read)
          BY <2>2, <3>1, <4>1 DEF Mark
        <5>2. account'[a] = q.write
          BY <1>3, <2>2, <4>1 DEF AccountRows
        <5>3. QED BY <1>4, <5>1, <5>2
      <4>2. CASE a # q.account
        <5>1. a \notin behind /\ account'[a] = account[a]
          BY <1>3, <2>2, <3>1, <4>2 DEF Mark, AccountRows
        <5>2. QED BY <1>1, <3>1, <5>1 DEF Agrees, Alike, Exists
      <4>3. QED BY <4>1, <4>2
    <3>2. QED BY <3>1 DEF Alike
  <2>3. QED BY <1>3, <2>1, <2>2
<1>6. QED BY <1>1, <1>3, <1>5, AgreesAnswer

\* The form is loaded with what its account holds.
LEMMA FormAgrees ==
  ASSUME WellTyped, Uniform, NEW a \in Accounts, LoadForm(a)
  PROVE  Uniform'
<1>1. PICK p : Agrees(p)
  BY DEF Uniform
<1>2. PICK s, r : s = account[a] /\ r = ReadNow(a)
  OBVIOUS
<1>3. /\ UNCHANGED <<account, request, edition, behind>> /\ Exists(a)
      /\ form'.settings = s /\ form'.read = r
  BY <1>2 DEF LoadForm
<1>4. Fits(r, s, p)
  BY <1>1, <1>2, <1>3, ReadFits
<1>5. Fits(r, s, p)'
  BY <1>3, <1>4, FitsStill
<1>6. Fits(form.read, form.settings, p)'
  BY <1>3, <1>5 DEF Fits, Outdated
<1>7. Agrees(p)'
  BY <1>1, <1>3, <1>6 DEF Agrees, Alike, Exists, Fits, Outdated, Pending
<1>8. QED BY <1>7 DEF Uniform

\* Every step keeps it.
LEMMA UniformStep == WellTyped /\ Uniform /\ [BillingNext]_billingVars => Uniform'
<1>1. SUFFICES ASSUME WellTyped, Uniform, [BillingNext]_billingVars PROVE Uniform'
  OBVIOUS
<1>2. PICK p : Agrees(p)
  BY <1>1 DEF Uniform
<1>3. CASE Tick \/ (\E r \in price : DeletePrice(r)) \/ UNCHANGED billingVars
  <2>1. UNCHANGED <<account, request, form, edition, behind>>
    BY <1>3 DEF Tick, DeletePrice, billingVars, policyVars
  <2>2. Agrees(p)'
    BY <1>2, <2>1 DEF Agrees, Alike, Exists, Fits, Outdated, Pending, Blank
  <2>3. QED BY <2>2 DEF Uniform
<1>4. ASSUME NEW w \in Servers,
             \/ \E m \in Models, u \in Units :
                  \/ \E s \in Scopes : CheckNewPrice(w, s, m, u)
                  \/ \E r \in price : CheckEdit(w, r, m, u)
             \/ \E a \in Accounts : Consult(w, a) \/ Refreeze(w, a)
      PROVE  Uniform'
  <2>1. UNCHANGED <<account, policyVars>>
    BY <1>4 DEF CheckNewPrice, CheckEdit, Consult, Refreeze
  <2>2. \E q : Begin(w, q) /\ q.op \in {"create", "edit", "freeze", "refreeze"}
    <3>1. ASSUME NEW m \in Models, NEW u \in Units, NEW s \in Scopes, CheckNewPrice(w, s, m, u)
          PROVE  \E q : Begin(w, q) /\ q.op = "create"
      <4>1. WITNESS [op |-> "create", scope |-> s, model |-> m, unit |-> u]
      <4>2. QED BY <3>1 DEF CheckNewPrice
    <3>2. ASSUME NEW m \in Models, NEW u \in Units, NEW r \in price, CheckEdit(w, r, m, u)
          PROVE  \E q : Begin(w, q) /\ q.op = "edit"
      <4>1. WITNESS [op |-> "edit", row |-> r, model |-> m, unit |-> u]
      <4>2. QED BY <3>2 DEF CheckEdit
    <3>3. ASSUME NEW a \in Accounts, Consult(w, a) PROVE \E q : Begin(w, q) /\ q.op = "freeze"
      <4>1. WITNESS [op |-> "freeze", account |-> a, row |-> 0,
                     coefficient |-> account[a].coefficient, grid |-> Grid(price, a)]
      <4>2. QED BY <3>3 DEF Consult
    <3>4. ASSUME NEW a \in Accounts, Refreeze(w, a) PROVE \E q : Begin(w, q) /\ q.op = "refreeze"
      <4>1. PICK i : Begin(w, [op |-> "refreeze", account |-> a, row |-> i,
                               coefficient |-> account[a].coefficient, grid |-> Grid(price, a)])
        BY <3>4 DEF Refreeze
      <4>2. WITNESS [op |-> "refreeze", account |-> a, row |-> i,
                     coefficient |-> account[a].coefficient, grid |-> Grid(price, a)]
      <4>3. QED BY <4>1
    <3>5. QED BY <1>4, <3>1, <3>2, <3>3, <3>4
  <2>3. PICK q : Begin(w, q) /\ ~Pending(q)
    BY <2>2 DEF Pending
  <2>4. QED BY <1>1, <1>2, <2>1, <2>3, AgreesAsk
<1>5. ASSUME NEW w \in Servers, InsertPrice(w) \/ WriteEdit(w) \/ WriteSnapshot(w) PROVE Uniform'
  <2>1. UNCHANGED <<account, form, edition, behind>> /\ End(w)
    BY <1>5 DEF InsertPrice, WriteEdit, WriteSnapshot, policyVars
  <2>2. Alike(p)'
    BY <1>2, <2>1 DEF Agrees, Alike, Exists
  <2>3. QED BY <1>1, <1>2, <2>1, <2>2, AgreesAnswer
<1>6. ASSUME NEW w \in Servers,
             \/ \E a \in Accounts :
                  \/ FirstLogin(w, a)
                  \/ \E own \in BOOLEAN : ClientSave(w, a, own)
             \/ \E own \in BOOLEAN, c \in Coefficients : OperatorSave(w, own, c)
             \/ \E d \in BillingDays : ReadPolicy(w, d)
      PROVE  Uniform'
  BY <1>1, <1>6, ReadsAgree
<1>7. ASSUME NEW w \in Servers, WritePolicy(w) \/ WriteSettings(w) \/ CreateAccount(w) PROVE Uniform'
  BY <1>1, <1>7, PolicyAgrees, SettingsAgree
<1>8. ASSUME NEW a \in Accounts, LoadForm(a) PROVE Uniform'
  BY <1>1, <1>8, FormAgrees
<1>9. QED BY <1>1, <1>3, <1>4, <1>5, <1>6, <1>7, <1>8 DEF BillingNext

\* PolicyUniform, for any number of accounts, requests, forms and writings of the policy: the
\* accounts carry one policy, but for those an older reading of it was written to, or created
\* while it was written (update_operator_settings, update_account_settings,
\* get_or_create_company_account).
THEOREM PolicyIsUniform == BillingSpec => []PolicyUniform
<1>1. BillingInit => Uniform
  <2>1. SUFFICES ASSUME BillingInit PROVE Uniform
    OBVIOUS
  <2>2. \A a \in Accounts : Exists(a) => a = Oldest
    BY <2>1 DEF BillingInit, Exists
  <2>3. \A w \in Servers : ~Pending(request[w])
    BY <2>1 DEF BillingInit, Pending, Idle
  <2>4. form = Blank /\ edition \in Nat
    BY <2>1 DEF BillingInit
  <2>5. Agrees(account[Oldest].policy)
    BY <2>2, <2>3, <2>4 DEF Agrees, Alike
  <2>6. QED BY <2>5 DEF Uniform
<1>2. Uniform => PolicyUniform
  BY DEF Uniform, Agrees, Alike, PolicyUniform
<1>3. QED BY <1>1, <1>2, UniformStep, BooksAlways, PTL DEF BillingSpec

-----------------------------------------------------------------------------
(* Sums by groups *)

\* A sum over a finite set is the tally of its terms.
LEMMA SumFunctionIsTally ==
  ASSUME NEW S, IsFiniteSet(S), NEW f, DOMAIN f = S, \A x \in S : f[x] \in Int
  PROVE  SumFunction(f) = Tally(f, S)
<1> DEFINE Adds(it) == it = [s \in SUBSET S |->
             IF s = {} THEN 0
             ELSE f[CHOOSE x \in s : TRUE] + it[s \ {CHOOSE x \in s : TRUE}]]
<1>1. SumFunction(f) = (CHOOSE it : Adds(it))[S]
  BY DEF SumFunction, SumFunctionOnSet, FoldFunctionOnSet, MapThenFoldSet
<1>2. ASSUME NEW it PROVE IsFold(it, f, S) <=> Adds(it)
  BY DEF IsFold
<1> HIDE DEF Adds
<1>3. \E it : Adds(it)
  BY <1>2, TallyIsFold
<1>4. PICK it : it = CHOOSE k : Adds(k)
  OBVIOUS
<1>5. Adds(it)
  BY <1>3, <1>4
<1>6. IsFold(it, f, S)
  BY <1>2, <1>5
<1>7. it[S] = Tally(f, S)
  BY <1>6, FoldIsTally
<1>8. QED BY <1>1, <1>4, <1>7

\* The tally of a set is the value of one element and the tally of the rest.
LEMMA TallyTakes ==
  ASSUME NEW S, IsFiniteSet(S), NEW f, \A x \in S : f[x] \in Int, NEW c \in S
  PROVE  /\ Tally(f, S) = f[c] + Tally(f, S \ {c})
         /\ Tally(f, S) \in Int /\ Tally(f, S \ {c}) \in Int
<1>1. {c} \in SUBSET S /\ f[c] \in Int
  OBVIOUS
<1>2. /\ Tally(f, S) = Tally(f, {c}) + Tally(f, S \ {c})
      /\ Tally(f, S \ {c}) \in Int /\ Tally(f, S) \in Int
  BY <1>1, TallySplit
<1>3. Tally(f, {c}) = f[c]
  BY <1>1, TallyOfOne
<1>4. QED BY <1>2, <1>3

\* A tally is an integer.
LEMMA TallyType ==
  ASSUME NEW S, IsFiniteSet(S), NEW f, \A x \in S : f[x] \in Int
  PROVE  Tally(f, S) \in Int
<1>1. {} \in SUBSET S
  OBVIOUS
<1>2. QED BY <1>1, TallySplit

\* Nothing but zeros comes to zero.
LEMMA TallyOfZeros ==
  ASSUME NEW S, NEW f, \A x \in S : f[x] = 0
  PROVE  Tally(f, S) = 0
<1>1. PICK h : h = [x \in S |-> -f[x]]
  OBVIOUS
<1>2. \A x \in S : h[x] = 0
  BY <1>1
<1>3. Coins(f, S) = {} /\ Coins(h, S) = {}
  BY <1>2 DEF Coins
<1>4. Cardinality({}) = 0
  BY FS_EmptySet
<1>5. Tally(f, S) = Cardinality(Coins(f, S)) - Cardinality(Coins(h, S))
  BY <1>1 DEF Tally
<1>6. QED BY <1>3, <1>4, <1>5

\* Elements worth nothing can be left out.
LEMMA TallyOfTheRest ==
  ASSUME NEW S, IsFiniteSet(S), NEW f, \A x \in S : f[x] \in Int,
         NEW N \in SUBSET S, \A x \in S \ N : f[x] = 0
  PROVE  Tally(f, S) = Tally(f, N)
<1>1. /\ Tally(f, S) = Tally(f, N) + Tally(f, S \ N) /\ Tally(f, N) \in Int
  BY TallySplit
<1>2. Tally(f, S \ N) = 0
  BY TallyOfZeros
<1>3. QED BY <1>1, <1>2

\* The elements of one group.
Part(S, g, k) == {x \in S : g[x] = k}

\* A tally may be taken group by group.
LEMMA TallyByGroups ==
  ASSUME NEW S, IsFiniteSet(S), NEW f, \A x \in S : f[x] \in Int,
         NEW K, IsFiniteSet(K), NEW g, \A x \in S : g[x] \in K,
         NEW h, \A k \in K : h[k] = Tally(f, Part(S, g, k))
  PROVE  /\ Tally(f, S) = Tally(h, K)
         /\ \A k \in K : h[k] \in Int
<1> DEFINE Of(L) == {x \in S : g[x] \in L}
           Bad == {L \in SUBSET K : Tally(f, Of(L)) # Tally(h, L)}
<1>1. \A k \in K : h[k] \in Int
  <2>1. ASSUME NEW k \in K PROVE Tally(f, Part(S, g, k)) \in Int
    <3>1. PICK T : T = Part(S, g, k)
      OBVIOUS
    <3>2. IsFiniteSet(T) /\ \A x \in T : f[x] \in Int
      BY <3>1, FS_Subset DEF Part
    <3>3. QED BY <3>1, <3>2, TallyType
  <2>2. QED BY <2>1
<1>2. ASSUME NEW L \in Bad PROVE \E R \in Bad : R \subseteq L /\ R # L
  <2>1. L \in SUBSET K /\ Tally(f, Of(L)) # Tally(h, L)
    OBVIOUS
  <2>2. IsFiniteSet(L) /\ \A k \in L : h[k] \in Int
    BY <1>1, <2>1, FS_Subset
  <2>3. IsFiniteSet(Of(L)) /\ \A x \in Of(L) : f[x] \in Int
    BY FS_Subset
  <2>4. L # {}
    <3>1. SUFFICES ASSUME L = {} PROVE FALSE
      OBVIOUS
    <3>2. Of(L) = {}
      BY <3>1
    <3>3. QED BY <2>1, <3>1, <3>2, TallyOfNone
  <2>5. PICK k : k \in L
    BY <2>4
  <2>6. Tally(h, L) = h[k] + Tally(h, L \ {k})
    BY <2>2, <2>5, TallyTakes
  <2>7. PICK N : N = Part(S, g, k)
    OBVIOUS
  <2>8. N \in SUBSET Of(L) /\ Of(L) \ N = Of(L \ {k})
    BY <2>5, <2>7 DEF Part
  <2>9. Tally(f, Of(L)) = Tally(f, N) + Tally(f, Of(L) \ N)
    <3> HIDE DEF Of
    <3>1. QED BY <2>3, <2>8, TallySplit
  <2>10. h[k] = Tally(f, N) /\ L \ {k} \in SUBSET K
    BY <2>1, <2>5, <2>7
  <2>11. Tally(f, Of(L \ {k})) # Tally(h, L \ {k})
    <3> HIDE DEF Of
    <3>1. QED BY <2>1, <2>6, <2>8, <2>9, <2>10
  <2>12. L \ {k} \in Bad
    BY <2>10, <2>11
  <2>13. QED
    <3> HIDE DEF Bad
    <3>1. QED BY <2>5, <2>12
<1>3. Bad = {}
  <2>1. Bad \in SUBSET (SUBSET K)
    OBVIOUS
  <2> HIDE DEF Bad
  <2>2. QED BY <1>2, <2>1, NoLeastException
<1>4. Tally(f, Of(K)) = Tally(h, K)
  <2>1. K \in SUBSET K /\ K \notin Bad
    BY <1>3
  <2>2. QED BY <2>1
<1>5. Of(K) = S
  OBVIOUS
<1>6. QED
  <2> HIDE DEF Of
  <2>1. QED BY <1>1, <1>4, <1>5

\* The lines T of a report: L[k] for each k of K, no two of them the same.
Lines(T, L, K) == T = {L[k] : k \in K} /\ \A j, k \in K : L[j] = L[k] => j = k

\* A tally does not depend on the names of what it counts.
LEMMA TallyRenamed ==
  ASSUME NEW S, IsFiniteSet(S), NEW f, \A x \in S : f[x] \in Int,
         NEW T, NEW g, Lines(T, g, S),
         NEW h, \A x \in S : h[g[x]] = f[x]
  PROVE  /\ Tally(h, T) = Tally(f, S)
         /\ IsFiniteSet(T) /\ Cardinality(T) = Cardinality(S)
<1>0. T = {g[x] : x \in S} /\ \A x, y \in S : g[x] = g[y] => x = y
  BY DEF Lines
<1>1. IsFiniteSet(T) /\ Cardinality(T) = Cardinality(S)
  <2>1. PICK k : k = [x \in S |-> g[x]]
    OBVIOUS
  <2>2. k \in [S -> T] /\ (\A t \in T : \E x \in S : k[x] = t)
        /\ (\A x, y \in S : k[x] = k[y] => x = y)
    BY <1>0, <2>1
  <2>3. k \in Surjection(S, T)
    BY <2>2 DEF Surjection
  <2>4. k \in Injection(S, T)
    BY <2>2 DEF Injection, IsInjective
  <2>5. QED BY <2>3, <2>4, FS_Surjection
<1>2. ASSUME NEW t \in T PROVE h[t] = Tally(f, Part(S, g, t))
  <2>1. PICK x \in S : t = g[x]
    BY <1>0
  <2>2. Part(S, g, t) = {x}
    BY <1>0, <2>1 DEF Part
  <2>3. Tally(f, {x}) = f[x]
    BY TallyOfOne
  <2>4. QED BY <2>1, <2>2, <2>3
<1>3. \A x \in S : g[x] \in T
  BY <1>0
<1>4. Tally(f, S) = Tally(h, T)
  BY <1>1, <1>2, <1>3, TallyByGroups
<1>5. QED BY <1>1, <1>4

\* A multiple of each value comes to that multiple of the tally.
LEMMA TallyOfMultiples ==
  ASSUME NEW S, IsFiniteSet(S), NEW f, \A x \in S : f[x] \in Int,
         NEW c \in Int, NEW h, \A x \in S : h[x] = c * f[x]
  PROVE  Tally(h, S) = c * Tally(f, S)
<1> DEFINE Bad == {T \in SUBSET S : Tally(h, T) # c * Tally(f, T)}
<1>0. \A a, b \in Int : c * (a + b) = c * a + c * b /\ c * a \in Int /\ c * 0 = 0
  OBVIOUS
<1>1. \A x \in S : h[x] \in Int
  BY <1>0
<1>2. ASSUME NEW T \in Bad PROVE \E R \in Bad : R \subseteq T /\ R # T
  <2>1. T \in SUBSET S /\ Tally(h, T) # c * Tally(f, T)
    OBVIOUS
  <2>2. IsFiniteSet(T) /\ (\A x \in T : f[x] \in Int) /\ (\A x \in T : h[x] \in Int)
    BY <1>1, <2>1, FS_Subset
  <2>3. T # {}
    <3>1. Tally(h, {}) = 0 /\ Tally(f, {}) = 0
      BY TallyOfNone
    <3>2. Tally(h, {}) = c * Tally(f, {})
      BY <1>0, <3>1
    <3>3. QED BY <2>1, <3>2
  <2>4. PICK x : x \in T
    BY <2>3
  <2>5. /\ Tally(f, T) = f[x] + Tally(f, T \ {x}) /\ Tally(f, T \ {x}) \in Int
        /\ Tally(h, T) = h[x] + Tally(h, T \ {x})
    BY <2>2, <2>4, TallyTakes
  <2>6. PICK a, b : a = f[x] /\ b = Tally(f, T \ {x})
    OBVIOUS
  <2>7. a \in Int /\ b \in Int
    BY <2>2, <2>4, <2>5, <2>6
  <2>8. c * (a + b) = c * a + c * b /\ h[x] = c * a
    BY <1>0, <2>1, <2>4, <2>6, <2>7
  <2>9. Tally(h, T) # c * a + c * b
    BY <2>1, <2>5, <2>6, <2>8
  <2>10. Tally(h, T \ {x}) # c * Tally(f, T \ {x})
    BY <2>5, <2>6, <2>8, <2>9
  <2>11. T \ {x} \in Bad
    BY <2>1, <2>10
  <2>12. QED
    <3> HIDE DEF Bad
    <3>1. QED BY <2>4, <2>11
<1>3. Bad = {}
  <2>1. Bad \in SUBSET (SUBSET S)
    OBVIOUS
  <2> HIDE DEF Bad
  <2>2. QED BY <1>2, <2>1, NoLeastException
<1>4. QED BY <1>3

\* One for each element comes to their number.
LEMMA TallyOfOnes ==
  ASSUME NEW S, IsFiniteSet(S), NEW f, \A x \in S : f[x] = 1
  PROVE  Tally(f, S) = Cardinality(S)
<1> DEFINE Bad == {T \in SUBSET S : Tally(f, T) # Cardinality(T)}
<1>2. ASSUME NEW T \in Bad PROVE \E R \in Bad : R \subseteq T /\ R # T
  <2>1. T \in SUBSET S /\ Tally(f, T) # Cardinality(T)
    OBVIOUS
  <2>2. IsFiniteSet(T) /\ (\A x \in T : f[x] \in Int) /\ (\A x \in T : f[x] = 1)
    BY <2>1, FS_Subset
  <2>3. T # {}
    <3>1. Tally(f, {}) = 0 /\ Cardinality({}) = 0
      BY TallyOfNone, FS_EmptySet
    <3>2. QED BY <2>1, <3>1
  <2>4. PICK x : x \in T
    BY <2>3
  <2>5. Tally(f, T) = f[x] + Tally(f, T \ {x}) /\ Tally(f, T \ {x}) \in Int
    BY <2>2, <2>4, TallyTakes
  <2>6. /\ IsFiniteSet(T \ {x}) /\ Cardinality(T \ {x}) = Cardinality(T) - 1
        /\ Cardinality(T) \in Nat
    BY <2>2, <2>4, FS_RemoveElement, FS_CardinalityType
  <2>7. Tally(f, T \ {x}) # Cardinality(T \ {x})
    BY <2>1, <2>2, <2>4, <2>5, <2>6
  <2>11. T \ {x} \in Bad
    BY <2>1, <2>7
  <2>12. QED
    <3> HIDE DEF Bad
    <3>1. QED BY <2>4, <2>11
<1>3. Bad = {}
  <2>1. Bad \in SUBSET (SUBSET S)
    OBVIOUS
  <2> HIDE DEF Bad
  <2>2. QED BY <1>2, <2>1, NoLeastException
<1>4. QED BY <1>3

\* Two integers no further apart than n.
Near(a, b, n) == a - b <= n /\ b - a <= n

\* Values no further apart than n come to no more apart than n for each element.
LEMMA TallyNear ==
  ASSUME NEW S, IsFiniteSet(S), NEW f, \A x \in S : f[x] \in Int,
         NEW h, \A x \in S : h[x] \in Int,
         NEW n \in Int, \A x \in S : Near(f[x], h[x], n)
  PROVE  Near(Tally(f, S), Tally(h, S), n * Cardinality(S))
<1> DEFINE Bad == {T \in SUBSET S : ~Near(Tally(f, T), Tally(h, T), n * Cardinality(T))}
<1>2. ASSUME NEW T \in Bad PROVE \E R \in Bad : R \subseteq T /\ R # T
  <2>1. T \in SUBSET S /\ ~Near(Tally(f, T), Tally(h, T), n * Cardinality(T))
    OBVIOUS
  <2>2. IsFiniteSet(T) /\ (\A x \in T : f[x] \in Int) /\ (\A x \in T : h[x] \in Int)
    BY <2>1, FS_Subset
  <2>3. T # {}
    <3>1. Tally(f, {}) = 0 /\ Tally(h, {}) = 0 /\ Cardinality({}) = 0
      BY TallyOfNone, FS_EmptySet
    <3>2. n * 0 = 0 /\ Near(0, 0, 0)
      BY DEF Near
    <3>3. Near(Tally(f, {}), Tally(h, {}), n * Cardinality({}))
      BY <3>1, <3>2
    <3>4. QED BY <2>1, <3>3
  <2>4. PICK x : x \in T
    BY <2>3
  <2>5. /\ Tally(f, T) = f[x] + Tally(f, T \ {x}) /\ Tally(f, T \ {x}) \in Int
        /\ Tally(h, T) = h[x] + Tally(h, T \ {x}) /\ Tally(h, T \ {x}) \in Int
    BY <2>2, <2>4, TallyTakes
  <2>6. /\ IsFiniteSet(T \ {x}) /\ Cardinality(T \ {x}) = Cardinality(T) - 1
        /\ Cardinality(T) \in Nat
    BY <2>2, <2>4, FS_RemoveElement, FS_CardinalityType
  <2>7. PICK a, b, c, d, k : /\ a = f[x] /\ b = h[x] /\ c = Tally(f, T \ {x})
                             /\ d = Tally(h, T \ {x}) /\ k = Cardinality(T \ {x})
    OBVIOUS
  <2>8. a \in Int /\ b \in Int /\ c \in Int /\ d \in Int /\ k \in Int
    BY <2>2, <2>4, <2>5, <2>6, <2>7
  <2>9. n * (k + 1) = n * k + n /\ n * k \in Int
    BY <2>8
  <2>10. Near(a, b, n)
    BY <2>1, <2>4, <2>7
  <2>11. ~Near(a + c, b + d, n * (k + 1))
    BY <2>1, <2>5, <2>6, <2>7
  <2>12. ~Near(c, d, n * k)
    BY <2>8, <2>9, <2>10, <2>11 DEF Near
  <2>13. T \ {x} \in Bad
    BY <2>1, <2>7, <2>12
  <2>14. QED
    <3> HIDE DEF Bad
    <3>1. QED BY <2>4, <2>13
<1>3. Bad = {}
  <2>1. Bad \in SUBSET (SUBSET S)
    OBVIOUS
  <2> HIDE DEF Bad
  <2>2. QED BY <1>2, <2>1, NoLeastException
<1>4. QED BY <1>3

\* Values none of which is below zero come to zero only when all are zero.
LEMMA TallyOfNats ==
  ASSUME NEW S, IsFiniteSet(S), NEW f, \A x \in S : f[x] \in Nat
  PROVE  /\ Tally(f, S) \in Nat
         /\ Tally(f, S) = 0 => \A x \in S : f[x] = 0
<1>1. ASSUME NEW T \in SUBSET S PROVE Tally(f, T) \in Nat
  <2>1. IsFiniteSet(T) /\ \A x \in T : f[x] \in Nat /\ f[x] <= f[x]
    BY FS_Subset
  <2>2. QED BY <2>1, TallyBelow
<1>2. ASSUME NEW x \in S, Tally(f, S) = 0 PROVE f[x] = 0
  <2>1. \A y \in S : f[y] \in Int
    OBVIOUS
  <2>2. Tally(f, S) = f[x] + Tally(f, S \ {x})
    BY <2>1, TallyTakes
  <2>3. Tally(f, S \ {x}) \in Nat /\ f[x] \in Nat
    BY <1>1
  <2>4. QED BY <1>2, <2>2, <2>3
<1>3. QED BY <1>1, <1>2

\* Rounding to tenths and to hundredths is off by at most a half.
LEMMA HalfEvenNear ==
  ASSUME NEW n \in Int, NEW d \in Int, d > 0
  PROVE  /\ HalfEven(n, d) \in Int
         /\ Near(2 * d * HalfEven(n, d), 2 * n, d)
<1>1. PICK q, r : q = n \div d /\ r = n % d
  OBVIOUS
<1>2. q \in Int /\ r \in 0..(d - 1) /\ n = d * q + r
  BY <1>1
<1>3. PICK p : p = q % 2
  OBVIOUS
<1>4. p \in 0..1
  BY <1>2, <1>3
<1>5. HalfEven(n, d) = IF 2 * r < d THEN q ELSE IF 2 * r > d THEN q + 1 ELSE q + p
  BY <1>1, <1>3 DEF HalfEven
<1>6. \A k \in Int : 2 * d * (k + 1) = 2 * d * k + 2 * d
  OBVIOUS
<1>7. PICK m : m = 2 * d * q
  OBVIOUS
<1>8. m \in Int /\ 2 * n = m + 2 * r
  BY <1>2, <1>7
<1>9. CASE 2 * r < d
  <2>1. HalfEven(n, d) = q
    BY <1>5, <1>9
  <2>2. QED BY <1>2, <1>7, <1>8, <1>9, <2>1 DEF Near
<1>10. CASE 2 * r > d
  <2>1. HalfEven(n, d) = q + 1 /\ 2 * d * (q + 1) = m + 2 * d
    BY <1>2, <1>5, <1>6, <1>7, <1>10
  <2>2. QED BY <1>2, <1>8, <1>10, <2>1 DEF Near
<1>11. CASE 2 * r = d
  <2>1. HalfEven(n, d) = q + p
    BY <1>2, <1>5, <1>11
  <2>2. CASE p = 0
    <3>1. HalfEven(n, d) = q
      BY <1>2, <2>1, <2>2
    <3>2. QED BY <1>2, <1>7, <1>8, <1>11, <3>1 DEF Near
  <2>3. CASE p = 1
    <3>1. HalfEven(n, d) = q + 1 /\ 2 * d * (q + 1) = m + 2 * d
      BY <1>2, <1>6, <1>7, <2>1, <2>3
    <3>2. QED BY <1>2, <1>8, <1>11, <3>1 DEF Near
  <2>4. QED BY <1>4, <2>2, <2>3
<1>12. QED BY <1>2, <1>9, <1>10, <1>11

-----------------------------------------------------------------------------
(* Lines of a report *)

\* A part of a finite set, and the tally of it.
LEMMA PartType ==
  ASSUME NEW S, IsFiniteSet(S), NEW f, \A x \in S : f[x] \in Int, NEW g, NEW k
  PROVE  /\ IsFiniteSet(Part(S, g, k)) /\ Part(S, g, k) \in SUBSET S
         /\ Tally(f, Part(S, g, k)) \in Int
<1>1. PICK N : N = Part(S, g, k)
  OBVIOUS
<1>2. N \in SUBSET S
  BY <1>1 DEF Part
<1>3. IsFiniteSet(N) /\ \A x \in N : f[x] \in Int
  BY <1>2, FS_Subset
<1>4. Tally(f, N) \in Int
  BY <1>3, TallyType
<1>5. QED BY <1>1, <1>2, <1>3, <1>4

\* The keys of the elements of a finite set are finitely many.
LEMMA ImageFinite ==
  ASSUME NEW S, IsFiniteSet(S), NEW g
  PROVE  IsFiniteSet({g[x] : x \in S})
<1>1. PICK T, k : T = {g[x] : x \in S} /\ k = [x \in S |-> g[x]]
  OBVIOUS
<1>2. k \in [S -> T] /\ \A t \in T : \E x \in S : k[x] = t
  BY <1>1
<1>3. k \in Surjection(S, T)
  BY <1>2 DEF Surjection
<1>4. QED BY <1>1, <1>3, FS_Surjection

\* Lines that each tell the tally of one group add up to the whole tally.
LEMMA SumByLines ==
  ASSUME NEW S, IsFiniteSet(S), NEW f, \A x \in S : f[x] \in Int,
         NEW K, IsFiniteSet(K), NEW g, \A x \in S : g[x] \in K,
         NEW T, NEW L, Lines(T, L, K), NEW v, DOMAIN v = T,
         \A k \in K : v[L[k]] = Tally(f, Part(S, g, k))
  PROVE  /\ SumFunction(v) = Tally(f, S) /\ \A t \in T : v[t] \in Int
         /\ IsFiniteSet(T) /\ Cardinality(T) = Cardinality(K)
<1>1. PICK h : h = [k \in K |-> Tally(f, Part(S, g, k))]
  OBVIOUS
<1>2. \A k \in K : h[k] = Tally(f, Part(S, g, k))
  BY <1>1
<1>3. Tally(f, S) = Tally(h, K) /\ \A k \in K : h[k] \in Int
  BY <1>2, TallyByGroups
<1>4. \A k \in K : v[L[k]] = h[k]
  BY <1>2
<1>5. Tally(v, T) = Tally(h, K) /\ IsFiniteSet(T) /\ Cardinality(T) = Cardinality(K)
  BY <1>3, <1>4, TallyRenamed
<1>6. \A t \in T : v[t] \in Int
  BY <1>3, <1>4 DEF Lines
<1>7. SumFunction(v) = Tally(v, T)
  BY <1>5, <1>6, SumFunctionIsTally
<1>8. QED BY <1>3, <1>5, <1>6, <1>7

\* A rounded amount that is within n of c times what it stands for.
NearLine(amount, worth, c, n) == amount \in Int /\ Near(100 * amount, c * worth, n)

\* Lines each off by at most n add up to something off by at most n for each line.
LEMMA NearByLines ==
  ASSUME NEW S, IsFiniteSet(S), NEW f, \A x \in S : f[x] \in Int,
         NEW K, IsFiniteSet(K), NEW g, \A x \in S : g[x] \in K,
         NEW T, NEW L, Lines(T, L, K), NEW v, DOMAIN v = T,
         NEW c \in Int, NEW n \in Int,
         \A k \in K : NearLine(v[L[k]], Tally(f, Part(S, g, k)), c, n)
  PROVE  NearLine(SumFunction(v), Tally(f, S), c, n * Cardinality(T)) /\ IsFiniteSet(T)
<1>0. \A a \in Int : c * a \in Int /\ 100 * a \in Int
  OBVIOUS
<1> PICK h, u : h = [k \in K |-> Tally(f, Part(S, g, k))] /\ u = [k \in K |-> v[L[k]]]
  OBVIOUS
<1>1. PICK hc, m : hc = [k \in K |-> c * h[k]] /\ m = [k \in K |-> 100 * u[k]]
  OBVIOUS
<1>2. \A k \in K : h[k] = Tally(f, Part(S, g, k))
  OBVIOUS
<1>3. Tally(f, S) = Tally(h, K) /\ \A k \in K : h[k] \in Int
  BY <1>2, TallyByGroups
<1>4. \A k \in K : u[k] = v[L[k]] /\ u[k] \in Int
  BY DEF NearLine
<1>5. \A k \in K : v[L[k]] = u[k]
  BY <1>4
<1>6. Tally(v, T) = Tally(u, K) /\ IsFiniteSet(T) /\ Cardinality(T) = Cardinality(K)
  BY <1>4, <1>5, TallyRenamed
<1>7. \A t \in T : v[t] \in Int
  BY <1>4, <1>5 DEF Lines
<1>8. SumFunction(v) = Tally(u, K)
  BY <1>6, <1>7, SumFunctionIsTally
<1>9. Tally(u, K) \in Int
  BY <1>4, TallyType
<1>10. \A k \in K : hc[k] = c * h[k]
  BY <1>1
<1>11. Tally(hc, K) = c * Tally(h, K)
  BY <1>3, <1>10, TallyOfMultiples
<1>12. \A k \in K : m[k] = 100 * u[k]
  BY <1>1
<1>13. 100 \in Int
  OBVIOUS
<1>14. Tally(m, K) = 100 * Tally(u, K)
  BY <1>4, <1>12, <1>13, TallyOfMultiples
<1>15. (\A k \in K : m[k] \in Int) /\ \A k \in K : hc[k] \in Int
  BY <1>0, <1>3, <1>4, <1>10, <1>12
<1>16. \A k \in K : Near(m[k], hc[k], n)
  BY <1>2, <1>4, <1>10, <1>12 DEF NearLine
<1>17. Near(Tally(m, K), Tally(hc, K), n * Cardinality(K))
  BY <1>15, <1>16, TallyNear
<1>18. QED BY <1>3, <1>6, <1>8, <1>9, <1>11, <1>14, <1>17 DEF NearLine

\* Near, said with a distance.
LEMMA NearIsDistance ==
  ASSUME NEW a \in Int, NEW b \in Int, NEW n \in Int
  PROVE  Near(a, b, n) <=> Distance(a, b) <= n
BY DEF Near, Distance

\* What a factor makes of a bound.
LEMMA Scaled ==
  ASSUME NEW c \in Nat, NEW a \in Int, NEW b \in Int, NEW n \in Int, Near(a, b, n)
  PROVE  Near(c * a, c * b, c * n)
<1>1. n - (a - b) \in Nat /\ n - (b - a) \in Nat
  BY DEF Near
<1>2. \A x \in Nat : c * x \in Nat
  OBVIOUS
<1>3. c * (n - (a - b)) \in Nat /\ c * (n - (b - a)) \in Nat
  BY <1>1, <1>2
<1>4. c * (n - (a - b)) = c * n - (c * a - c * b) /\ c * (n - (b - a)) = c * n - (c * b - c * a)
  OBVIOUS
<1>5. c * n \in Int /\ c * a \in Int /\ c * b \in Int
  OBVIOUS
<1>6. PICK p, q, r : p = c * n /\ q = c * a /\ r = c * b
  OBVIOUS
<1>7. p \in Int /\ q \in Int /\ r \in Int /\ p - (q - r) \in Nat /\ p - (r - q) \in Nat
  BY <1>3, <1>4, <1>5, <1>6
<1>8. Near(q, r, p)
  BY <1>7 DEF Near
<1>9. QED BY <1>6, <1>8

\* A cost rounded to tenths, then its bill rounded to tenths.
LEMMA RoundedTwice ==
  ASSUME NEW w \in Int, NEW c \in Nat
  PROVE  /\ HalfEven(w, 10) \in Int /\ HalfEven(HalfEven(w, 10) * c, 10) \in Int
         /\ Near(100 * HalfEven(HalfEven(w, 10) * c, 10), c * w, 50 + 5 * c)
<1>1. 10 \in Int /\ 10 > 0 /\ 5 \in Int
  OBVIOUS
<1>2. PICK p : p = HalfEven(w, 10)
  OBVIOUS
<1>3. p \in Int /\ Near(2 * 10 * p, 2 * w, 10)
  BY <1>1, <1>2, HalfEvenNear
<1>4. PICK x : x = p * c
  OBVIOUS
<1>5. x \in Int /\ x = c * p
  BY <1>3, <1>4
<1>6. PICK b : b = HalfEven(x, 10)
  OBVIOUS
<1>7. b \in Int /\ Near(2 * 10 * b, 2 * x, 10)
  BY <1>1, <1>5, <1>6, HalfEvenNear
<1>8. 10 * p \in Int /\ Near(10 * p, w, 5)
  BY <1>3 DEF Near
<1>9. Near(c * (10 * p), c * w, c * 5)
  BY <1>1, <1>8, Scaled
<1>10. c * (10 * p) = 10 * x /\ c * 5 = 5 * c
  BY <1>3, <1>5
<1>11. PICK y : y = c * w
  OBVIOUS
<1>12. y \in Int
  BY <1>11
<1>13. Near(10 * x, y, 5 * c)
  BY <1>9, <1>10, <1>11
<1>14. Near(100 * b, y, 50 + 5 * c)
  BY <1>5, <1>7, <1>12, <1>13 DEF Near
<1>15. QED BY <1>2, <1>3, <1>4, <1>6, <1>7, <1>11, <1>14

\* A bill rounded once, to hundredths.
LEMMA RoundedOnce ==
  ASSUME NEW w \in Int, NEW c \in Nat
  PROVE  /\ HalfEven(w * c, 100) \in Int
         /\ Near(100 * HalfEven(w * c, 100), c * w, 50)
<1>1. 100 \in Int /\ 100 > 0
  OBVIOUS
<1>2. PICK x : x = w * c
  OBVIOUS
<1>3. x \in Int /\ x = c * w
  BY <1>2
<1>4. PICK b : b = HalfEven(x, 100)
  OBVIOUS
<1>5. b \in Int /\ Near(2 * 100 * b, 2 * x, 100)
  BY <1>1, <1>3, <1>4, HalfEvenNear
<1>6. Near(100 * b, x, 50)
  BY <1>3, <1>5 DEF Near
<1>7. QED BY <1>2, <1>3, <1>4, <1>5, <1>6

-----------------------------------------------------------------------------
(* The summary of a month *)

\* A month the reports can read.
MonthRead(events, grid, coefficient, days) ==
  /\ IsFiniteSet(events) /\ IsFiniteSet(days) /\ coefficient \in Nat
  /\ \A e \in events : e.quantity \in Nat /\ e.day \in days
  /\ \A e \in events : grid[Key(e)] \in Nat \cup {NoPrice}

\* What each event counts, and what it costs before any rounding.
Counted(events) == [e \in events |-> e.quantity]
Worth(events, grid) ==
  [e \in events |-> IF grid[Key(e)] = NoPrice THEN 0 ELSE e.quantity * grid[Key(e)]]
ByKey(events) == [e \in events |-> Key(e)]

\* Both are natural numbers, and what counts for nothing costs nothing.
LEMMA WorthType ==
  ASSUME NEW events, NEW grid, NEW c, NEW days, MonthRead(events, grid, c, days)
  PROVE  \A e \in events : /\ Counted(events)[e] = e.quantity /\ Counted(events)[e] \in Nat
                           /\ Worth(events, grid)[e] \in Nat
                           /\ Counted(events)[e] = 0 => Worth(events, grid)[e] = 0
<1>1. \A a, b \in Nat : a * b \in Nat /\ 0 * b = 0
  OBVIOUS
<1>2. SUFFICES ASSUME NEW e \in events
               PROVE  /\ Counted(events)[e] = e.quantity /\ Counted(events)[e] \in Nat
                      /\ Worth(events, grid)[e] \in Nat
                      /\ Counted(events)[e] = 0 => Worth(events, grid)[e] = 0
  OBVIOUS
<1>3. Counted(events)[e] = e.quantity /\ e.quantity \in Nat
  BY DEF Counted, MonthRead
<1>4. CASE grid[Key(e)] = NoPrice
  <2>1. Worth(events, grid)[e] = 0
    BY <1>4 DEF Worth
  <2>2. QED BY <1>3, <2>1
<1>5. CASE grid[Key(e)] # NoPrice
  <2>1. Worth(events, grid)[e] = e.quantity * grid[Key(e)]
    BY <1>5 DEF Worth
  <2>2. grid[Key(e)] \in Nat
    BY <1>5 DEF MonthRead
  <2>3. QED BY <1>1, <1>3, <2>1, <2>2
<1>6. QED BY <1>4, <1>5

\* Quantities add up.
LEMMA QuantityIsTally ==
  ASSUME NEW events, IsFiniteSet(events), \A e \in events : e.quantity \in Int,
         NEW es \in SUBSET events
  PROVE  Quantity(es) = Tally(Counted(events), es)
<1>1. PICK f : f = [e \in es |-> e.quantity]
  OBVIOUS
<1>2. DOMAIN f = es /\ IsFiniteSet(es) /\ \A e \in es : f[e] \in Int
  BY <1>1, FS_Subset
<1>3. SumFunction(f) = Tally(f, es)
  BY <1>2, SumFunctionIsTally
<1>4. PICK q : q = Counted(events)
  OBVIOUS
<1>5. \A e \in es : f[e] = q[e]
  BY <1>1, <1>4 DEF Counted
<1>6. Tally(f, es) = Tally(q, es)
  BY <1>5, TallySame
<1>7. QED BY <1>1, <1>3, <1>4, <1>6 DEF Quantity

\* The priced events of a set are worth what the set is.
LEMMA PricedIsTally ==
  ASSUME NEW events, NEW grid, NEW c, NEW days, MonthRead(events, grid, c, days),
         NEW es \in SUBSET events
  PROVE  /\ SumFunction([e \in {e \in es : grid[Key(e)] # NoPrice} |-> e.quantity * grid[Key(e)]])
              = Tally(Worth(events, grid), es)
         /\ Tally(Worth(events, grid), es) \in Int
<1>1. PICK w, P : w = Worth(events, grid) /\ P = {e \in es : grid[Key(e)] # NoPrice}
  OBVIOUS
<1>2. PICK f : f = [e \in P |-> e.quantity * grid[Key(e)]]
  OBVIOUS
<1>3. IsFiniteSet(es) /\ IsFiniteSet(P) /\ P \in SUBSET es
  BY <1>1, FS_Subset DEF MonthRead
<1>4. \A e \in es : w[e] \in Int
  BY <1>1, WorthType
<1>5. \A e \in P : f[e] = w[e]
  BY <1>1, <1>2 DEF Worth
<1>6. \A e \in es \ P : w[e] = 0
  BY <1>1 DEF Worth
<1>7. DOMAIN f = P /\ \A e \in P : f[e] \in Int
  BY <1>2, <1>3, <1>4, <1>5
<1>8. SumFunction(f) = Tally(f, P)
  BY <1>3, <1>7, SumFunctionIsTally
<1>9. Tally(f, P) = Tally(w, P)
  BY <1>5, TallySame
<1>10. Tally(w, es) = Tally(w, P) /\ Tally(w, es) \in Int
  BY <1>3, <1>4, <1>6, TallyOfTheRest, TallyType
<1>11. SumFunction(f) = Tally(w, es)
  BY <1>8, <1>9, <1>10
<1>12. QED BY <1>1, <1>2, <1>10, <1>11

\* The month is worth the coefficient times what its events cost.
LEMMA ExactIsTally ==
  ASSUME NEW events, NEW grid, NEW c, NEW days, MonthRead(events, grid, c, days)
  PROVE  /\ Exact(events, grid, c) = c * Tally(Worth(events, grid), events)
         /\ Exact(events, grid, c) \in Int /\ Tally(Worth(events, grid), events) \in Int
<1>0. \A a \in Int : c * a \in Int
  BY DEF MonthRead
<1>1. PICK w, P : w = Worth(events, grid) /\ P = {e \in events : grid[Key(e)] # NoPrice}
  OBVIOUS
<1>2. PICK f : f = [e \in P |-> e.quantity * grid[Key(e)] * c]
  OBVIOUS
<1>3. IsFiniteSet(events) /\ IsFiniteSet(P) /\ P \in SUBSET events /\ c \in Int
  BY <1>1, FS_Subset DEF MonthRead
<1>4. \A e \in events : w[e] \in Int
  BY <1>1, WorthType
<1>5. ASSUME NEW e \in P PROVE f[e] = c * w[e]
  <2>1. w[e] = e.quantity * grid[Key(e)] /\ w[e] \in Int
    BY <1>1, <1>4 DEF Worth
  <2>2. f[e] = w[e] * c
    BY <1>2, <2>1
  <2>3. \A a \in Int : a * c = c * a
    BY <1>3
  <2>4. QED BY <2>1, <2>2, <2>3
<1>6. \A e \in events \ P : w[e] = 0
  BY <1>1 DEF Worth
<1>7. (\A e \in P : w[e] \in Int) /\ \A e \in P : f[e] \in Int
  BY <1>0, <1>3, <1>4, <1>5
<1>8. DOMAIN f = P
  BY <1>2
<1>9. SumFunction(f) = Tally(f, P)
  BY <1>3, <1>7, <1>8, SumFunctionIsTally
<1>10. Tally(f, P) = c * Tally(w, P)
  BY <1>3, <1>5, <1>7, TallyOfMultiples
<1>11. Tally(w, events) = Tally(w, P) /\ Tally(w, events) \in Int
  BY <1>3, <1>4, <1>6, TallyOfTheRest, TallyType
<1>12. SumFunction(f) = c * Tally(w, events) /\ c * Tally(w, events) \in Int
  BY <1>0, <1>9, <1>10, <1>11
<1>13. QED BY <1>1, <1>2, <1>11, <1>12 DEF Exact

\* A line of the summary.
IsLine(l, events, grid, c, k) ==
  /\ l.key = k /\ (l.priced <=> grid[k] # NoPrice)
  /\ l.quantity = Tally(Counted(events), Group(events, k))
  /\ NearLine(l.billable, Tally(Worth(events, grid), Group(events, k)), c, 50 + 5 * c)

LEMMA LineIsNear ==
  ASSUME NEW events, NEW grid, NEW c, NEW days, MonthRead(events, grid, c, days),
         NEW k \in Groups(events)
  PROVE  IsLine(Line(events, k, grid, c), events, grid, c, k)
<1>1. PICK G, w, q : G = Group(events, k) /\ w = Worth(events, grid) /\ q = Counted(events)
  OBVIOUS
<1>2. G \in SUBSET events /\ IsFiniteSet(G) /\ \A e \in G : Key(e) = k
  BY <1>1, FS_Subset DEF Group, MonthRead
<1>3. /\ \A e \in events : e.quantity \in Int
      /\ IsFiniteSet(events) /\ c \in Nat
  BY DEF MonthRead
<1>4. PICK n : n = Quantity(G)
  OBVIOUS
<1>5. n = Tally(q, G)
  BY <1>1, <1>2, <1>3, <1>4, QuantityIsTally
<1>6. PICK l : l = Line(events, k, grid, c)
  OBVIOUS
<1>7. c * 0 = 0 /\ Near(0, 0, 50 + 5 * c) /\ 100 * 0 = 0
  BY <1>3 DEF Near
<1>8. CASE grid[k] = NoPrice
  <2>1. l = [key |-> k, quantity |-> n, priced |-> FALSE, cost |-> 0, billable |-> 0]
    BY <1>1, <1>4, <1>6, <1>8 DEF Line
  <2>2. \A e \in G : w[e] = 0
    BY <1>1, <1>2, <1>8 DEF Worth
  <2>3. Tally(w, G) = 0
    BY <2>2, TallyOfZeros
  <2>4. /\ l.key = k /\ l.priced = FALSE /\ l.quantity = n /\ l.billable = 0 /\ l.cost = 0
    BY <2>1
  <2>5. Near(100 * l.billable, c * Tally(w, G), 50 + 5 * c)
    BY <1>7, <2>3, <2>4
  <2>6. l.priced <=> grid[k] # NoPrice
    BY <1>8, <2>4
  <2>7. l.key = k /\ l.quantity = Tally(q, G) /\ l.billable \in Int
    BY <1>5, <2>4
  <2>8. QED BY <1>1, <1>6, <2>5, <2>6, <2>7 DEF IsLine, NearLine
<1>9. CASE grid[k] # NoPrice
  <2>1. PICK p : p = grid[k]
    OBVIOUS
  <2>2. p \in Nat
    BY <1>9, <2>1 DEF MonthRead, Groups
  <2>3. \A e \in G : q[e] \in Int /\ q[e] = e.quantity
    BY <1>1, <1>2, WorthType
  <2>4. ASSUME NEW e \in G PROVE w[e] = p * q[e]
    <3>1. w[e] = e.quantity * p
      BY <1>1, <1>2, <1>9, <2>1 DEF Worth
    <3>2. \A a \in Int : a * p = p * a
      BY <2>2
    <3>3. QED BY <2>3, <3>1, <3>2
  <2>5. p \in Int
    BY <2>2
  <2>6. Tally(w, G) = p * Tally(q, G) /\ Tally(q, G) \in Int
    BY <1>2, <2>3, <2>4, <2>5, TallyOfMultiples, TallyType
  <2>7. n * p = Tally(w, G) /\ n * p \in Int
    <3>1. \A a \in Int : a * p = p * a /\ a * p \in Int
      BY <2>5
    <3>2. QED BY <1>5, <2>6, <3>1
  <2>8. PICK x, y : x = HalfEven(n * p, 10) /\ y = HalfEven(x * c, 10)
    OBVIOUS
  <2>9. x \in Int /\ y \in Int /\ Near(100 * y, c * Tally(w, G), 50 + 5 * c)
    BY <1>3, <2>7, <2>8, RoundedTwice
  <2>10. l = [key |-> k, quantity |-> n, priced |-> TRUE, cost |-> x, billable |-> y]
    BY <1>1, <1>4, <1>6, <1>9, <2>1, <2>8 DEF Line
  <2>11. /\ l.key = k /\ l.priced = TRUE /\ l.quantity = n /\ l.billable = y /\ l.cost = x
    BY <2>10
  <2>12. Near(100 * l.billable, c * Tally(w, G), 50 + 5 * c)
    BY <2>9, <2>11
  <2>13. (l.priced <=> grid[k] # NoPrice)
    BY <1>9, <2>11
  <2>14. l.key = k /\ l.quantity = Tally(q, G) /\ l.billable \in Int
    BY <1>5, <2>9, <2>11
  <2>15. QED BY <1>1, <1>6, <2>12, <2>13, <2>14 DEF IsLine, NearLine
<1>10. QED BY <1>8, <1>9

\* Part(S, g, k) for the key of an event is its group.
LEMMA GroupIsPart ==
  ASSUME NEW events
  PROVE  /\ \A k : Part(events, ByKey(events), k) = Group(events, k)
         /\ \A e \in events : ByKey(events)[e] \in Groups(events)
         /\ IsFiniteSet(events) => IsFiniteSet(Groups(events))
<1>1. PICK g : g = ByKey(events)
  OBVIOUS
<1>2. \A e \in events : g[e] = Key(e)
  BY <1>1 DEF ByKey
<1>3. ASSUME NEW k PROVE Part(events, g, k) = Group(events, k)
  BY <1>2 DEF Part, Group
<1>4. \A e \in events : g[e] \in Groups(events)
  BY <1>2 DEF Groups
<1>5. ASSUME IsFiniteSet(events) PROVE IsFiniteSet(Groups(events))
  <2>1. IsFiniteSet({g[e] : e \in events})
    BY <1>5, ImageFinite
  <2>2. Groups(events) = {g[e] : e \in events}
    BY <1>2 DEF Groups
  <2>3. QED BY <2>1, <2>2
<1>6. QED BY <1>1, <1>3, <1>4, <1>5

\* What lines bill, and those without a price.
Billed(lines) == [l \in lines |-> l.billable]
WithoutPrice(lines) == {l \in lines : ~l.priced}

\* The lines of a summary are those of its keys, each once.
LEMMA SummaryLines ==
  ASSUME NEW events, NEW grid, NEW c, NEW days, MonthRead(events, grid, c, days),
         NEW L, L = [k \in Groups(events) |-> Line(events, k, grid, c)],
         NEW lines, lines = Summary(events, grid, c).lines
  PROVE  /\ Lines(lines, L, Groups(events))
         /\ \A k \in Groups(events) : IsLine(L[k], events, grid, c, k)
         /\ Summary(events, grid, c).billable = SumFunction(Billed(lines))
         /\ Summary(events, grid, c).unpriced = Cardinality(WithoutPrice(lines))
<1>1. \A k \in Groups(events) : L[k] = Line(events, k, grid, c)
  OBVIOUS
<1>2. \A k \in Groups(events) : IsLine(L[k], events, grid, c, k)
  BY <1>1, LineIsNear
<1>3. \A k \in Groups(events) : L[k].key = k
  BY <1>2 DEF IsLine
<1>4. lines = {L[k] : k \in Groups(events)}
  BY <1>1 DEF Summary
<1>5. Lines(lines, L, Groups(events))
  BY <1>3, <1>4 DEF Lines
<1>6. PICK drawn : drawn = {Line(events, k, grid, c) : k \in Groups(events)}
  OBVIOUS
<1>7. lines = drawn
  BY <1>6 DEF Summary
<1>8. /\ Summary(events, grid, c).billable = SumFunction(Billed(drawn))
      /\ Summary(events, grid, c).unpriced = Cardinality(WithoutPrice(drawn))
  BY <1>6 DEF Summary, Billed, WithoutPrice
<1>9. QED BY <1>2, <1>5, <1>7, <1>8

\* The summary is off by what its lines may round.
LEMMA SummaryIsNear ==
  ASSUME NEW events, NEW grid, NEW c, NEW days, MonthRead(events, grid, c, days)
  PROVE  LET summary == Summary(events, grid, c)
         IN  /\ Distance(100 * summary.billable, Exact(events, grid, c))
                  <= (50 + 5 * c) * Cardinality(summary.lines)
             /\ summary.billable \in Int /\ IsFiniteSet(summary.lines)
<1>1. PICK L, lines : /\ L = [k \in Groups(events) |-> Line(events, k, grid, c)]
                      /\ lines = Summary(events, grid, c).lines
  OBVIOUS
<1>2. /\ Lines(lines, L, Groups(events))
      /\ \A k \in Groups(events) : IsLine(L[k], events, grid, c, k)
      /\ Summary(events, grid, c).billable = SumFunction(Billed(lines))
  BY <1>1, SummaryLines
<1>3. PICK v : v = Billed(lines)
  OBVIOUS
<1>4. PICK K, g, w : K = Groups(events) /\ g = ByKey(events) /\ w = Worth(events, grid)
  OBVIOUS
<1>5. IsFiniteSet(events) /\ IsFiniteSet(K) /\ \A e \in events : g[e] \in K
  BY <1>4, GroupIsPart DEF MonthRead
<1>6. \A e \in events : w[e] \in Int
  BY <1>4, WorthType
<1>7. Lines(lines, L, K) /\ \A k \in K : L[k] \in lines
  BY <1>2, <1>4 DEF Lines
<1>8. DOMAIN v = lines /\ \A k \in K : v[L[k]] = L[k].billable
  BY <1>3, <1>7 DEF Billed
<1>9. c \in Int /\ 50 + 5 * c \in Int
  BY DEF MonthRead
<1>10. PICK n : n = 50 + 5 * c
  OBVIOUS
<1>11. n \in Int /\ c \in Int
  BY <1>9, <1>10
<1>12. \A k \in K : NearLine(v[L[k]], Tally(w, Part(events, g, k)), c, n)
  BY <1>2, <1>4, <1>8, <1>10, GroupIsPart DEF IsLine
<1>13. NearLine(SumFunction(v), Tally(w, events), c, n * Cardinality(lines)) /\ IsFiniteSet(lines)
  BY <1>5, <1>6, <1>7, <1>8, <1>11, <1>12, NearByLines
<1>14. Exact(events, grid, c) = c * Tally(w, events) /\ Exact(events, grid, c) \in Int
  BY <1>4, ExactIsTally
<1>15. PICK b, x, m : /\ b = 100 * SumFunction(v) /\ x = Exact(events, grid, c)
                      /\ m = n * Cardinality(lines)
  OBVIOUS
<1>16. b \in Int /\ x \in Int /\ m \in Int
  <2>1. Cardinality(lines) \in Nat
    BY <1>13, FS_CardinalityType
  <2>2. m \in Int
    BY <1>11, <1>15, <2>1
  <2>3. QED BY <1>13, <1>14, <1>15, <2>2 DEF NearLine
<1>17. Near(b, x, m)
  BY <1>13, <1>14, <1>15 DEF NearLine
<1>18. Distance(b, x) <= m
  BY <1>16, <1>17, NearIsDistance
<1>19. QED BY <1>1, <1>2, <1>3, <1>10, <1>13, <1>15, <1>18 DEF NearLine

\* What is metered can be read, and so can the two grids.
EventsRead(events) == IsFiniteSet(events) /\ events \subseteq Events
GridsRead(mine, shared) ==
  /\ DOMAIN shared = Groups(Events)
  /\ \A k \in Groups(Events) : shared[k] \in Nat \cup {NoPrice} /\ mine[k] \in Nat \cup {NoPrice}

\* The prices an account has: its own before the common ones.
LEMMA AccountPrices ==
  ASSUME NEW mine, NEW shared, GridsRead(mine, shared), NEW k \in Groups(Events)
  PROVE  /\ AccountGrid(mine, shared)[k] \in Nat \cup {NoPrice}
         /\ AccountGrid(mine, shared)[k] = NoPrice <=> mine[k] = NoPrice /\ shared[k] = NoPrice
BY DEF AccountGrid, GridsRead

\* The month of an account is one its reports can read.
LEMMA AccountMonth ==
  ASSUME NEW events, EventsRead(events), NEW mine, NEW shared, GridsRead(mine, shared), NEW c \in Nat
  PROVE  /\ MonthRead(InScope(events), AccountGrid(mine, shared), c, Days)
         /\ InScope(events) \in SUBSET events /\ Groups(InScope(events)) \subseteq Groups(Events)
<1>1. PICK part, grid : part = InScope(events) /\ grid = AccountGrid(mine, shared)
  OBVIOUS
<1>2. part \in SUBSET events /\ \A e \in part : e.day \in Days
  BY <1>1 DEF InScope
<1>3. IsFiniteSet(part) /\ part \subseteq Events
  BY <1>2, FS_Subset DEF EventsRead
<1>4. \A e \in part : e.quantity \in Nat /\ Key(e) \in Groups(Events)
  BY <1>3, ReportsAssumption DEF ReportsAssumption, Groups
<1>5. \A e \in part : grid[Key(e)] \in Nat \cup {NoPrice}
  BY <1>1, <1>4, AccountPrices
<1>6. IsFiniteSet(Days)
  BY ReportsAssumption DEF ReportsAssumption
<1>7. MonthRead(part, grid, c, Days)
  BY <1>2, <1>3, <1>4, <1>5, <1>6 DEF MonthRead
<1>8. Groups(part) \subseteq Groups(Events)
  BY <1>3 DEF Groups
<1>9. QED BY <1>1, <1>2, <1>7, <1>8

\* A line of the operator's list.
MetricLine(events, shared, k) ==
  [key |-> k, quantity |-> Quantity(Group(events, k)), priced |-> shared[k] # NoPrice]

\* A month counts no more of a metric than all that was ever metered.
LEMMA MonthBelowAll ==
  ASSUME NEW events, EventsRead(events), NEW k
  PROVE  Tally(Counted(InScope(events)), Group(InScope(events), k)) <= Quantity(Group(events, k))
<1>1. PICK part, G, A, q, r : /\ part = InScope(events) /\ G = Group(part, k) /\ A = Group(events, k)
                               /\ q = Counted(part) /\ r = Counted(events)
  OBVIOUS
<1>2. part \in SUBSET events /\ G \in SUBSET A /\ A \in SUBSET events /\ G \in SUBSET part
  BY <1>1 DEF InScope, Group
<1>3. IsFiniteSet(events) /\ \A e \in events : e.quantity \in Nat
  BY ReportsAssumption DEF ReportsAssumption, EventsRead
<1>4. IsFiniteSet(A) /\ IsFiniteSet(G)
  BY <1>2, <1>3, FS_Subset
<1>5. \A e \in events : e.quantity \in Int
  BY <1>3
<1>6. Quantity(A) = Tally(r, A)
  BY <1>1, <1>2, <1>3, <1>5, QuantityIsTally
<1>7. \A e \in G : q[e] = r[e]
  BY <1>1, <1>2 DEF Counted
<1>8. Tally(q, G) = Tally(r, G)
  BY <1>7, TallySame
<1>9. \A e \in A : r[e] \in Nat
  BY <1>1, <1>2, <1>3 DEF Counted
<1>10. Tally(r, A) = Tally(r, G) + Tally(r, A \ G)
  <2>1. \A e \in A : r[e] \in Int
    BY <1>9
  <2>2. QED BY <1>2, <1>4, <2>1, TallySplit
<1>11. Tally(r, G) \in Nat /\ Tally(r, A \ G) \in Nat
  <2>1. PICK R : R = A \ G
    OBVIOUS
  <2>2. IsFiniteSet(R) /\ R \in SUBSET A
    BY <1>4, <2>1, FS_Subset
  <2>3. Tally(r, R) \in Nat
    BY <1>9, <2>2, TallyOfNats
  <2>4. Tally(r, G) \in Nat
    BY <1>2, <1>4, <1>9, TallyOfNats
  <2>5. QED BY <2>1, <2>3, <2>4
<1>12. Tally(q, G) <= Quantity(A)
  BY <1>6, <1>8, <1>10, <1>11
<1>13. QED BY <1>1, <1>12

\* The operator's list leaves out nothing a month bills.
LEMMA MetricsListedHolds ==
  ASSUME NEW events, EventsRead(events), NEW mine, NEW shared, GridsRead(mine, shared)
  PROVE  MetricsListed(events, mine, shared)
<1>1. PICK part, grid, listed, s : /\ part = InScope(events) /\ grid = AccountGrid(mine, shared)
                                    /\ listed = UsageMetrics(events, shared)
                                    /\ s = Summary(part, grid, 10)
  OBVIOUS
<1>2. /\ MonthRead(part, grid, 10, Days) /\ part \in SUBSET events
      /\ Groups(part) \subseteq Groups(Events)
  BY <1>1, AccountMonth
<1>3. PICK L, lines : L = [k \in Groups(part) |-> Line(part, k, grid, 10)] /\ lines = s.lines
  OBVIOUS
<1>4. /\ Lines(lines, L, Groups(part))
      /\ \A k \in Groups(part) : IsLine(L[k], part, grid, 10, k)
      /\ s.unpriced = Cardinality(WithoutPrice(lines))
  BY <1>1, <1>2, <1>3, SummaryLines
<1>5. PICK M : M = [k \in Groups(events) |-> MetricLine(events, shared, k)]
  OBVIOUS
<1>6. \A k \in Groups(events) : /\ M[k].key = k /\ (M[k].priced <=> shared[k] # NoPrice)
                                /\ M[k].quantity = Quantity(Group(events, k))
  BY <1>5 DEF MetricLine
<1>7. listed = {M[k] : k \in Groups(events)}
  BY <1>1, <1>5 DEF UsageMetrics, MetricLine
<1>8. Groups(part) \subseteq Groups(events)
  BY <1>2 DEF Groups
<1>9. ASSUME NEW l \in lines
      PROVE  \E m \in listed : m.key = l.key /\ m.quantity >= l.quantity /\ (m.priced => l.priced)
  <2>1. PICK k \in Groups(part) : l = L[k]
    BY <1>4 DEF Lines
  <2>2. k \in Groups(events) /\ k \in Groups(Events)
    BY <1>2, <1>8
  <2>3. l.key = k /\ (l.priced <=> grid[k] # NoPrice) /\ l.quantity = Tally(Counted(part), Group(part, k))
    BY <1>4, <2>1 DEF IsLine
  <2>4. PICK m : m = M[k]
    OBVIOUS
  <2>5. m \in listed /\ m.key = k /\ (m.priced <=> shared[k] # NoPrice) /\ m.quantity = Quantity(Group(events, k))
    BY <1>6, <1>7, <2>2, <2>4
  <2>6. m.quantity >= l.quantity
    BY <1>1, <2>3, <2>5, MonthBelowAll
  <2>7. shared[k] # NoPrice => grid[k] # NoPrice
    BY <1>1, <2>2, AccountPrices
  <2>8. m.priced => l.priced
    BY <2>3, <2>5, <2>7
  <2>9. QED BY <2>3, <2>5, <2>6, <2>8
<1>10. PICK N, U, V : /\ N = {k \in Groups(part) : grid[k] = NoPrice}
                      /\ U = {m \in listed : ~m.priced /\ m.key \in Groups(part) /\ mine[m.key] = NoPrice}
                      /\ V = WithoutPrice(lines)
  OBVIOUS
<1>11. \A k \in Groups(part) : grid[k] = NoPrice <=> mine[k] = NoPrice /\ shared[k] = NoPrice
  BY <1>1, <1>2, AccountPrices
<1>12. Lines(U, M, N)
  <2>1. N \subseteq Groups(events) /\ \A j, k \in N : M[j] = M[k] => j = k
    BY <1>6, <1>8, <1>10
  <2>2. \A m \in U : \E k \in N : m = M[k]
    BY <1>6, <1>7, <1>10, <1>11
  <2>3. \A k \in N : M[k] \in U
    BY <1>6, <1>7, <1>8, <1>10, <1>11
  <2>4. QED BY <2>1, <2>2, <2>3 DEF Lines
<1>13. Lines(V, L, N)
  BY <1>4, <1>10 DEF Lines, IsLine, WithoutPrice
<1>14. IsFiniteSet(N)
  BY <1>2, <1>10, GroupIsPart, FS_Subset DEF MonthRead
<1>15. PICK f, h, r : f = [k \in N |-> 0] /\ h = [m \in U |-> 0] /\ r = [l \in V |-> 0]
  OBVIOUS
<1>16. \A k \in N : f[k] \in Int /\ h[M[k]] = f[k] /\ r[L[k]] = f[k]
  BY <1>12, <1>13, <1>15 DEF Lines
<1>17. Cardinality(U) = Cardinality(N) /\ Cardinality(V) = Cardinality(N)
  BY <1>12, <1>13, <1>14, <1>16, TallyRenamed
<1>18. s.unpriced = Cardinality(U)
  BY <1>4, <1>10, <1>17
<1>19. QED BY <1>1, <1>3, <1>9, <1>10, <1>18 DEF MetricsListed

-----------------------------------------------------------------------------
(* The metrics, and the costs by job *)

\* The tokens and the quantities of lines.
Measured(events, t) == {e \in events : e.metric = t}
QuantityOf(lines) == [l \in lines |-> l.quantity]
TokensOf(lines, t) == [l \in lines |-> l.tokens[t]]

\* The lines of a metric add up to its events.
LEMMA MetricOfSummary ==
  ASSUME NEW events, NEW grid, NEW c, NEW days, MonthRead(events, grid, c, days), NEW t
  PROVE  Quantity({l \in Summary(events, grid, c).lines : l.key.metric = t})
           = Tally(Counted(events), Measured(events, t))
<1>1. PICK L, lines : /\ L = [k \in Groups(events) |-> Line(events, k, grid, c)]
                      /\ lines = Summary(events, grid, c).lines
  OBVIOUS
<1>2. /\ Lines(lines, L, Groups(events))
      /\ \A k \in Groups(events) : IsLine(L[k], events, grid, c, k)
  BY <1>1, SummaryLines
<1>3. PICK K, E, g, q, T : /\ K = {k \in Groups(events) : k.metric = t}
                           /\ E = Measured(events, t) /\ g = ByKey(events) /\ q = Counted(events)
                           /\ T = {l \in lines : l.key.metric = t}
  OBVIOUS
<1>4. IsFiniteSet(events) /\ IsFiniteSet(K) /\ IsFiniteSet(E) /\ E \in SUBSET events
  BY <1>3, GroupIsPart, FS_Subset DEF MonthRead, Measured
<1>5. \A e \in events : g[e] = Key(e) /\ Key(e).metric = e.metric /\ g[e] \in Groups(events)
  BY <1>3 DEF ByKey, Key, Groups
<1>6. \A e \in E : g[e] \in K /\ q[e] \in Int
  <2>1. \A e \in E : g[e] \in K
    BY <1>3, <1>4, <1>5 DEF Measured
  <2>2. \A e \in events : q[e] \in Nat
    BY <1>3, WorthType
  <2>3. QED BY <1>4, <2>1, <2>2
<1>7. Lines(T, L, K)
  BY <1>2, <1>3 DEF Lines, IsLine
<1>8. PICK v : v = QuantityOf(T)
  OBVIOUS
<1>9. DOMAIN v = T /\ \A k \in K : v[L[k]] = L[k].quantity
  BY <1>7, <1>8 DEF Lines, QuantityOf
<1>10. ASSUME NEW k \in K PROVE Part(E, g, k) = Group(events, k)
  <2>1. \A e \in events : Key(e) = k => e.metric = t
    BY <1>3, <1>5
  <2>2. QED BY <1>3, <1>4, <1>5, <2>1 DEF Part, Group, Measured
<1>11. \A k \in K : L[k].quantity = Tally(q, Group(events, k))
  BY <1>2, <1>3 DEF IsLine
<1>12. \A k \in K : v[L[k]] = Tally(q, Part(E, g, k))
  BY <1>9, <1>10, <1>11
<1>13. SumFunction(v) = Tally(q, E)
  BY <1>4, <1>6, <1>7, <1>9, <1>12, SumByLines
<1>14. Quantity(T) = SumFunction(v)
  BY <1>8 DEF Quantity, QuantityOf
<1>15. QED BY <1>1, <1>3, <1>13, <1>14

\* The job of each event.
OfJob(events) == [e \in events |-> e.job]
JobsOf(events) == {e.job : e \in events}

\* A line of the costs by job.
IsJobLine(l, events, grid, c, j) ==
  /\ l.job = j
  /\ NearLine(l.billable, Tally(Worth(events, grid), Part(events, OfJob(events), j)), c, 50 + 5 * c)
  /\ \A t \in Tokens :
       l.tokens[t] = Tally(Counted(events), Part(Measured(events, t), OfJob(events), j))

LEMMA JobLineIsNear ==
  ASSUME NEW events, NEW grid, NEW c, NEW days, MonthRead(events, grid, c, days), NEW j
  PROVE  IsJobLine(JobLine(events, j, grid, c), events, grid, c, j)
<1>1. PICK w, q, g : w = Worth(events, grid) /\ q = Counted(events) /\ g = OfJob(events)
  OBVIOUS
<1>2. PICK mine : mine = {e \in events : e.job = j}
  OBVIOUS
<1>3. mine = Part(events, g, j) /\ mine \in SUBSET events
  BY <1>1, <1>2 DEF Part, OfJob
<1>4. PICK x : x = SumFunction([e \in {e \in mine : grid[Key(e)] # NoPrice} |-> e.quantity * grid[Key(e)]])
  OBVIOUS
<1>5. x = Tally(w, mine) /\ x \in Int
  BY <1>1, <1>3, <1>4, PricedIsTally
<1>6. PICK p : p = HalfEven(x, 10)
  OBVIOUS
<1>7. c \in Nat /\ IsFiniteSet(events) /\ \A e \in events : e.quantity \in Int
  BY DEF MonthRead
<1>8. NearLine(HalfEven(p * c, 10), x, c, 50 + 5 * c)
  BY <1>5, <1>6, <1>7, RoundedTwice DEF NearLine
<1>9. PICK l : l = JobLine(events, j, grid, c)
  OBVIOUS
<1>10. /\ l.job = j /\ l.billable = HalfEven(p * c, 10)
       /\ \A t \in Tokens : l.tokens[t] = Quantity({e \in mine : e.metric = t})
  BY <1>2, <1>4, <1>6, <1>9 DEF JobLine
<1>11. ASSUME NEW t \in Tokens
       PROVE  l.tokens[t] = Tally(q, Part(Measured(events, t), g, j))
  <2>1. PICK es : es = {e \in mine : e.metric = t}
    OBVIOUS
  <2>2. es \in SUBSET events /\ es = Part(Measured(events, t), g, j)
    BY <1>1, <1>2, <2>1 DEF Part, Measured, OfJob
  <2>3. Quantity(es) = Tally(q, es)
    BY <1>1, <1>7, <2>2, QuantityIsTally
  <2>4. QED BY <1>10, <2>1, <2>2, <2>3
<1>12. NearLine(l.billable, Tally(w, Part(events, g, j)), c, 50 + 5 * c)
  BY <1>3, <1>5, <1>8, <1>10
<1>13. QED BY <1>1, <1>9, <1>10, <1>11, <1>12 DEF IsJobLine

\* The jobs are off by what their lines may round, and their tokens are all tokens.
LEMMA JobsAreNear ==
  ASSUME NEW events, NEW grid, NEW c, NEW days, MonthRead(events, grid, c, days),
         NEW jobs, jobs = ByJob(events, grid, c)
  PROVE  /\ Distance(100 * SumFunction(Billed(jobs)), Exact(events, grid, c))
                <= (50 + 5 * c) * Cardinality(jobs)
         /\ \A t \in Tokens :
              SumFunction(TokensOf(jobs, t)) = Tally(Counted(events), Measured(events, t))
<1>1. PICK K, g, w, q : /\ K = JobsOf(events) /\ g = OfJob(events) /\ w = Worth(events, grid)
                        /\ q = Counted(events)
  OBVIOUS
<1>2. PICK L : L = [j \in K |-> JobLine(events, j, grid, c)]
  OBVIOUS
<1>3. \A j \in K : L[j] = JobLine(events, j, grid, c)
  BY <1>2
<1>4. \A j \in K : IsJobLine(L[j], events, grid, c, j)
  BY <1>3, JobLineIsNear
<1>5. jobs = {L[j] : j \in K}
  BY <1>1, <1>3 DEF ByJob, JobsOf
<1>6. Lines(jobs, L, K)
  BY <1>4, <1>5 DEF Lines, IsJobLine
<1>7. IsFiniteSet(events) /\ IsFiniteSet(K) /\ \A e \in events : g[e] \in K
  <2>1. \A e \in events : g[e] = e.job
    BY <1>1 DEF OfJob
  <2>2. K = {g[e] : e \in events}
    BY <1>1, <2>1 DEF JobsOf
  <2>3. IsFiniteSet(events)
    BY DEF MonthRead
  <2>4. QED BY <2>2, <2>3, ImageFinite
<1>8. (\A e \in events : w[e] \in Int) /\ \A e \in events : q[e] \in Int
  BY <1>1, WorthType
<1>9. PICK v, n : v = Billed(jobs) /\ n = 50 + 5 * c
  OBVIOUS
<1>10. n \in Int /\ c \in Int
  BY <1>9 DEF MonthRead
<1>11. DOMAIN v = jobs /\ \A j \in K : v[L[j]] = L[j].billable
  BY <1>6, <1>9 DEF Lines, Billed
<1>12. \A j \in K : NearLine(v[L[j]], Tally(w, Part(events, g, j)), c, n)
  BY <1>1, <1>4, <1>9, <1>11 DEF IsJobLine
<1>13. NearLine(SumFunction(v), Tally(w, events), c, n * Cardinality(jobs)) /\ IsFiniteSet(jobs)
  BY <1>6, <1>7, <1>8, <1>10, <1>11, <1>12, NearByLines
<1>14. Distance(100 * SumFunction(v), Exact(events, grid, c)) <= n * Cardinality(jobs)
  <2>1. Exact(events, grid, c) = c * Tally(w, events) /\ Exact(events, grid, c) \in Int
    BY <1>1, ExactIsTally
  <2>2. PICK b, x, m : /\ b = 100 * SumFunction(v) /\ x = Exact(events, grid, c)
                       /\ m = n * Cardinality(jobs)
    OBVIOUS
  <2>3. Cardinality(jobs) \in Nat
    BY <1>13, FS_CardinalityType
  <2>4. m \in Int
    BY <1>10, <2>2, <2>3
  <2>5. b \in Int /\ x \in Int
    BY <1>13, <2>1, <2>2 DEF NearLine
  <2>6. Near(b, x, m)
    BY <1>13, <2>1, <2>2 DEF NearLine
  <2>7. Distance(b, x) <= m
    BY <2>4, <2>5, <2>6, NearIsDistance
  <2>8. QED BY <2>2, <2>7
<1>15. ASSUME NEW t \in Tokens
       PROVE  SumFunction(TokensOf(jobs, t)) = Tally(q, Measured(events, t))
  <2>1. PICK u, E : u = TokensOf(jobs, t) /\ E = Measured(events, t)
    OBVIOUS
  <2>2. DOMAIN u = jobs /\ \A j \in K : u[L[j]] = L[j].tokens[t]
    BY <1>6, <2>1 DEF Lines, TokensOf
  <2>3. \A j \in K : u[L[j]] = Tally(q, Part(E, g, j))
    BY <1>1, <1>4, <2>1, <2>2 DEF IsJobLine
  <2>4. E \in SUBSET events
    BY <2>1 DEF Measured
  <2>5. IsFiniteSet(E)
    BY <1>7, <2>4, FS_Subset
  <2>6. (\A e \in E : q[e] \in Int) /\ \A e \in E : g[e] \in K
    BY <1>7, <1>8, <2>4
  <2>7. SumFunction(u) = Tally(q, E)
    BY <1>6, <1>7, <2>2, <2>3, <2>5, <2>6, SumByLines
  <2>8. QED BY <2>1, <2>7
<1>16. QED BY <1>1, <1>9, <1>14, <1>15

-----------------------------------------------------------------------------
(* The curves *)

\* The curve and the day of each event; what a curve counts and bills.
OfCurve(by, events) == [e \in events |-> SeriesKey(by, e)]
OfDay(events) == [e \in events |-> e.day]
CurvesOf(by, events) == {SeriesKey(by, e) : e \in events}
Points(by, events, k, d) == Part(Part(events, OfCurve(by, events), k), OfDay(events), d)
CurveQuantities(s, days) == [d \in days |-> s.points[d].quantity]
CurveAmounts(s, days) == [d \in days |-> s.points[d].amount]

IsCurve(s, events, grid, c, by, days, k) ==
  /\ s.key = k
  /\ \A d \in days :
       /\ s.points[d].quantity = Tally(Counted(events), Points(by, events, k, d))
       /\ NearLine(s.points[d].amount, Tally(Worth(events, grid), Points(by, events, k, d)), c, 50)

\* The line _build_timeseries makes for a key.
Curve(events, grid, c, by, days, k) ==
  LET Of(d) == {e \in events : SeriesKey(by, e) = k /\ e.day = d}
      Billable(es) ==
        HalfEven(SumFunction([e \in {e \in es : grid[Key(e)] # NoPrice} |-> e.quantity * grid[Key(e)]])
                   * c, 100)
  IN  [key |-> k, points |-> [d \in days |-> [amount |-> Billable(Of(d)), quantity |-> Quantity(Of(d))]]]

LEMMA CurveIsNear ==
  ASSUME NEW events, NEW grid, NEW c, NEW days, MonthRead(events, grid, c, days), NEW by, NEW k
  PROVE  IsCurve(Curve(events, grid, c, by, days, k), events, grid, c, by, days, k)
<1>1. PICK w, q : w = Worth(events, grid) /\ q = Counted(events)
  OBVIOUS
<1>2. PICK s : s = Curve(events, grid, c, by, days, k)
  OBVIOUS
<1>3. c \in Nat /\ IsFiniteSet(events) /\ \A e \in events : e.quantity \in Int
  BY DEF MonthRead
<1>4. s.key = k
  BY <1>2 DEF Curve
<1>5. ASSUME NEW d \in days
      PROVE  /\ s.points[d].quantity = Tally(q, Points(by, events, k, d))
             /\ NearLine(s.points[d].amount, Tally(w, Points(by, events, k, d)), c, 50)
  <2>1. PICK es : es = {e \in events : SeriesKey(by, e) = k /\ e.day = d}
    OBVIOUS
  <2>2. es \in SUBSET events
    BY <2>1
  <2>3. es = Points(by, events, k, d)
    <3>1. PICK g, o : g = OfCurve(by, events) /\ o = OfDay(events)
      OBVIOUS
    <3>2. \A e \in events : g[e] = SeriesKey(by, e) /\ o[e] = e.day
      BY <3>1 DEF OfCurve, OfDay
    <3>3. es = Part(Part(events, g, k), o, d)
      BY <2>1, <3>2 DEF Part
    <3>4. QED BY <3>1, <3>3 DEF Points
  <2>4. PICK x : x = SumFunction([e \in {e \in es : grid[Key(e)] # NoPrice} |-> e.quantity * grid[Key(e)]])
    OBVIOUS
  <2>5. x = Tally(w, es) /\ x \in Int
    BY <1>1, <2>2, <2>4, PricedIsTally
  <2>6. Quantity(es) = Tally(q, es)
    BY <1>1, <1>3, <2>2, QuantityIsTally
  <2>7. s.points[d] = [amount |-> HalfEven(x * c, 100), quantity |-> Quantity(es)]
    BY <1>2, <2>1, <2>4 DEF Curve
  <2>8. NearLine(HalfEven(x * c, 100), x, c, 50)
    BY <1>3, <2>5, RoundedOnce DEF NearLine
  <2>9. s.points[d].amount = HalfEven(x * c, 100) /\ s.points[d].quantity = Quantity(es)
    BY <2>7
  <2>10. QED BY <2>3, <2>5, <2>6, <2>8, <2>9
<1>6. QED BY <1>1, <1>2, <1>4, <1>5 DEF IsCurve

\* A curve adds up to the events of its key.
LEMMA CurveAdds ==
  ASSUME NEW events, NEW grid, NEW c, NEW days, MonthRead(events, grid, c, days), NEW by,
         NEW k, NEW s, IsCurve(s, events, grid, c, by, days, k)
  PROVE  /\ SumFunction(CurveQuantities(s, days))
              = Tally(Counted(events), Part(events, OfCurve(by, events), k))
         /\ NearLine(SumFunction(CurveAmounts(s, days)),
                     Tally(Worth(events, grid), Part(events, OfCurve(by, events), k)),
                     c, 50 * Cardinality(days))
<1>1. PICK w, q, o, P : /\ w = Worth(events, grid) /\ q = Counted(events) /\ o = OfDay(events)
                        /\ P = Part(events, OfCurve(by, events), k)
  OBVIOUS
<1>2. IsFiniteSet(events) /\ IsFiniteSet(days) /\ c \in Int
  BY DEF MonthRead
<1>3. P \in SUBSET events /\ IsFiniteSet(P)
  BY <1>1, <1>2, FS_Subset DEF Part
<1>4. (\A e \in P : w[e] \in Int) /\ \A e \in P : q[e] \in Int
  BY <1>1, <1>3, WorthType
<1>5. \A e \in P : o[e] \in days
  BY <1>1, <1>3 DEF OfDay, MonthRead
<1>6. PICK L : L = [d \in days |-> d]
  OBVIOUS
<1>7. Lines(days, L, days) /\ \A d \in days : L[d] = d
  BY <1>6 DEF Lines
<1>8. PICK u, v : u = CurveQuantities(s, days) /\ v = CurveAmounts(s, days)
  OBVIOUS
<1>9. /\ DOMAIN u = days /\ DOMAIN v = days
      /\ \A d \in days : u[d] = s.points[d].quantity /\ v[d] = s.points[d].amount
  BY <1>8 DEF CurveQuantities, CurveAmounts
<1>10. \A d \in days : u[L[d]] = Tally(q, Part(P, o, d))
  BY <1>1, <1>7, <1>9 DEF IsCurve, Points
<1>11. SumFunction(u) = Tally(q, P)
  BY <1>2, <1>3, <1>4, <1>5, <1>7, <1>9, <1>10, SumByLines
<1>12. \A d \in days : NearLine(v[L[d]], Tally(w, Part(P, o, d)), c, 50)
  BY <1>1, <1>7, <1>9 DEF IsCurve, Points
<1>13. 50 \in Int
  OBVIOUS
<1>14. NearLine(SumFunction(v), Tally(w, P), c, 50 * Cardinality(days))
  BY <1>2, <1>3, <1>4, <1>5, <1>7, <1>9, <1>12, <1>13, NearByLines
<1>15. QED BY <1>1, <1>8, <1>11, <1>14

\* What the curves of a report count and bill.
SeriesQuantities(series, days) == [s \in series |-> SumFunction(CurveQuantities(s, days))]
SeriesAmounts(series, days) == [s \in series |-> SumFunction(CurveAmounts(s, days))]

\* The curves that are kept; the others count nothing, so cost nothing.
LEMMA SeriesAreNear ==
  ASSUME NEW events, NEW grid, NEW c, NEW days, MonthRead(events, grid, c, days), NEW by,
         NEW series, series = Series(events, grid, c, by, days)
  PROVE  /\ SumFunction(SeriesQuantities(series, days)) = Quantity(events)
         /\ Distance(100 * SumFunction(SeriesAmounts(series, days)), Exact(events, grid, c))
              <= 50 * Cardinality(series) * Cardinality(days)
<1>1. PICK w, q, g, K : /\ w = Worth(events, grid) /\ q = Counted(events)
                        /\ g = OfCurve(by, events) /\ K = CurvesOf(by, events)
  OBVIOUS
<1>2. PICK L : L = [k \in K |-> Curve(events, grid, c, by, days, k)]
  OBVIOUS
<1>3. \A k \in K : L[k] = Curve(events, grid, c, by, days, k)
  BY <1>2
<1>4. \A k \in K : IsCurve(L[k], events, grid, c, by, days, k)
  BY <1>3, CurveIsNear
<1>5. PICK N : N = {k \in K : \E d \in days : L[k].points[d].quantity # 0 \/ L[k].points[d].amount # 0}
  OBVIOUS
<1>6. series = {L[k] : k \in N}
  <2>1. PICK A : A = {L[k] : k \in K}
    OBVIOUS
  <2>2. series = {s \in A : \E d \in days : s.points[d].quantity # 0 \/ s.points[d].amount # 0}
    <3>1. A = {Curve(events, grid, c, by, days, k) : k \in K}
      BY <1>3, <2>1
    <3>2. QED BY <1>1, <3>1 DEF Series, Curve, CurvesOf
  <2>3. QED BY <1>5, <2>1, <2>2
<1>7. Lines(series, L, N)
  BY <1>4, <1>5, <1>6 DEF Lines, IsCurve
<1>8. IsFiniteSet(events) /\ IsFiniteSet(days) /\ IsFiniteSet(K) /\ IsFiniteSet(N)
      /\ \A e \in events : g[e] \in K
  <2>1. \A e \in events : g[e] = SeriesKey(by, e)
    BY <1>1 DEF OfCurve
  <2>2. K = {g[e] : e \in events}
    BY <1>1, <2>1 DEF CurvesOf
  <2>3. IsFiniteSet(events) /\ IsFiniteSet(days)
    BY DEF MonthRead
  <2>4. IsFiniteSet(K)
    BY <2>2, <2>3, ImageFinite
  <2>5. IsFiniteSet(N)
    BY <1>5, <2>4, FS_Subset
  <2>6. QED BY <2>2, <2>3, <2>4, <2>5
<1>9. \A e \in events : q[e] \in Nat /\ w[e] \in Nat /\ (q[e] = 0 => w[e] = 0)
  BY <1>1, WorthType
<1>10. ASSUME NEW k \in K \ N, NEW e \in events, g[e] = k
       PROVE  q[e] = 0
  <2>1. PICK P, u : P = Part(events, g, k) /\ u = CurveQuantities(L[k], days)
    OBVIOUS
  <2>2. \A d \in days : u[d] = 0
    BY <1>5, <2>1 DEF CurveQuantities
  <2>3. DOMAIN u = days
    BY <2>1 DEF CurveQuantities
  <2>4. SumFunction(u) = Tally(u, days) /\ Tally(u, days) = 0
    BY <1>8, <2>2, <2>3, SumFunctionIsTally, TallyOfZeros
  <2>5. SumFunction(u) = Tally(q, P)
    BY <1>1, <1>4, <2>1, CurveAdds
  <2>6. P \in SUBSET events /\ e \in P
    BY <1>10, <2>1 DEF Part
  <2>7. IsFiniteSet(P) /\ \A x \in P : q[x] \in Nat
    BY <1>8, <1>9, <2>6, FS_Subset
  <2>8. \A x \in P : q[x] = 0
    BY <2>4, <2>5, <2>7, TallyOfNats
  <2>9. QED BY <2>6, <2>8
<1>11. PICK E : E = {e \in events : g[e] \in N}
  OBVIOUS
<1>12. /\ E \in SUBSET events /\ IsFiniteSet(E) /\ \A e \in E : g[e] \in N
       /\ \A e \in events \ E : q[e] = 0 /\ w[e] = 0
  <2>1. \A e \in events \ E : q[e] = 0
    BY <1>8, <1>10, <1>11
  <2>2. E \in SUBSET events
    BY <1>11
  <2>3. QED BY <1>8, <1>9, <1>11, <2>1, <2>2, FS_Subset
<1>13. /\ \A e \in events : q[e] \in Int
       /\ \A e \in events : w[e] \in Int
       /\ \A e \in E : q[e] \in Int
       /\ \A e \in E : w[e] \in Int
  BY <1>9, <1>12
<1>14. Tally(q, events) = Tally(q, E) /\ Tally(w, events) = Tally(w, E)
  BY <1>8, <1>12, <1>13, TallyOfTheRest
<1>15. \A k \in N : Part(E, g, k) = Part(events, g, k)
  BY <1>11 DEF Part
<1>16. PICK u, v : u = SeriesQuantities(series, days) /\ v = SeriesAmounts(series, days)
  OBVIOUS
<1>17. /\ DOMAIN u = series /\ DOMAIN v = series
       /\ \A k \in N : u[L[k]] = SumFunction(CurveQuantities(L[k], days))
       /\ \A k \in N : v[L[k]] = SumFunction(CurveAmounts(L[k], days))
  BY <1>6, <1>16 DEF SeriesQuantities, SeriesAmounts
<1>18. \A k \in N : u[L[k]] = Tally(q, Part(E, g, k))
  BY <1>1, <1>4, <1>5, <1>15, <1>17, CurveAdds
<1>19. SumFunction(u) = Tally(q, E)
  BY <1>7, <1>8, <1>12, <1>13, <1>17, <1>18, SumByLines
<1>20. Quantity(events) = Tally(q, events)
  <2>1. events \in SUBSET events /\ \A e \in events : e.quantity \in Int
    BY DEF MonthRead
  <2>2. QED BY <1>1, <1>8, <2>1, QuantityIsTally
<1>21. PICK n : n = 50 * Cardinality(days)
  OBVIOUS
<1>22. n \in Int /\ c \in Int
  BY <1>8, <1>21, FS_CardinalityType DEF MonthRead
<1>23. \A k \in N : NearLine(v[L[k]], Tally(w, Part(E, g, k)), c, n)
  BY <1>1, <1>4, <1>5, <1>15, <1>17, <1>21, CurveAdds
<1>24. NearLine(SumFunction(v), Tally(w, E), c, n * Cardinality(series)) /\ IsFiniteSet(series)
  BY <1>7, <1>8, <1>12, <1>13, <1>17, <1>22, <1>23, NearByLines
<1>25. Distance(100 * SumFunction(v), Exact(events, grid, c)) <= 50 * Cardinality(series) * Cardinality(days)
  <2>1. Exact(events, grid, c) = c * Tally(w, events) /\ Exact(events, grid, c) \in Int
    BY <1>1, ExactIsTally
  <2>2. PICK b, x, m, r, z : /\ b = 100 * SumFunction(v) /\ x = Exact(events, grid, c)
                             /\ r = Cardinality(series) /\ z = Cardinality(days)
                             /\ m = n * r
    OBVIOUS
  <2>3. r \in Nat /\ z \in Nat
    BY <1>8, <1>24, <2>2, FS_CardinalityType
  <2>4. m \in Int /\ m = 50 * r * z
    BY <1>21, <2>2, <2>3
  <2>5. b \in Int /\ x \in Int
    BY <1>24, <2>1, <2>2 DEF NearLine
  <2>6. Near(b, x, m)
    BY <1>14, <1>24, <2>1, <2>2 DEF NearLine
  <2>7. Distance(b, x) <= m
    BY <2>4, <2>5, <2>6, NearIsDistance
  <2>8. QED BY <2>2, <2>4, <2>7
<1>26. QED BY <1>14, <1>16, <1>19, <1>20, <1>25

\* The summary, the jobs and the curves of a month that can be read are the same money.
LEMMA SameMoneyHolds ==
  ASSUME NEW events, NEW grid, NEW c, NEW days, MonthRead(events, grid, c, days)
  PROVE  SameMoney(events, grid, c, days)
<1>1. PICK jobs : jobs = ByJob(events, grid, c)
  OBVIOUS
<1>2. PICK s : s = Summary(events, grid, c)
  OBVIOUS
<1>3. PICK x, n : x = Exact(events, grid, c) /\ n = 50 + 5 * c
  OBVIOUS
<1>4. Distance(100 * s.billable, x) <= n * Cardinality(s.lines)
  BY <1>2, <1>3, SummaryIsNear
<1>5. Distance(100 * SumFunction([l \in jobs |-> l.billable]), x) <= n * Cardinality(jobs)
  BY <1>1, <1>3, JobsAreNear DEF Billed
<1>7. ASSUME NEW t \in Tokens
      PROVE  SumFunction([l \in jobs |-> l.tokens[t]]) = Quantity({l \in s.lines : l.key.metric = t})
  <2>1. SumFunction(TokensOf(jobs, t)) = Tally(Counted(events), Measured(events, t))
    BY <1>1, JobsAreNear
  <2>2. Quantity({l \in s.lines : l.key.metric = t}) = Tally(Counted(events), Measured(events, t))
    BY <1>2, MetricOfSummary
  <2>3. QED BY <2>1, <2>2 DEF TokensOf
<1>8. ASSUME NEW by \in {"none", "provider", "model", "service"}
      PROVE  LET series == Series(events, grid, c, by, days) IN
             /\ SumFunction([a \in series |-> SumFunction([d \in days |-> a.points[d].quantity])])
                  = Quantity(events)
             /\ Distance(100 * SumFunction([a \in series |->
                                 SumFunction([d \in days |-> a.points[d].amount])]), x)
                  <= 50 * Cardinality(series) * Cardinality(days)
  <2>1. PICK series : series = Series(events, grid, c, by, days)
    OBVIOUS
  <2>2. /\ SumFunction(SeriesQuantities(series, days)) = Quantity(events)
        /\ Distance(100 * SumFunction(SeriesAmounts(series, days)), x)
             <= 50 * Cardinality(series) * Cardinality(days)
    BY <1>3, <2>1, SeriesAreNear
  <2>3. QED BY <2>1, <2>2 DEF SeriesQuantities, SeriesAmounts, CurveQuantities, CurveAmounts
<1>9. QED BY <1>1, <1>2, <1>3, <1>4, <1>5, <1>7, <1>8 DEF SameMoney

-----------------------------------------------------------------------------
(* The client's view *)

\* A line of the client's view, of a service and a metric.
Seen(lines, k) ==
  LET same == {m \in lines : ServiceLabel(m.key.provider) = k.service /\ m.key.metric = k.metric}
  IN  [service |-> k.service, metric |-> k.metric, quantity |-> Quantity(same),
       priced |-> \E m \in same : m.priced, billable |-> SumFunction(Billed(same))]
SeenAs(lines) ==
  [l \in lines |-> [service |-> ServiceLabel(l.key.provider), metric |-> l.key.metric]]

\* The client's lines: one for each service and metric.
ServicesOf(lines) == {SeenAs(lines)[l] : l \in lines}
LinesSeen(lines) == [k \in ServicesOf(lines) |-> Seen(lines, k)]
View(lines) == {Seen(lines, k) : k \in ServicesOf(lines)}

\* Lines with amounts and quantities.
AmountsOf(lines) ==
  IsFiniteSet(lines) /\ \A l \in lines : l.billable \in Int /\ l.quantity \in Int

\* A view has one line for each service and metric, and adds up to what it hides.
LEMMA ViewAdds ==
  ASSUME NEW lines, AmountsOf(lines)
  PROVE  /\ Lines(View(lines), LinesSeen(lines), ServicesOf(lines))
         /\ AmountsOf(View(lines))
         /\ SumFunction(Billed(View(lines))) = SumFunction(Billed(lines))
         /\ Quantity(View(lines)) = Quantity(lines)
<1> PICK view, K, g : view = View(lines) /\ K = ServicesOf(lines) /\ g = SeenAs(lines)
  OBVIOUS
<1>0. K = {g[l] : l \in lines} /\ view = {Seen(lines, k) : k \in K}
  BY DEF ServicesOf, View
<1>1. PICK L : L = LinesSeen(lines)
  OBVIOUS
<1>2. \A l \in lines : g[l] = [service |-> ServiceLabel(l.key.provider), metric |-> l.key.metric]
  BY DEF SeenAs
<1>3. /\ \A l \in lines : g[l].service = ServiceLabel(l.key.provider) /\ g[l].metric = l.key.metric
      /\ \A l, m \in lines : g[l].service = g[m].service /\ g[l].metric = g[m].metric => g[l] = g[m]
  <2>1. ASSUME NEW l \in lines
        PROVE  g[l].service = ServiceLabel(l.key.provider) /\ g[l].metric = l.key.metric
    <3>1. PICK a, b : a = ServiceLabel(l.key.provider) /\ b = l.key.metric
      OBVIOUS
    <3>2. g[l] = [service |-> a, metric |-> b]
      BY <1>2, <3>1
    <3>3. g[l].service = a /\ g[l].metric = b
      BY <3>2
    <3>4. QED BY <3>1, <3>3
  <2>2. ASSUME NEW l \in lines, NEW m \in lines, g[l].service = g[m].service, g[l].metric = g[m].metric
        PROVE  g[l] = g[m]
    <3>1. ServiceLabel(l.key.provider) = ServiceLabel(m.key.provider) /\ l.key.metric = m.key.metric
      BY <2>1, <2>2
    <3>2. /\ g[l] = [service |-> ServiceLabel(l.key.provider), metric |-> l.key.metric]
          /\ g[m] = [service |-> ServiceLabel(m.key.provider), metric |-> m.key.metric]
      BY <1>2
    <3>3. QED BY <3>1, <3>2
  <2>3. QED BY <2>1, <2>2
<1>4. \A k \in K : L[k] = Seen(lines, k)
  BY <1>1 DEF LinesSeen
<1>5. ASSUME NEW k \in K PROVE L[k].service = k.service /\ L[k].metric = k.metric
  <2>1. L[k] = Seen(lines, k)
    BY <1>4
  <2>2. Seen(lines, k).service = k.service /\ Seen(lines, k).metric = k.metric
    BY DEF Seen
  <2>3. QED BY <2>1, <2>2
<1>6. view = {L[k] : k \in K}
  BY <1>0, <1>4
<1>7. Lines(view, L, K)
  <2>1. ASSUME NEW j \in K, NEW k \in K, L[j] = L[k] PROVE j = k
    <3>1. j.service = k.service /\ j.metric = k.metric
      BY <1>5, <2>1
    <3>2. PICK l \in lines, m \in lines : j = g[l] /\ k = g[m]
      BY <1>0
    <3>3. QED BY <1>3, <3>1, <3>2
  <2>2. QED BY <1>6, <2>1 DEF Lines
<1>8. IsFiniteSet(lines) /\ IsFiniteSet(K) /\ \A l \in lines : g[l] \in K
  <2>1. IsFiniteSet(lines)
    BY DEF AmountsOf
  <2>2. QED BY <1>0, <2>1, ImageFinite
<1>9. PICK b, q, u, v : /\ b = Billed(lines) /\ q = QuantityOf(lines)
                        /\ u = QuantityOf(view) /\ v = Billed(view)
  OBVIOUS
<1>10. /\ \A l \in lines : b[l] \in Int
       /\ \A l \in lines : q[l] \in Int
       /\ \A l \in lines : b[l] = l.billable /\ q[l] = l.quantity
       /\ DOMAIN b = lines /\ DOMAIN q = lines
  BY <1>9 DEF Billed, QuantityOf, AmountsOf
<1>11. ASSUME NEW k \in K
       PROVE  L[k].billable = Tally(b, Part(lines, g, k)) /\ L[k].quantity = Tally(q, Part(lines, g, k))
  <2>1. PICK same : same = {m \in lines : ServiceLabel(m.key.provider) = k.service /\ m.key.metric = k.metric}
    OBVIOUS
  <2>2. same = Part(lines, g, k)
    <3>1. PICK l \in lines : k = g[l]
      BY <1>0
    <3>3. \A m \in lines : g[m] = k <=> ServiceLabel(m.key.provider) = k.service /\ m.key.metric = k.metric
      BY <1>3, <3>1
    <3>4. QED BY <2>1, <3>3 DEF Part
  <2>3. same \in SUBSET lines /\ IsFiniteSet(same)
    BY <1>8, <2>1, FS_Subset
  <2>4. L[k].billable = SumFunction(Billed(same)) /\ L[k].quantity = Quantity(same)
    <3>1. L[k] = Seen(lines, k)
      BY <1>4
    <3>2. Seen(lines, k).billable = SumFunction(Billed(same)) /\ Seen(lines, k).quantity = Quantity(same)
      BY <2>1 DEF Seen
    <3>3. QED BY <3>1, <3>2
  <2>5. PICK f, h : f = Billed(same) /\ h = QuantityOf(same)
    OBVIOUS
  <2>6. /\ DOMAIN f = same /\ DOMAIN h = same
        /\ \A m \in same : f[m] = b[m]
        /\ \A m \in same : h[m] = q[m]
        /\ \A m \in same : f[m] \in Int
        /\ \A m \in same : h[m] \in Int
    BY <1>10, <2>3, <2>5 DEF Billed, QuantityOf
  <2>7. SumFunction(f) = Tally(f, same) /\ SumFunction(h) = Tally(h, same)
    BY <2>3, <2>6, SumFunctionIsTally
  <2>8. Tally(f, same) = Tally(b, same) /\ Tally(h, same) = Tally(q, same)
    BY <2>6, TallySame
  <2>9. Quantity(same) = SumFunction(h)
    BY <2>5 DEF Quantity, QuantityOf
  <2>10. QED BY <2>2, <2>4, <2>5, <2>7, <2>8, <2>9
<1>12. /\ DOMAIN u = view /\ DOMAIN v = view
       /\ \A l \in view : u[l] = l.quantity /\ v[l] = l.billable
  BY <1>9 DEF QuantityOf, Billed
<1>13. /\ \A k \in K : u[L[k]] = Tally(q, Part(lines, g, k))
       /\ \A k \in K : v[L[k]] = Tally(b, Part(lines, g, k))
  BY <1>6, <1>11, <1>12
<1>14. SumFunction(u) = Tally(q, lines) /\ (\A l \in view : u[l] \in Int) /\ IsFiniteSet(view)
  <2>1. \A k \in K : u[L[k]] = Tally(q, Part(lines, g, k))
    BY <1>13
  <2>2. /\ \A l \in lines : q[l] \in Int
        /\ DOMAIN u = view
    BY <1>10, <1>12
  <2>3. QED BY <1>7, <1>8, <2>1, <2>2, SumByLines
<1>15. SumFunction(v) = Tally(b, lines) /\ (\A l \in view : v[l] \in Int)
  BY <1>7, <1>8, <1>10, <1>12, <1>13, SumByLines
<1>16. SumFunction(q) = Tally(q, lines) /\ SumFunction(b) = Tally(b, lines)
  BY <1>8, <1>10, SumFunctionIsTally
<1>17. AmountsOf(view)
  BY <1>12, <1>14, <1>15 DEF AmountsOf
<1>18. Quantity(view) = SumFunction(u) /\ Quantity(lines) = SumFunction(q)
  BY <1>9 DEF Quantity, QuantityOf
<1>19. QED BY <1>1, <1>7, <1>9, <1>14, <1>15, <1>16, <1>17, <1>18

\* The lines of a summary have amounts, and add up to the quantity of the events.
LEMMA SummaryAmounts ==
  ASSUME NEW events, NEW grid, NEW c, NEW days, MonthRead(events, grid, c, days),
         NEW lines, lines = Summary(events, grid, c).lines
  PROVE  AmountsOf(lines) /\ Quantity(lines) = Quantity(events)
<1>1. PICK L : L = [k \in Groups(events) |-> Line(events, k, grid, c)]
  OBVIOUS
<1>2. /\ Lines(lines, L, Groups(events))
      /\ \A k \in Groups(events) : IsLine(L[k], events, grid, c, k)
  BY <1>1, SummaryLines
<1>3. PICK K, g, q : K = Groups(events) /\ g = ByKey(events) /\ q = Counted(events)
  OBVIOUS
<1>4. IsFiniteSet(events) /\ IsFiniteSet(K) /\ \A e \in events : g[e] \in K
  BY <1>3, GroupIsPart DEF MonthRead
<1>5. \A e \in events : q[e] \in Int
  BY <1>3, WorthType
<1>6. PICK v : v = QuantityOf(lines)
  OBVIOUS
<1>7. /\ DOMAIN v = lines /\ \A l \in lines : v[l] = l.quantity
      /\ \A k \in K : L[k] \in lines
      /\ \A l \in lines : \E k \in K : l = L[k]
  BY <1>2, <1>3, <1>6 DEF QuantityOf, Lines
<1>8. \A k \in K : v[L[k]] = Tally(q, Part(events, g, k))
  BY <1>2, <1>3, <1>7, GroupIsPart DEF IsLine
<1>9. Lines(lines, L, K)
  BY <1>2, <1>3
<1>10. SumFunction(v) = Tally(q, events) /\ (\A l \in lines : v[l] \in Int) /\ IsFiniteSet(lines)
  BY <1>4, <1>5, <1>7, <1>8, <1>9, SumByLines
<1>11. \A l \in lines : l.billable \in Int
  BY <1>2, <1>3, <1>7 DEF IsLine, NearLine
<1>12. AmountsOf(lines)
  BY <1>7, <1>10, <1>11 DEF AmountsOf
<1>13. Quantity(events) = Tally(q, events)
  <2>1. events \in SUBSET events /\ \A e \in events : e.quantity \in Int
    BY DEF MonthRead
  <2>2. QED BY <1>3, <1>4, <2>1, QuantityIsTally
<1>14. Quantity(lines) = SumFunction(v)
  BY <1>6 DEF Quantity, QuantityOf
<1>15. QED BY <1>10, <1>12, <1>13, <1>14

\* The client's lines are the view of the lines of the summary.
LEMMA RedactedIsView ==
  ASSUME NEW s, NEW lines, lines = s.lines
  PROVE  Redacted(s).lines = View(lines) /\ Redacted(s).total = s.billable
<1> PICK g : g = SeenAs(lines)
  OBVIOUS
<1> DEFINE R(l) ==
      LET same == {m \in lines : ServiceLabel(m.key.provider) = ServiceLabel(l.key.provider)
                                   /\ m.key.metric = l.key.metric}
      IN  [service |-> ServiceLabel(l.key.provider), metric |-> l.key.metric,
           quantity |-> Quantity(same), priced |-> \E m \in same : m.priced,
           billable |-> SumFunction([m \in same |-> m.billable])]
<1>1. ASSUME NEW l \in lines PROVE R(l) = Seen(lines, g[l])
  <2>1. PICK a, b : a = ServiceLabel(l.key.provider) /\ b = l.key.metric
    OBVIOUS
  <2>2. g[l] = [service |-> a, metric |-> b]
    BY <2>1 DEF SeenAs
  <2>3. g[l].service = a /\ g[l].metric = b
    BY <2>2
  <2>4. PICK same : same = {m \in lines : ServiceLabel(m.key.provider) = a /\ m.key.metric = b}
    OBVIOUS
  <2>5. Seen(lines, g[l]) = [service |-> a, metric |-> b, quantity |-> Quantity(same),
                             priced |-> \E m \in same : m.priced,
                             billable |-> SumFunction(Billed(same))]
    BY <2>3, <2>4 DEF Seen
  <2>6. R(l) = [service |-> a, metric |-> b, quantity |-> Quantity(same),
                priced |-> \E m \in same : m.priced,
                billable |-> SumFunction([m \in same |-> m.billable])]
    BY <2>1, <2>4
  <2>7. QED BY <2>5, <2>6 DEF Billed
<1>2. Redacted(s).lines = {R(l) : l \in lines} /\ Redacted(s).total = s.billable
  BY DEF Redacted
<1> HIDE DEF R
<1>3. {R(l) : l \in lines} = {Seen(lines, g[l]) : l \in lines}
  BY <1>1
<1>4. {Seen(lines, g[l]) : l \in lines} = View(lines)
  BY DEF View, ServicesOf
<1>5. QED BY <1>2, <1>3, <1>4

\* The amounts of the client's file.
FileOf(view) == {<<[service |-> l.service, metric |-> l.metric], l.billable>> : l \in view}
FileAmounts(file) == [a \in file |-> a[2]]

\* The file writes each line of the view once, so adds up to it.
LEMMA FileAdds ==
  ASSUME NEW view, AmountsOf(view),
         \A l, m \in view : l.service = m.service /\ l.metric = m.metric => l = m
  PROVE  SumFunction(FileAmounts(FileOf(view))) = SumFunction(Billed(view))
<1>1. PICK g, T, h, f : /\ T = FileOf(view) /\ f = Billed(view) /\ h = FileAmounts(T)
                        /\ g = [l \in view |-> <<[service |-> l.service, metric |-> l.metric], l.billable>>]
  OBVIOUS
<1>2. ASSUME NEW l \in view
      PROVE  /\ g[l] \in T /\ h[g[l]] = f[l] /\ f[l] \in Int
             /\ g[l][1].service = l.service /\ g[l][1].metric = l.metric
  <2>1. PICK r, b : r = [service |-> l.service, metric |-> l.metric] /\ b = l.billable
    OBVIOUS
  <2>2. g[l] = <<r, b>>
    BY <1>1, <2>1
  <2>3. g[l] \in T
    BY <1>1 DEF FileOf
  <2>4. <<r, b>>[1] = r /\ <<r, b>>[2] = b
    OBVIOUS
  <2>5. h[g[l]] = b
    BY <1>1, <2>2, <2>3, <2>4 DEF FileAmounts
  <2>6. f[l] = b /\ b \in Int
    BY <1>1, <2>1 DEF Billed, AmountsOf
  <2>7. r.service = l.service /\ r.metric = l.metric
    BY <2>1
  <2>8. QED BY <2>2, <2>3, <2>4, <2>5, <2>6, <2>7
<1>3. T = {g[l] : l \in view}
  BY <1>1 DEF FileOf
<1>4. \A l, m \in view : g[l] = g[m] => l = m
  BY <1>2
<1>5. Lines(T, g, view)
  BY <1>3, <1>4 DEF Lines
<1>6. IsFiniteSet(view) /\ \A l \in view : f[l] \in Int
  BY <1>2 DEF AmountsOf
<1>7. Tally(h, T) = Tally(f, view) /\ IsFiniteSet(T)
  BY <1>2, <1>5, <1>6, TallyRenamed
<1>8. \A a \in T : h[a] \in Int
  BY <1>2, <1>3
<1>9. DOMAIN h = T /\ DOMAIN f = view
  BY <1>1 DEF FileAmounts, Billed
<1>10. SumFunction(h) = Tally(h, T) /\ SumFunction(f) = Tally(f, view)
  BY <1>6, <1>7, <1>8, <1>9, SumFunctionIsTally
<1>11. QED BY <1>1, <1>7, <1>10

\* The metrics of a job add up to the same when they are told by service.
LEMMA JobKeepsMetrics ==
  ASSUME NEW line, NEW D, D = DOMAIN line.other, IsFiniteSet(D),
         \A k \in D : line.other[k] \in Int
  PROVE  SumFunction(RedactedJob(line).other) = SumFunction(line.other)
<1>1. PICK f, g, K : /\ f = line.other /\ g = [k \in D |-> <<ServiceLabel(k[1]), k[2]>>]
                     /\ K = {<<ServiceLabel(k[1]), k[2]>> : k \in D}
  OBVIOUS
<1>2. PICK h : h = RedactedJob(line).other
  OBVIOUS
<1>3. h = [m \in K |-> SumFunction([k \in {k \in D : <<ServiceLabel(k[1]), k[2]>> = m} |-> f[k]])]
  BY <1>1, <1>2 DEF RedactedJob
<1>4. K = {g[k] : k \in D} /\ IsFiniteSet(K) /\ \A k \in D : g[k] \in K
  <2>1. K = {g[k] : k \in D}
    BY <1>1
  <2>2. QED BY <2>1, ImageFinite
<1>5. (\A k \in D : f[k] \in Int) /\ DOMAIN f = D
  BY <1>1
<1>6. ASSUME NEW m \in K PROVE h[m] = Tally(f, Part(D, g, m))
  <2>1. PICK P : P = {k \in D : <<ServiceLabel(k[1]), k[2]>> = m}
    OBVIOUS
  <2>2. P = Part(D, g, m)
    BY <1>1, <2>1 DEF Part
  <2>3. P \in SUBSET D /\ IsFiniteSet(P)
    BY <2>1, FS_Subset
  <2>4. PICK u : u = [k \in P |-> f[k]]
    OBVIOUS
  <2>5. (\A k \in P : u[k] = f[k]) /\ (\A k \in P : u[k] \in Int) /\ DOMAIN u = P
    BY <1>5, <2>3, <2>4
  <2>6. SumFunction(u) = Tally(u, P) /\ Tally(u, P) = Tally(f, P)
    BY <2>3, <2>5, SumFunctionIsTally, TallySame
  <2>7. h[m] = SumFunction(u)
    BY <1>3, <2>1, <2>4
  <2>8. QED BY <2>2, <2>6, <2>7
<1>7. Tally(f, D) = Tally(h, K) /\ \A m \in K : h[m] \in Int
  BY <1>4, <1>5, <1>6, TallyByGroups
<1>8. DOMAIN h = K
  BY <1>3
<1>9. SumFunction(h) = Tally(h, K) /\ SumFunction(f) = Tally(f, D)
  BY <1>4, <1>5, <1>7, <1>8, SumFunctionIsTally
<1>10. QED BY <1>1, <1>2, <1>7, <1>9

\* The metrics of a job are finitely many quantities.
LEMMA JobMetrics ==
  ASSUME NEW events, NEW grid, NEW c, NEW days, MonthRead(events, grid, c, days), NEW j,
         NEW line, line = JobLine(events, j, grid, c)
  PROVE  IsFiniteSet(DOMAIN line.other) /\ \A k \in DOMAIN line.other : line.other[k] \in Int
<1>1. PICK mine, E : /\ mine = {e \in events : e.job = j}
                     /\ E = {e \in mine : e.metric \notin Tokens}
  OBVIOUS
<1>2. PICK D : D = {<<e.provider, e.metric>> : e \in E}
  OBVIOUS
<1>3. line.other = [m \in D |-> Quantity({e \in mine : <<e.provider, e.metric>> = m})]
  BY <1>1, <1>2 DEF JobLine
<1>4. IsFiniteSet(E) /\ mine \in SUBSET events
  BY <1>1, FS_Subset DEF MonthRead
<1>5. PICK g : g = [e \in E |-> <<e.provider, e.metric>>]
  OBVIOUS
<1>6. D = {g[e] : e \in E}
  BY <1>2, <1>5
<1>7. IsFiniteSet(D)
  BY <1>4, <1>6, ImageFinite
<1>8. ASSUME NEW m \in D PROVE line.other[m] \in Int
  <2>1. PICK es : es = {e \in mine : <<e.provider, e.metric>> = m}
    OBVIOUS
  <2>2. es \in SUBSET events
    BY <1>4, <2>1
  <2>3. line.other[m] = Quantity(es)
    BY <1>3, <2>1
  <2>4. PICK q : q = Counted(events)
    OBVIOUS
  <2>5. IsFiniteSet(events) /\ IsFiniteSet(es) /\ \A e \in events : e.quantity \in Int
    BY <2>2, FS_Subset DEF MonthRead
  <2>6. Quantity(es) = Tally(q, es)
    BY <2>2, <2>4, <2>5, QuantityIsTally
  <2>7. \A e \in es : q[e] \in Int
    BY <2>2, <2>4, WorthType
  <2>8. Tally(q, es) \in Int
    BY <2>5, <2>7, TallyType
  <2>9. QED BY <2>3, <2>6, <2>8
<1>9. QED BY <1>3, <1>7, <1>8

\* The client's view says nothing of the models and loses nothing of the bill.
LEMMA WhiteLabelHolds ==
  ASSUME NEW events, NEW grid, NEW c, NEW days, MonthRead(events, grid, c, days)
  PROVE  WhiteLabel(events, grid, c, days)
<1>1. PICK s, lines, g, K : /\ s = Summary(events, grid, c) /\ lines = s.lines
                            /\ g = SeenAs(lines) /\ K = ServicesOf(lines)
  OBVIOUS
<1>2. PICK view, L : view = Redacted(s) /\ L = LinesSeen(lines)
  OBVIOUS
<1>3. PICK shown : shown = view.lines
  OBVIOUS
<1>0. K = {g[l] : l \in lines}
  BY <1>1 DEF ServicesOf
<1>4. shown = View(lines) /\ view.total = s.billable
  BY <1>1, <1>2, <1>3, RedactedIsView
<1>5. AmountsOf(lines) /\ Quantity(lines) = Quantity(events)
  BY <1>1, SummaryAmounts
<1>6. /\ Lines(shown, L, K) /\ AmountsOf(shown)
      /\ SumFunction(Billed(shown)) = SumFunction(Billed(lines))
      /\ Quantity(shown) = Quantity(lines)
  BY <1>1, <1>2, <1>4, <1>5, ViewAdds
<1>7. ASSUME NEW k \in K PROVE L[k].service = k.service /\ L[k].metric = k.metric
  <2>1. L[k] = Seen(lines, k)
    BY <1>1, <1>2 DEF LinesSeen
  <2>2. Seen(lines, k).service = k.service /\ Seen(lines, k).metric = k.metric
    BY DEF Seen
  <2>3. QED BY <2>1, <2>2
<1>8. ASSUME NEW l \in lines
      PROVE  \E a, b : /\ g[l] = [service |-> a, metric |-> b]
                       /\ a = ServiceLabel(l.key.provider) /\ g[l].service = a /\ g[l].metric = b
  <2>1. PICK a, b : a = ServiceLabel(l.key.provider) /\ b = l.key.metric
    OBVIOUS
  <2>2. g[l] = [service |-> a, metric |-> b]
    BY <1>1, <2>1 DEF SeenAs
  <2>3. g[l].service = a /\ g[l].metric = b
    BY <2>2
  <2>4. QED BY <2>1, <2>2, <2>3
<1>9. \A l, m \in shown : l.service = m.service /\ l.metric = m.metric => l = m
  <2>1. ASSUME NEW j \in K, NEW k \in K, j.service = k.service, j.metric = k.metric PROVE j = k
    <3>1. PICK l \in lines, m \in lines : j = g[l] /\ k = g[m]
      BY <1>0
    <3>2. PICK a, b : j = [service |-> a, metric |-> b] /\ j.service = a /\ j.metric = b
      BY <1>8, <3>1
    <3>3. PICK x, y : k = [service |-> x, metric |-> y] /\ k.service = x /\ k.metric = y
      BY <1>8, <3>1
    <3>4. a = x /\ b = y
      BY <2>1, <3>2, <3>3
    <3>5. QED BY <3>2, <3>3, <3>4
  <2>2. \A l \in shown : \E k \in K : l = L[k]
    BY <1>6 DEF Lines
  <2>3. QED BY <1>7, <2>1, <2>2
<1>10. {l.service : l \in shown} = {ServiceLabel(e.provider) : e \in events}
  <2>1. shown = {L[k] : k \in K}
    BY <1>6 DEF Lines
  <2>2. {l.service : l \in shown} = {k.service : k \in K}
    BY <1>7, <2>1
  <2>3. \A l \in lines : g[l].service = ServiceLabel(l.key.provider)
    BY <1>8
  <2>4. {k.service : k \in K} = {ServiceLabel(l.key.provider) : l \in lines}
    BY <1>0, <2>3
  <2>5. PICK M : M = [k \in Groups(events) |-> Line(events, k, grid, c)]
    OBVIOUS
  <2>6. Lines(lines, M, Groups(events)) /\ \A k \in Groups(events) : IsLine(M[k], events, grid, c, k)
    BY <1>1, <2>5, SummaryLines
  <2>7. lines = {M[k] : k \in Groups(events)} /\ \A k \in Groups(events) : M[k].key = k
    BY <2>6 DEF Lines, IsLine
  <2>8. {ServiceLabel(l.key.provider) : l \in lines} = {ServiceLabel(k.provider) : k \in Groups(events)}
    BY <2>7
  <2>9. \A e \in events : Key(e).provider = e.provider
    BY DEF Key
  <2>10. {ServiceLabel(k.provider) : k \in Groups(events)} = {ServiceLabel(e.provider) : e \in events}
    BY <2>9 DEF Groups
  <2>11. QED BY <2>2, <2>4, <2>8, <2>10
<1>11. SumFunction([l \in shown |-> l.billable]) = view.total
  <2>1. s.billable = SumFunction(Billed(lines))
    <3>1. PICK M : M = [k \in Groups(events) |-> Line(events, k, grid, c)]
      OBVIOUS
    <3>2. QED BY <1>1, <3>1, SummaryLines
  <2>2. QED BY <1>4, <1>6, <2>1 DEF Billed
<1>12. Quantity(shown) = Quantity(events)
  BY <1>5, <1>6
<1>13. PICK file : file = Exported(s, FALSE)
  OBVIOUS
<1>14. file.amounts = FileOf(shown) /\ file.total = view.total
  BY <1>2, <1>3, <1>13 DEF Exported, FileOf
<1>15. file.total = SumFunction([a \in file.amounts |-> a[2]])
  <2>1. SumFunction(FileAmounts(FileOf(shown))) = SumFunction(Billed(shown))
    BY <1>6, <1>9, FileAdds
  <2>2. PICK F : F = FileOf(shown)
    OBVIOUS
  <2>3. SumFunction([a \in F |-> a[2]]) = SumFunction([l \in shown |-> l.billable])
    BY <2>1, <2>2 DEF FileAmounts, Billed
  <2>4. QED BY <1>11, <1>14, <2>2, <2>3
<1>16. ASSUME NEW by \in {"none", "provider", "model", "service"}, MayGroup(by, FALSE)
       PROVE  {a.key : a \in Series(events, grid, c, by, days)} \subseteq {"total"}
  <2>1. by = "none"
    BY <1>16 DEF MayGroup
  <2>2. \A e : SeriesKey(by, e) = "total"
    BY <2>1 DEF SeriesKey
  <2>3. \A a \in Series(events, grid, c, by, days) : a.key = "total"
    BY <2>2 DEF Series
  <2>4. QED BY <2>3
<1>17. ASSUME NEW line \in ByJob(events, grid, c)
       PROVE  SumFunction(RedactedJob(line).other) = SumFunction(line.other)
  <2>1. PICK j \in {e.job : e \in events} : line = JobLine(events, j, grid, c)
    BY DEF ByJob
  <2>2. IsFiniteSet(DOMAIN line.other) /\ \A k \in DOMAIN line.other : line.other[k] \in Int
    BY <2>1, JobMetrics
  <2>3. QED BY <2>2, JobKeepsMetrics
<1>18. QED
  BY <1>1, <1>2, <1>3, <1>9, <1>10, <1>11, <1>12, <1>13, <1>15, <1>16, <1>17 DEF WhiteLabel

-----------------------------------------------------------------------------
(* The credits *)

\* What an entry takes, what it is called and its day.
Taken(spent) == [e \in spent |-> -e.credits]
CreditLabel(e) == IF e.action \in Labelled THEN e.action ELSE "other"
LabelOf(spent) == [e \in spent |-> CreditLabel(e)]

\* Entries of a ledger a month reads.
LedgerRead(rows, days) ==
  IsFiniteSet(rows) /\ IsFiniteSet(days) /\ \A e \in rows : e.credits \in Int /\ e.day \in days

\* The credits of a set of rows, the sign turned.
LEMMA TakenIsTally ==
  ASSUME NEW spent, IsFiniteSet(spent), \A e \in spent : e.credits \in Int, NEW es \in SUBSET spent
  PROVE  /\ -SumFunction([e \in es |-> e.credits]) = Tally(Taken(spent), es)
         /\ Tally(Taken(spent), es) \in Int
<1>1. PICK f, t : f = [e \in es |-> e.credits] /\ t = Taken(spent)
  OBVIOUS
<1>2. IsFiniteSet(es) /\ DOMAIN f = es
  BY <1>1, FS_Subset
<1>3. /\ \A e \in es : f[e] \in Int
      /\ \A e \in es : t[e] = (-1) * f[e]
      /\ \A e \in es : t[e] \in Int
  BY <1>1 DEF Taken
<1>4. SumFunction(f) = Tally(f, es) /\ Tally(f, es) \in Int
  BY <1>2, <1>3, SumFunctionIsTally, TallyType
<1>5. -1 \in Int
  OBVIOUS
<1>6. Tally(t, es) = (-1) * Tally(f, es)
  BY <1>2, <1>3, <1>5, TallyOfMultiples
<1>7. Tally(t, es) \in Int
  BY <1>2, <1>3, TallyType
<1>8. (-1) * Tally(f, es) = -Tally(f, es)
  BY <1>4
<1>9. QED BY <1>1, <1>4, <1>6, <1>7, <1>8

\* The credits of the month are those of its days.
LEMMA SameCreditsHolds ==
  ASSUME NEW rows, NEW days, LedgerRead(rows, days)
  PROVE  SameCredits(rows, days)
<1>1. PICK spent : spent = {e \in rows : e.kind = "consumption"}
  OBVIOUS
<1>2. PICK t, g, K, o : /\ t = Taken(spent) /\ g = LabelOf(spent) /\ K = {g[e] : e \in spent}
                        /\ o = [e \in spent |-> e.day]
  OBVIOUS
<1>3. /\ IsFiniteSet(spent) /\ IsFiniteSet(days) /\ IsFiniteSet(K)
      /\ \A e \in spent : e.credits \in Int
      /\ \A e \in spent : t[e] \in Int
      /\ \A e \in spent : g[e] \in K
      /\ \A e \in spent : o[e] \in days
  <2>1. spent \in SUBSET rows /\ IsFiniteSet(spent)
    BY <1>1, FS_Subset DEF LedgerRead
  <2>2. \A e \in spent : e.credits \in Int /\ e.day \in days
    BY <2>1 DEF LedgerRead
  <2>3. \A e \in spent : t[e] \in Int /\ o[e] \in days
    BY <1>2, <2>2 DEF Taken
  <2>4. IsFiniteSet(K)
    BY <1>2, <2>1, ImageFinite
  <2>5. QED BY <1>2, <2>1, <2>2, <2>3, <2>4 DEF LedgerRead
<1>4. PICK h : h = CreditSeries(rows, days)
  OBVIOUS
<1>5. /\ DOMAIN h = K /\ \A k \in K : DOMAIN h[k] = days
      /\ \A k \in K, d \in days :
           h[k][d] = -SumFunction([e \in {e \in spent : CreditLabel(e) = k /\ e.day = d} |-> e.credits])
  <2>1. \A e \in spent : g[e] = CreditLabel(e)
    BY <1>2 DEF LabelOf
  <2>2. K = {CreditLabel(e) : e \in spent}
    BY <1>2, <2>1
  <2>3. h = [k \in K |->
              [d \in days |->
                 -SumFunction([e \in {e \in spent : CreditLabel(e) = k /\ e.day = d} |-> e.credits])]]
    BY <1>1, <1>4, <2>2 DEF CreditSeries, CreditLabel
  <2>4. QED BY <2>3
<1>6. ASSUME NEW k \in K
      PROVE  SumFunction(h[k]) = Tally(t, Part(spent, g, k))
  <2>1. PICK P, u : P = Part(spent, g, k) /\ u = h[k]
    OBVIOUS
  <2>2. P \in SUBSET spent /\ IsFiniteSet(P)
    BY <1>3, <2>1, FS_Subset DEF Part
  <2>3. (\A e \in P : t[e] \in Int) /\ \A e \in P : o[e] \in days
    BY <1>3, <2>2
  <2>4. ASSUME NEW d \in days PROVE u[d] = Tally(t, Part(P, o, d))
    <3>1. PICK es : es = {e \in spent : CreditLabel(e) = k /\ e.day = d}
      OBVIOUS
    <3>2. es = Part(P, o, d) /\ es \in SUBSET spent
      BY <1>2, <2>1, <3>1 DEF Part, LabelOf
    <3>3. -SumFunction([e \in es |-> e.credits]) = Tally(t, es)
      BY <1>2, <1>3, <3>2, TakenIsTally
    <3>4. u[d] = -SumFunction([e \in es |-> e.credits])
      BY <1>5, <2>1, <3>1
    <3>5. QED BY <3>2, <3>3, <3>4
  <2>5. Tally(t, P) = Tally(u, days) /\ \A d \in days : u[d] \in Int
    BY <1>3, <2>2, <2>3, <2>4, TallyByGroups
  <2>6. DOMAIN u = days
    BY <1>5, <2>1
  <2>7. SumFunction(u) = Tally(u, days)
    BY <1>3, <2>5, <2>6, SumFunctionIsTally
  <2>8. QED BY <2>1, <2>5, <2>7
<1>7. PICK v : v = [k \in DOMAIN h |-> SumFunction(h[k])]
  OBVIOUS
<1>9. DOMAIN v = K /\ \A k \in K : v[k] = Tally(t, Part(spent, g, k))
  BY <1>5, <1>6, <1>7
<1>10. Tally(t, spent) = Tally(v, K) /\ \A k \in K : v[k] \in Int
  BY <1>3, <1>9, TallyByGroups
<1>11. SumFunction(v) = Tally(v, K)
  BY <1>3, <1>9, <1>10, SumFunctionIsTally
<1>12. CreditMonth(rows).consumed = -SumFunction([e \in spent |-> e.credits])
  BY <1>1 DEF CreditMonth
<1>13. -SumFunction([e \in spent |-> e.credits]) = Tally(t, spent)
  <2>1. spent \in SUBSET spent
    OBVIOUS
  <2>2. QED BY <1>2, <1>3, <2>1, TakenIsTally
<1>14. QED BY <1>4, <1>7, <1>10, <1>11, <1>12, <1>13 DEF SameCredits

-----------------------------------------------------------------------------
(* The dashboard and the feed *)

\* Jobs and items the dashboard and the feed read: each item has a job of its type.
FeedRead(jobs, items) ==
  /\ IsFiniteSet(jobs) /\ IsFiniteSet(items)
  /\ \A j, k \in jobs : j.id = k.id => j = k
  /\ \A j \in jobs : j.type \in {"enrichment", "import"} /\ j.created \in Int
  /\ \A i \in items : i.type \in {"enrichment", "import"}
  /\ \A i \in items : \E j \in jobs : j.id = i.job /\ j.type = i.type

\* The counts of two parts that have nothing in common and make up the whole.
LEMMA TwoParts ==
  ASSUME NEW S, IsFiniteSet(S), NEW A, NEW B, S = A \cup B, A \cap B = {}
  PROVE  Cardinality(S) = Cardinality(A) + Cardinality(B)
<1>1. A \in SUBSET S /\ B \in SUBSET S
  OBVIOUS
<1>2. IsFiniteSet(A) /\ IsFiniteSet(B)
  BY <1>1, FS_Subset
<1>3. Cardinality(A \cup B) = Cardinality(A) + Cardinality(B) - Cardinality(A \cap B)
  BY <1>2, FS_Union
<1>4. Cardinality(A) \in Nat /\ Cardinality(B) \in Nat /\ Cardinality(A \cap B) = 0
  BY <1>2, FS_CardinalityType, FS_EmptySet
<1>5. QED BY <1>3, <1>4

\* A finite set counts nothing when its image does.
LEMMA NoneOfImage ==
  ASSUME NEW S, IsFiniteSet(S), NEW g, NEW T, T = {g[x] : x \in S}
  PROVE  Cardinality(T) = 0 <=> Cardinality(S) = 0
<1>1. IsFiniteSet(T)
  BY ImageFinite
<1>2. (Cardinality(T) = 0 <=> T = {}) /\ (Cardinality(S) = 0 <=> S = {})
  BY <1>1, FS_EmptySet
<1>3. T = {} <=> S = {}
  OBVIOUS
<1>4. QED BY <1>2, <1>3

\* A line of the feed.
FeedLine(items, j) ==
  LET mine == {i \in items : i.job = j.id /\ i.type = j.type}
  IN  [job |-> j.id, status |-> j.status, total |-> Cardinality(mine),
       failed |-> Cardinality({i \in mine : i.status = "failed"})]

\* The items of one status, their jobs, the items of enrichments, and the jobs of a
\* type that run.
InStatus(S, which) == {i \in S : i.status = which}
JobsIn(S) == {i.job : i \in S}
Enriched(items) == {i \in items : i.type = "enrichment"}
RunningJobs(jobs, type) == {j \in jobs : j.type = type /\ j.status \in {"pending", "processing"}}

\* What the dashboard counts.
LEMMA BoardCounts ==
  ASSUME NEW jobs, NEW items, NEW minutes, NEW board, board = Dashboard(jobs, items, minutes),
         NEW E, E = Enriched(items), NEW M, M = items \ E
  PROVE  /\ board.failed = Cardinality(InStatus(E, "failed")) + Cardinality(InStatus(M, "failed"))
         /\ board.ready = Cardinality(InStatus(E, "ready_for_review"))
         /\ board.toTransfer = Cardinality(InStatus(M, "ready_for_review"))
         /\ board.jobsToReview = Cardinality(JobsIn(InStatus(E, "ready_for_review")))
         /\ board.importsToReview = Cardinality(JobsIn(InStatus(M, "ready_for_review")))
         /\ board.running = Cardinality(RunningJobs(jobs, "enrichment"))
         /\ board.importing = Cardinality(RunningJobs(jobs, "import"))
BY DEF Dashboard, InStatus, JobsIn, Enriched, RunningJobs

\* What the lines of the feed say.
TotalsOf(feed) == [a \in feed |-> a.total]
FailedOf(feed) == [a \in feed |-> a.failed]

\* The feed counts every item once, and every item that failed.
LEMMA FeedAdds ==
  ASSUME NEW jobs, NEW items, FeedRead(jobs, items), NEW feed, NEW L,
         L = [j \in jobs |-> FeedLine(items, j)], feed = {L[j] : j \in jobs}
  PROVE  /\ Lines(feed, L, jobs)
         /\ SumFunction(TotalsOf(feed)) = Cardinality(items)
         /\ SumFunction(FailedOf(feed)) = Cardinality(InStatus(items, "failed"))
<1>1. \A j \in jobs : L[j] = FeedLine(items, j)
  OBVIOUS
<1>2. ASSUME NEW j \in jobs, NEW mine, mine = {i \in items : i.job = j.id /\ i.type = j.type}
      PROVE  /\ L[j].job = j.id /\ L[j].total = Cardinality(mine)
             /\ L[j].failed = Cardinality(InStatus(mine, "failed"))
  BY <1>1, <1>2 DEF FeedLine, InStatus
<1>3. \A j \in jobs : L[j].job = j.id
  BY <1>2
<1>4. Lines(feed, L, jobs)
  BY <1>3 DEF Lines, FeedRead
<1>5. PICK g : g = [i \in items |-> CHOOSE j \in jobs : j.id = i.job /\ j.type = i.type]
  OBVIOUS
<1>6. ASSUME NEW i \in items PROVE g[i] \in jobs /\ g[i].id = i.job /\ g[i].type = i.type
  <2>1. \E j \in jobs : j.id = i.job /\ j.type = i.type
    BY DEF FeedRead
  <2>2. QED BY <1>5, <2>1
<1>7. ASSUME NEW j \in jobs, NEW E \in SUBSET items
      PROVE  Part(E, g, j) = {i \in E : i.job = j.id /\ i.type = j.type}
  <2>1. ASSUME NEW i \in E PROVE g[i] = j <=> i.job = j.id /\ i.type = j.type
    <3>1. g[i] \in jobs /\ g[i].id = i.job /\ g[i].type = i.type
      BY <1>6
    <3>2. g[i].id = j.id => g[i] = j
      BY <3>1 DEF FeedRead
    <3>3. QED BY <3>1, <3>2
  <2>2. QED BY <2>1 DEF Part
<1>8. PICK f : f = [i \in items |-> 1]
  OBVIOUS
<1>9. IsFiniteSet(items) /\ IsFiniteSet(jobs)
  BY DEF FeedRead
<1>10. ASSUME NEW E \in SUBSET items, NEW v, DOMAIN v = feed,
              \A j \in jobs : v[L[j]] = Cardinality(Part(E, g, j))
       PROVE  SumFunction(v) = Cardinality(E)
  <2>1. /\ \A i \in E : f[i] = 1
        /\ \A i \in E : f[i] \in Int
        /\ \A i \in E : g[i] \in jobs
    BY <1>6, <1>8
  <2>2. IsFiniteSet(E)
    BY <1>9, FS_Subset
  <2>3. ASSUME NEW j \in jobs PROVE v[L[j]] = Tally(f, Part(E, g, j))
    <3>1. PICK P : P = Part(E, g, j)
      OBVIOUS
    <3>2. P \in SUBSET E /\ IsFiniteSet(P)
      BY <2>2, <3>1, FS_Subset DEF Part
    <3>3. \A i \in P : f[i] = 1
      BY <2>1, <3>2
    <3>4. Tally(f, P) = Cardinality(P)
      BY <3>2, <3>3, TallyOfOnes
    <3>5. QED BY <1>10, <3>1, <3>4
  <2>4. SumFunction(v) = Tally(f, E)
    BY <1>4, <1>9, <1>10, <2>1, <2>2, <2>3, SumByLines
  <2>5. Tally(f, E) = Cardinality(E)
    BY <2>1, <2>2, TallyOfOnes
  <2>6. QED BY <2>4, <2>5
<1>11. PICK u, v, F : u = TotalsOf(feed) /\ v = FailedOf(feed) /\ F = InStatus(items, "failed")
  OBVIOUS
<1>12. /\ DOMAIN u = feed /\ DOMAIN v = feed
       /\ \A j \in jobs : u[L[j]] = L[j].total /\ v[L[j]] = L[j].failed
  BY <1>11 DEF TotalsOf, FailedOf
<1>13. items \in SUBSET items /\ F \in SUBSET items
  BY <1>11 DEF InStatus
<1>14. ASSUME NEW j \in jobs
       PROVE  u[L[j]] = Cardinality(Part(items, g, j)) /\ v[L[j]] = Cardinality(Part(F, g, j))
  <2>1. PICK mine : mine = {i \in items : i.job = j.id /\ i.type = j.type}
    OBVIOUS
  <2>2. Part(items, g, j) = mine
    BY <1>7, <1>13, <2>1
  <2>3. Part(F, g, j) = {i \in F : i.job = j.id /\ i.type = j.type}
    BY <1>7, <1>13
  <2>4. Part(F, g, j) = InStatus(mine, "failed")
    BY <1>11, <2>1, <2>3 DEF InStatus
  <2>5. QED BY <1>2, <1>12, <2>1, <2>2, <2>4
<1>15. SumFunction(u) = Cardinality(items)
  BY <1>10, <1>12, <1>13, <1>14
<1>16. SumFunction(v) = Cardinality(F)
  BY <1>10, <1>12, <1>13, <1>14
<1>17. QED BY <1>4, <1>11, <1>15, <1>16

\* The items of some jobs, which is what the feed of these jobs tells of.
ItemsOfJobs(last, items) == {i \in items : \E j \in last : j.id = i.job /\ j.type = i.type}

\* The jobs that run.
Unsettled(jobs) == {j \in jobs : j.status \in {"pending", "processing"}}
UnsettledLines(feed) == {a \in feed : a.status \in {"pending", "processing"}}

\* The feed of some jobs counts their items, those that failed, and the jobs that run.
LEMMA FeedOfSome ==
  ASSUME NEW jobs, NEW items, FeedRead(jobs, items), NEW last \in SUBSET jobs,
         NEW some, some = ItemsOfJobs(last, items), NEW feed, feed = Activity(last, items)
  PROVE  /\ SumFunction(TotalsOf(feed)) = Cardinality(some)
         /\ SumFunction(FailedOf(feed)) = Cardinality(InStatus(some, "failed"))
         /\ Cardinality(UnsettledLines(feed)) = Cardinality(Unsettled(last))
<1>1. some \in SUBSET items
  BY DEF ItemsOfJobs
<1>2. IsFiniteSet(last) /\ IsFiniteSet(some)
  BY <1>1, FS_Subset DEF FeedRead
<1>3. FeedRead(last, some)
  <2>1. \A j \in last : j \in jobs
    OBVIOUS
  <2>2. \A i \in some : \E j \in last : j.id = i.job /\ j.type = i.type
    BY DEF ItemsOfJobs
  <2>3. QED BY <1>1, <1>2, <2>1, <2>2 DEF FeedRead
<1>4. PICK L : L = [j \in last |-> FeedLine(some, j)]
  OBVIOUS
<1>5. ASSUME NEW j \in last PROVE L[j] = FeedLine(items, j)
  <2>1. {i \in some : i.job = j.id /\ i.type = j.type} = {i \in items : i.job = j.id /\ i.type = j.type}
    BY DEF ItemsOfJobs
  <2>2. FeedLine(some, j) = FeedLine(items, j)
    BY <2>1 DEF FeedLine
  <2>3. QED BY <1>4, <2>2
<1>6. feed = {L[j] : j \in last}
  <2>1. feed = {FeedLine(items, j) : j \in last}
    BY DEF Activity, FeedLine
  <2>2. QED BY <1>5, <2>1
<1>7. /\ Lines(feed, L, last)
      /\ SumFunction(TotalsOf(feed)) = Cardinality(some)
      /\ SumFunction(FailedOf(feed)) = Cardinality(InStatus(some, "failed"))
  BY <1>3, <1>4, <1>6, FeedAdds
<1>8. Cardinality(UnsettledLines(feed)) = Cardinality(Unsettled(last))
  <2>1. PICK R, U : R = Unsettled(last) /\ U = UnsettledLines(feed)
    OBVIOUS
  <2>2. \A j \in last : L[j].status = j.status
    BY <1>4 DEF FeedLine
  <2>3. Lines(U, L, R)
    BY <1>7, <2>1, <2>2 DEF Lines, Unsettled, UnsettledLines
  <2>4. R \in SUBSET last
    BY <2>1 DEF Unsettled
  <2>5. IsFiniteSet(R)
    BY <1>2, <2>4, FS_Subset
  <2>6. PICK f, h : f = [j \in R |-> 0] /\ h = [a \in U |-> 0]
    OBVIOUS
  <2>7. (\A j \in R : f[j] \in Int) /\ \A j \in R : h[L[j]] = f[j]
    BY <2>3, <2>6 DEF Lines
  <2>8. QED BY <2>1, <2>3, <2>5, <2>7, TallyRenamed
<1>9. QED BY <1>7, <1>8

\* The feed shows no more than there is, and all of it when it shows every job.
LEMMA FeedIsBounded ==
  ASSUME NEW jobs, NEW items, FeedRead(jobs, items), NEW last \in Latest(jobs),
         NEW feed, feed = Activity(last, items)
  PROVE  /\ SumFunction(FailedOf(feed)) <= Cardinality(InStatus(items, "failed"))
         /\ SumFunction(TotalsOf(feed)) <= Cardinality(items)
         /\ Cardinality(UnsettledLines(feed)) <= Cardinality(Unsettled(jobs))
         /\ Cardinality(jobs) <= FeedLimit =>
              /\ SumFunction(FailedOf(feed)) = Cardinality(InStatus(items, "failed"))
              /\ SumFunction(TotalsOf(feed)) = Cardinality(items)
              /\ Cardinality(UnsettledLines(feed)) = Cardinality(Unsettled(jobs))
<1>1. /\ last \in SUBSET jobs
      /\ Cardinality(last) = IF Cardinality(jobs) < FeedLimit THEN Cardinality(jobs) ELSE FeedLimit
  BY DEF Latest
<1>2. PICK some, F, G, R, U : /\ some = ItemsOfJobs(last, items)
                              /\ F = InStatus(items, "failed") /\ G = InStatus(some, "failed")
                              /\ R = Unsettled(last) /\ U = Unsettled(jobs)
  OBVIOUS
<1>3. /\ SumFunction(TotalsOf(feed)) = Cardinality(some)
      /\ SumFunction(FailedOf(feed)) = Cardinality(G)
      /\ Cardinality(UnsettledLines(feed)) = Cardinality(R)
  BY <1>1, <1>2, FeedOfSome
<1>4. IsFiniteSet(jobs) /\ IsFiniteSet(items)
  BY DEF FeedRead
<1>5. some \in SUBSET items /\ G \in SUBSET F /\ F \in SUBSET items /\ R \in SUBSET U /\ U \in SUBSET jobs
  BY <1>1, <1>2 DEF ItemsOfJobs, InStatus, Unsettled
<1>6. IsFiniteSet(F) /\ IsFiniteSet(U)
  BY <1>4, <1>5, FS_Subset
<1>7. /\ Cardinality(some) <= Cardinality(items) /\ Cardinality(G) <= Cardinality(F)
      /\ Cardinality(R) <= Cardinality(U)
  BY <1>4, <1>5, <1>6, FS_Subset
<1>8. ASSUME Cardinality(jobs) <= FeedLimit PROVE some = items /\ G = F /\ R = U
  <2>1. Cardinality(last) = Cardinality(jobs)
    <3>1. Cardinality(jobs) \in Nat /\ FeedLimit \in Nat
      BY <1>4, ReportsAssumption, FS_CardinalityType DEF ReportsAssumption
    <3>2. QED BY <1>1, <1>8, <3>1
  <2>2. last = jobs
    BY <1>1, <1>4, <2>1, FS_Subset
  <2>3. some = items
    BY <1>2, <2>2 DEF ItemsOfJobs, FeedRead
  <2>4. QED BY <1>2, <2>2, <2>3
<1>9. QED BY <1>2, <1>3, <1>7, <1>8

\* Every job was created in a month of the calendar.
MonthsCover(jobs) == \A j \in jobs : \E m \in Calendar : j.created \in m
MonthOf(j) == CHOOSE m \in Calendar : j.created \in m

\* A job is created in one month.
LEMMA JobHasOneMonth ==
  ASSUME NEW jobs, MonthsCover(jobs), NEW j \in jobs
  PROVE  MonthOf(j) \in Calendar /\ \A m \in Calendar : MonthOf(j) = m <=> j.created \in m
<1>1. \E m \in Calendar : j.created \in m
  BY DEF MonthsCover
<1>2. PICK n : n = MonthOf(j)
  OBVIOUS
<1>3. n \in Calendar /\ j.created \in n
  BY <1>1, <1>2 DEF MonthOf
<1>4. \A m \in Calendar : j.created \in m => m = n
  BY <1>3, ReportsAssumption DEF ReportsAssumption
<1>5. QED BY <1>2, <1>3, <1>4

\* What is counted month by month comes to all of it.
LEMMA SumOverMonths ==
  ASSUME NEW S, IsFiniteSet(S), NEW g, \A x \in S : g[x] \in Calendar,
         NEW v, DOMAIN v = Calendar, \A m \in Calendar : v[m] = Cardinality(Part(S, g, m))
  PROVE  SumFunction(v) = Cardinality(S)
<1>1. PICK f : f = [x \in S |-> 1]
  OBVIOUS
<1>2. (\A x \in S : f[x] = 1) /\ \A x \in S : f[x] \in Int
  BY <1>1
<1>3. IsFiniteSet(Calendar)
  BY ReportsAssumption DEF ReportsAssumption
<1>4. ASSUME NEW m \in Calendar PROVE v[m] = Tally(f, Part(S, g, m))
  <2>1. PICK P : P = Part(S, g, m)
    OBVIOUS
  <2>2. IsFiniteSet(P) /\ \A x \in P : f[x] = 1
    BY <1>2, <2>1, FS_Subset DEF Part
  <2>3. Tally(f, P) = Cardinality(P)
    BY <2>2, TallyOfOnes
  <2>4. QED BY <2>1, <2>3
<1>5. Tally(f, S) = Tally(v, Calendar) /\ \A m \in Calendar : v[m] \in Int
  BY <1>2, <1>3, <1>4, TallyByGroups
<1>6. SumFunction(v) = Tally(v, Calendar)
  BY <1>3, <1>5, SumFunctionIsTally
<1>7. Tally(f, S) = Cardinality(S)
  BY <1>2, TallyOfOnes
<1>8. QED BY <1>5, <1>6, <1>7

\* What the operator reads of a month: the items that failed, and the jobs.
FailedIn(jobs, items, m) ==
  {i \in items : i.status = "failed" /\ \E j \in {j \in jobs : j.created \in m} : j.id = i.job}
CreatedIn(jobs, m, type) == {j \in {j \in jobs : j.created \in m} : j.type = type}

\* Over all months the operator reads every item that failed and every job, once.
LEMMA MonthsAdd ==
  ASSUME NEW jobs, NEW items, FeedRead(jobs, items), MonthsCover(jobs),
         NEW v, v = [m \in Calendar |-> Cardinality(FailedIn(jobs, items, m))],
         NEW u, u = [m \in Calendar |-> Cardinality(CreatedIn(jobs, m, "enrichment"))
                                          + Cardinality(CreatedIn(jobs, m, "import"))]
  PROVE  /\ SumFunction(v) = Cardinality(InStatus(items, "failed"))
         /\ SumFunction(u) = Cardinality(jobs)
<1>1. IsFiniteSet(jobs) /\ IsFiniteSet(items)
  BY DEF FeedRead
<1>2. SumFunction(u) = Cardinality(jobs)
  <2>1. PICK g : g = [j \in jobs |-> MonthOf(j)]
    OBVIOUS
  <2>2. \A j \in jobs : g[j] \in Calendar /\ \A m \in Calendar : g[j] = m <=> j.created \in m
    BY <2>1, JobHasOneMonth
  <2>3. ASSUME NEW m \in Calendar PROVE u[m] = Cardinality(Part(jobs, g, m))
    <3>1. PICK P, A, B : /\ P = Part(jobs, g, m) /\ A = CreatedIn(jobs, m, "enrichment")
                         /\ B = CreatedIn(jobs, m, "import")
      OBVIOUS
    <3>2. P = {j \in jobs : j.created \in m}
      BY <2>2, <3>1 DEF Part
    <3>3. \A j \in jobs : j.type \in {"enrichment", "import"}
      BY DEF FeedRead
    <3>4. P = A \cup B /\ A \cap B = {} /\ P \in SUBSET jobs
      BY <3>1, <3>2, <3>3 DEF CreatedIn
    <3>5. IsFiniteSet(P)
      BY <1>1, <3>4, FS_Subset
    <3>6. Cardinality(P) = Cardinality(A) + Cardinality(B)
      BY <3>4, <3>5, TwoParts
    <3>7. QED BY <3>1, <3>6
  <2>4. DOMAIN u = Calendar
    OBVIOUS
  <2>5. QED BY <1>1, <2>2, <2>3, <2>4, SumOverMonths
<1>3. SumFunction(v) = Cardinality(InStatus(items, "failed"))
  <2>1. PICK F, of, g : /\ F = InStatus(items, "failed")
                        /\ of = [i \in items |-> CHOOSE j \in jobs : j.id = i.job]
                        /\ g = [i \in items |-> MonthOf(of[i])]
    OBVIOUS
  <2>2. F \in SUBSET items /\ IsFiniteSet(F)
    BY <1>1, <2>1, FS_Subset DEF InStatus
  <2>3. ASSUME NEW i \in items PROVE of[i] \in jobs /\ of[i].id = i.job
    <3>1. \E j \in jobs : j.id = i.job
      BY DEF FeedRead
    <3>2. QED BY <2>1, <3>1
  <2>4. \A i \in items : g[i] \in Calendar /\ \A m \in Calendar : g[i] = m <=> of[i].created \in m
    BY <2>1, <2>3, JobHasOneMonth
  <2>5. ASSUME NEW m \in Calendar PROVE v[m] = Cardinality(Part(F, g, m))
    <3>1. \A i \in items, j \in jobs : j.id = i.job => j = of[i]
      BY <2>3 DEF FeedRead
    <3>2. ASSUME NEW i \in items
          PROVE  (\E j \in {j \in jobs : j.created \in m} : j.id = i.job) <=> g[i] = m
      BY <2>3, <2>4, <3>1
    <3>3. FailedIn(jobs, items, m) = Part(F, g, m)
      BY <2>1, <3>2 DEF FailedIn, Part, InStatus
    <3>4. QED BY <3>3
  <2>6. DOMAIN v = Calendar /\ \A i \in F : g[i] \in Calendar
    BY <2>2, <2>4
  <2>7. SumFunction(v) = Cardinality(F)
    BY <2>2, <2>5, <2>6, SumOverMonths
  <2>8. QED BY <2>1, <2>7
<1>4. QED BY <1>2, <1>3

\* The counters of the dashboard are those of the feed, up to its limit, and of the months.
LEMMA SameCountersHolds ==
  ASSUME NEW jobs, NEW items, NEW minutes, FeedRead(jobs, items), MonthsCover(jobs)
  PROVE  SameCounters(jobs, items, minutes)
<1>1. PICK E, M : E = Enriched(items) /\ M = items \ E
  OBVIOUS
<1>2. PICK board : board = Dashboard(jobs, items, minutes)
  OBVIOUS
<1>3. /\ board.ready = Cardinality(InStatus(E, "ready_for_review"))
      /\ board.toTransfer = Cardinality(InStatus(M, "ready_for_review"))
      /\ board.jobsToReview = Cardinality(JobsIn(InStatus(E, "ready_for_review")))
      /\ board.importsToReview = Cardinality(JobsIn(InStatus(M, "ready_for_review")))
  BY <1>1, <1>2, BoardCounts
<1>4. /\ board.running = Cardinality(RunningJobs(jobs, "enrichment"))
      /\ board.importing = Cardinality(RunningJobs(jobs, "import"))
  BY <1>1, <1>2, BoardCounts
<1>5. IsFiniteSet(jobs) /\ IsFiniteSet(items) /\ IsFiniteSet(E) /\ IsFiniteSet(M)
  BY <1>1, FS_Subset, FS_Difference DEF FeedRead, Enriched
<1>6. board.failed = Cardinality(InStatus(items, "failed"))
  <2>1. PICK A, B, S : /\ A = InStatus(E, "failed") /\ B = InStatus(M, "failed")
                       /\ S = InStatus(items, "failed")
    OBVIOUS
  <2>2. S = A \cup B /\ A \cap B = {} /\ S \in SUBSET items
    BY <1>1, <2>1 DEF InStatus, Enriched
  <2>3. IsFiniteSet(S)
    BY <1>5, <2>2, FS_Subset
  <2>4. Cardinality(S) = Cardinality(A) + Cardinality(B)
    BY <2>2, <2>3, TwoParts
  <2>5. board.failed = Cardinality(A) + Cardinality(B)
    BY <1>1, <1>2, <2>1, BoardCounts
  <2>6. QED BY <2>1, <2>4, <2>5
<1>7. board.running + board.importing = Cardinality(Unsettled(jobs))
  <2>1. PICK R, A, B : /\ R = Unsettled(jobs)
                       /\ A = RunningJobs(jobs, "enrichment") /\ B = RunningJobs(jobs, "import")
    OBVIOUS
  <2>2. \A j \in jobs : j.type \in {"enrichment", "import"}
    BY DEF FeedRead
  <2>3. R = A \cup B /\ A \cap B = {} /\ R \in SUBSET jobs
    BY <2>1, <2>2 DEF RunningJobs, Unsettled
  <2>4. IsFiniteSet(R)
    BY <1>5, <2>3, FS_Subset
  <2>5. QED BY <1>4, <2>1, <2>3, <2>4, TwoParts
<1>8. ASSUME NEW last \in Latest(jobs)
      PROVE  LET feed    == Activity(last, items)
                 failed  == SumFunction([a \in feed |-> a.failed])
                 total   == SumFunction([a \in feed |-> a.total])
                 running == Cardinality({a \in feed : a.status \in {"pending", "processing"}})
             IN  /\ failed <= board.failed /\ total <= Cardinality(items)
                 /\ running <= board.running + board.importing
                 /\ Cardinality(jobs) <= FeedLimit =>
                      failed = board.failed /\ total = Cardinality(items)
                        /\ running = board.running + board.importing
  <2>1. PICK feed : feed = Activity(last, items)
    OBVIOUS
  <2>2. QED BY <1>6, <1>7, <2>1, FeedIsBounded DEF FailedOf, TotalsOf, UnsettledLines
<1>9. PICK s : s = Summary({}, <<>>, 10)
  OBVIOUS
<1>10. \A m : LET line == OperatorView(s, jobs, items, 0, m) IN
         /\ line.failed = Cardinality(FailedIn(jobs, items, m))
         /\ line.jobs = Cardinality(CreatedIn(jobs, m, "enrichment"))
         /\ line.imports = Cardinality(CreatedIn(jobs, m, "import"))
  BY DEF OperatorView, FailedIn, CreatedIn
<1>11. PICK v, u : /\ v = [m \in Calendar |-> OperatorView(s, jobs, items, 0, m).failed]
                   /\ u = [m \in Calendar |-> OperatorView(s, jobs, items, 0, m).jobs
                                               + OperatorView(s, jobs, items, 0, m).imports]
  OBVIOUS
<1>12. SumFunction(v) = board.failed /\ SumFunction(u) = Cardinality(jobs)
  <2>1. v = [m \in Calendar |-> Cardinality(FailedIn(jobs, items, m))]
    BY <1>10, <1>11
  <2>2. u = [m \in Calendar |-> Cardinality(CreatedIn(jobs, m, "enrichment"))
                                  + Cardinality(CreatedIn(jobs, m, "import"))]
    BY <1>10, <1>11
  <2>3. QED BY <1>6, <2>1, <2>2, MonthsAdd
<1>13. /\ board.importsToReview = 0 <=> board.toTransfer = 0
       /\ board.jobsToReview = 0 <=> board.ready = 0
  <2>1. PICK A, B : A = InStatus(E, "ready_for_review") /\ B = InStatus(M, "ready_for_review")
    OBVIOUS
  <2>2. IsFiniteSet(A) /\ IsFiniteSet(B)
    BY <1>5, <2>1, FS_Subset DEF InStatus
  <2>3. /\ board.ready = Cardinality(A) /\ board.toTransfer = Cardinality(B)
        /\ board.jobsToReview = Cardinality(JobsIn(A))
        /\ board.importsToReview = Cardinality(JobsIn(B))
    BY <1>3, <2>1
  <2>4. ASSUME NEW S, IsFiniteSet(S)
        PROVE  Cardinality(JobsIn(S)) = 0 <=> Cardinality(S) = 0
    <3>1. PICK g, T : g = [i \in S |-> i.job] /\ T = JobsIn(S)
      OBVIOUS
    <3>2. T = {g[i] : i \in S}
      BY <3>1 DEF JobsIn
    <3>3. QED BY <2>4, <3>1, <3>2, NoneOfImage
  <2>5. QED BY <2>2, <2>3, <2>4
<1>14. QED BY <1>2, <1>8, <1>9, <1>11, <1>12, <1>13 DEF SameCounters

-----------------------------------------------------------------------------
(* The reports of a month *)

\* What the reports read is a month, a ledger and a feed that can be read.
ReportsRead ==
  /\ EventsRead(metered) /\ GridsRead(overrides, prices) /\ rate \in Nat
  /\ LedgerRead(booked, Days)
  /\ FeedRead(launched, sheets) /\ MonthsCover(launched)

LEMMA ReportsReadInit == ReportsInit => ReportsRead
<1> SUFFICES ASSUME ReportsInit PROVE ReportsRead
  OBVIOUS
<1>1. IsFiniteSet({}) /\ IsFiniteSet(Days) /\ rate \in Nat
  BY ReportsAssumption, FS_EmptySet DEF ReportsAssumption, ReportsInit
<1>2. metered = {} /\ booked = {} /\ launched = {} /\ sheets = {}
  BY DEF ReportsInit
<1>3. EventsRead(metered)
  BY <1>1, <1>2 DEF EventsRead
<1>4. GridsRead(overrides, prices)
  BY DEF ReportsInit, GridsRead
<1>5. LedgerRead(booked, Days)
  BY <1>1, <1>2 DEF LedgerRead
<1>6. FeedRead(launched, sheets) /\ MonthsCover(launched)
  BY <1>1, <1>2 DEF FeedRead, MonthsCover
<1>7. QED BY <1>1, <1>3, <1>4, <1>5, <1>6 DEF ReportsRead

LEMMA ReportsReadStep == ReportsRead /\ [ReportsNext]_reportsVars => ReportsRead'
<1> SUFFICES ASSUME ReportsRead, [ReportsNext]_reportsVars PROVE ReportsRead'
  OBVIOUS
<1>1. CASE UNCHANGED reportsVars
  <2>1. UNCHANGED <<metered, prices, overrides, rate, booked, launched, sheets>>
    BY <1>1 DEF reportsVars
  <2>2. QED BY <2>1 DEF ReportsRead
<1>2. ASSUME NEW e \in Events, Meter(e) PROVE ReportsRead'
  <2>1. metered' = metered \cup {e} /\ UNCHANGED <<prices, overrides, rate, booked, launched, sheets>>
    BY <1>2 DEF Meter
  <2>2. PICK S : S = metered \cup {e}
    OBVIOUS
  <2>3. EventsRead(S)
    BY <2>2, FS_AddElement DEF ReportsRead, EventsRead
  <2>4. QED BY <2>1, <2>2, <2>3 DEF ReportsRead
<1>3. ASSUME NEW g \in Grids, NEW mine \in Exceptions, NEW k \in Rates, Reprice(g, mine, k)
      PROVE  ReportsRead'
  <2>1. /\ prices' = g /\ overrides' = mine /\ rate' = k
        /\ UNCHANGED <<metered, booked, launched, sheets>>
    BY <1>3 DEF Reprice
  <2>2. GridsRead(mine, g) /\ k \in Nat
    BY ReportsAssumption DEF ReportsAssumption, GridsRead
  <2>3. QED BY <2>1, <2>2 DEF ReportsRead
<1>4. ASSUME NEW x \in Movements, Book(x) PROVE ReportsRead'
  <2>1. booked' = booked \cup {x} /\ UNCHANGED <<metered, prices, overrides, rate, launched, sheets>>
    BY <1>4 DEF Book
  <2>2. PICK S : S = booked \cup {x}
    OBVIOUS
  <2>3. IsFiniteSet(S)
    BY <2>2, FS_AddElement DEF ReportsRead, LedgerRead
  <2>4. x.credits \in Int /\ x.day \in Days
    BY ReportsAssumption DEF ReportsAssumption
  <2>5. LedgerRead(S, Days)
    BY <2>2, <2>3, <2>4 DEF ReportsRead, LedgerRead
  <2>6. QED BY <2>1, <2>2, <2>5 DEF ReportsRead
<1>5. ASSUME NEW j \in Jobs, OpenJob(j) PROVE ReportsRead'
  <2>1. /\ launched' = launched \cup {j} /\ \A k \in launched : k.id # j.id
        /\ UNCHANGED <<metered, prices, overrides, rate, booked, sheets>>
    BY <1>5 DEF OpenJob
  <2>2. PICK S : S = launched \cup {j}
    OBVIOUS
  <2>3. IsFiniteSet(S)
    BY <2>2, FS_AddElement DEF ReportsRead, FeedRead
  <2>4. /\ j.type \in {"enrichment", "import"} /\ j.created \in Int
        /\ \E m \in Calendar : j.created \in m
    BY ReportsAssumption DEF ReportsAssumption
  <2>5. \A i, k \in S : i.id = k.id => i = k
    BY <2>1, <2>2 DEF ReportsRead, FeedRead
  <2>6. \A k \in S : k.type \in {"enrichment", "import"} /\ k.created \in Int
    BY <2>2, <2>4 DEF ReportsRead, FeedRead
  <2>7. \A i \in sheets : \E k \in S : k.id = i.job /\ k.type = i.type
    BY <2>2 DEF ReportsRead, FeedRead
  <2>8. FeedRead(S, sheets)
    BY <2>3, <2>5, <2>6, <2>7 DEF ReportsRead, FeedRead
  <2>9. MonthsCover(S)
    BY <2>2, <2>4 DEF ReportsRead, MonthsCover
  <2>10. QED BY <2>1, <2>2, <2>8, <2>9 DEF ReportsRead
<1>6. ASSUME NEW i \in Items, Stage(i) PROVE ReportsRead'
  <2>1. /\ sheets' = sheets \cup {i} /\ UNCHANGED <<metered, prices, overrides, rate, booked, launched>>
        /\ \E j \in launched : j.id = i.job /\ j.type = i.type
    BY <1>6 DEF Stage
  <2>2. PICK S : S = sheets \cup {i}
    OBVIOUS
  <2>3. IsFiniteSet(S)
    BY <2>2, FS_AddElement DEF ReportsRead, FeedRead
  <2>4. i.type \in {"enrichment", "import"}
    BY ReportsAssumption DEF ReportsAssumption
  <2>5. FeedRead(launched, S)
    BY <2>1, <2>2, <2>3, <2>4 DEF ReportsRead, FeedRead
  <2>6. QED BY <2>1, <2>2, <2>5 DEF ReportsRead
<1>7. QED BY <1>1, <1>2, <1>3, <1>4, <1>5, <1>6 DEF ReportsNext

\* The reports of a month agree: the summary, the cost of the jobs and the curves are
\* the same money but for what each line rounds, the client's view loses none of it,
\* the operator's list of metrics leaves out nothing of it, the credits of the days are
\* those of the month, and the counters of the dashboard, which know no month, are
\* those of the operator's months taken together and never less than those of the feed,
\* which are the same as long as it shows every job (api/routes/usage.py, admin.py,
\* credits.py, stats.py).
THEOREM ReportsOfAMonthAgree == ReportsSpec => []ReportsAgree
<1>1. ASSUME ReportsRead PROVE ReportsAgree
  <2>1. PICK part, grid : part = InScope(metered) /\ grid = AccountGrid(overrides, prices)
    OBVIOUS
  <2>2. MonthRead(part, grid, rate, Days)
    BY <1>1, <2>1, AccountMonth DEF ReportsRead
  <2>3. SameMoney(part, grid, rate, Days) /\ WhiteLabel(part, grid, rate, Days)
    BY <2>2, SameMoneyHolds, WhiteLabelHolds
  <2>4. MetricsListed(metered, overrides, prices)
    BY <1>1, MetricsListedHolds DEF ReportsRead
  <2>5. SameCredits(booked, Days) /\ SameCounters(launched, sheets, Minutes)
    BY <1>1, SameCreditsHolds, SameCountersHolds DEF ReportsRead
  <2>6. QED BY <2>1, <2>3, <2>4, <2>5 DEF ReportsAgree
<1>2. QED BY <1>1, ReportsReadInit, ReportsReadStep, PTL DEF ReportsSpec

=============================================================================
