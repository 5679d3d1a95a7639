---------------------------- MODULE CreditLedger ----------------------------
(***************************************************************************)
(* The prepaid credit ledger of one account                                *)
(* (backend/app/api/services/credits.py and its callers).                  *)
(*                                                                         *)
(* The ledger is append-only and the balance is its sum.  Reading the      *)
(* balance first grants the month's free credits: a SELECT, then an INSERT *)
(* that COMMITS the whole transaction of whoever asked.  A launch is       *)
(* refused when the balance does not cover its sheets; the sheets are      *)
(* debited when they complete, and the images of a sheet are debited along *)
(* the way after a look at the balance, which sees what is committed and   *)
(* what this transaction has flushed (autoflush is off).                   *)
(*                                                                         *)
(* Requests and workers are sessions; every statement that touches the     *)
(* database is a step, so that sessions interleave between them.           *)
(***************************************************************************)
EXTENDS Integers, FiniteSets, FiniteSetsExt, Bags

CONSTANTS
  Requests,      \* sessions of HTTP requests
  Workers,       \* sessions of queue workers
  Sheets,        \* enrichment items that can be launched
  Images,        \* images of the source page of a sheet (auto_normalize on)
  Price,         \* credit_grid: [enrich_item |-> Nat, image_process |-> Nat]
  FreeCredits,   \* AccountSettings.monthly_free_credits
  Opening,       \* credits bought before the first step
  Adjustments,   \* amounts an operator may write, signed and non-zero
  MaxMonth, MaxAttempts, MaxRuns, MaxAdjust, MaxKills   \* bounds

ASSUME LedgerAssumption ==
  /\ Images \in Nat /\ FreeCredits \in Nat /\ Opening \in Nat
  /\ Price \in [enrich_item : Nat, image_process : Nat]
  /\ Adjustments \subseteq Int \ {0}
  /\ Requests \cap Workers = {} /\ MaxMonth \in Nat \ {0}
  /\ IsFiniteSet(Workers) /\ Workers # {}

VARIABLES
  ledger,    \* committed rows of credit_entry, a bag
  month,     \* the current period
  at,        \* where each session is in its code
  period,    \* _current_period() as the session read it
  seen,      \* the balance the session read last
  wanted,    \* request: the sheets it launches, {} for an overview
  item,      \* worker: the claimed sheet, or {} (a set of at most one)
  image,     \* worker: the image the loop is at
  flushed,   \* worker: image debits flushed in its open transaction
  staged,    \* worker: image debits added to the session, not flushed
  made,      \* worker: images normalised in this attempt
  status,    \* EnrichmentItem.status
  attempt,   \* EnrichmentItem.attempt_count
  runs,      \* history: how often each sheet was completed
  entries,   \* history: normalised images committed with those completions
  adjusted, kills,  \* how many of each happened
  raced,     \* history: months granted while another session was granting
  split      \* history: sheets whose transaction a grant committed half-way

ledgerVars == <<ledger, month, adjusted>>
sessionVars == <<at, period, seen, wanted>>
workVars == <<item, image, flushed, staged, made>>
sheetVars == <<status, attempt, runs, entries>>
vars == <<ledgerVars, sessionVars, workVars, sheetVars, kills, raced, split>>

Sessions == Requests \cup Workers
NoSheet == "none"

----------------------------------------------------------------------------
(* The rows, and what a query of a session sees of them.                   *)

Entry(kind, credits, per, sheet) ==
  [kind |-> kind, credits |-> credits, period |-> per, sheet |-> sheet]

FreeRow(p) == Entry("subscription", FreeCredits, p, NoSheet)
SheetRow(i) == Entry("enrich_item", -Price.enrich_item, 0, i)
ImageRow(i) == Entry("image_process", -Price.image_process, 0, i)

\* n rows that say the same.
Rows(row, n) == [e \in {row} |-> n]

\* consume(): quantity 1 of an action of the grid; free actions write nothing.
Debits(row, n) == IF n > 0 /\ row.credits < 0 THEN Rows(row, n) ELSE EmptyBag

\* How often a row is in a bag of rows, and what they sum to.
Times(e, rows) == IF BagIn(e, rows) THEN rows[e] ELSE 0

SumOver(S, rows) == MapThenSumSet(LAMBDA e : e.credits * Times(e, rows), S)
SumOf(rows) == SumOver(BagToSet(rows), rows)

\* The rows of the open transaction of s: those it flushed, then all it added.
OwnRows(s, n) ==
  IF s \in Workers /\ item[s] # {}
  THEN Debits(ImageRow(CHOOSE i \in item[s] : TRUE), n)
  ELSE EmptyBag

VisibleRows(s) == ledger (+) OwnRows(s, flushed[s])
TransactionRows(s) == OwnRows(s, flushed[s] + staged[s])

\* Fault: the SELECT that makes the grant idempotent is dropped.
GrantedNever(p, rows) == FALSE

Granted(p, rows) ==
  \E e \in BagToSet(rows) : e.kind = "subscription" /\ e.period = p

----------------------------------------------------------------------------
Init ==
  /\ ledger = Rows(Entry("purchase", Opening, 0, NoSheet), 1)
  /\ month = 1
  /\ at = [s \in Sessions |-> "idle"]
  /\ period = [s \in Sessions |-> 0]
  /\ seen = [s \in Sessions |-> 0]
  /\ wanted = [s \in Requests |-> {}]
  /\ item = [w \in Workers |-> {}]
  /\ image = [w \in Workers |-> 0]
  /\ flushed = [s \in Sessions |-> 0]
  /\ staged = [s \in Sessions |-> 0]
  /\ made = [w \in Workers |-> 0]
  /\ status = [i \in Sheets |-> "new"]
  /\ attempt = [i \in Sheets |-> 0]
  /\ runs = [i \in Sheets |-> 0]
  /\ entries = [i \in Sheets |-> 0]
  /\ adjusted = 0 /\ kills = 0
  /\ raced = {} /\ split = {}

----------------------------------------------------------------------------
(* balance(): the lazy grant, then the sum.                                *)

\* ensure_subscription_grant finds nothing to do.
GrantNotNeeded(s) ==
  /\ at[s] = "balance"
  /\ FreeCredits <= 0 \/ Granted(month, VisibleRows(s))
  /\ period' = [period EXCEPT ![s] = month]
  /\ at' = [at EXCEPT ![s] = "sum"]
  /\ UNCHANGED <<ledgerVars, seen, wanted, workVars, sheetVars, kills, raced, split>>

\* The month has no allocation yet, in what this session sees.
GrantMissing(s) ==
  /\ at[s] = "balance"
  /\ FreeCredits > 0 /\ ~Granted(month, VisibleRows(s))
  /\ period' = [period EXCEPT ![s] = month]
  /\ at' = [at EXCEPT ![s] = "grant"]
  /\ raced' = IF \E t \in Sessions \ {s} : at[t] = "grant" /\ period[t] = month
              THEN raced \cup {month} ELSE raced
  /\ UNCHANGED <<ledgerVars, seen, wanted, workVars, sheetVars, kills, split>>

\* The insert commits, and with it all the session had pending.
Grant(s) ==
  /\ at[s] = "grant"
  /\ ledger' = ledger (+) TransactionRows(s)
                      (+) Rows(FreeRow(period[s]), 1)
  /\ at' = [at EXCEPT ![s] = "sum"]
  /\ flushed' = [flushed EXCEPT ![s] = 0]
  /\ staged' = [staged EXCEPT ![s] = 0]
  /\ split' = IF s \in Workers THEN split \cup item[s] ELSE split
  /\ UNCHANGED <<month, adjusted, period, seen, wanted, item, image, made,
                 sheetVars, kills, raced>>

SumBalance(s) ==
  /\ at[s] = "sum"
  /\ seen' = [seen EXCEPT ![s] = SumOf(VisibleRows(s))]
  /\ at' = [at EXCEPT ![s] = "decide"]
  /\ UNCHANGED <<ledgerVars, period, wanted, workVars, sheetVars, kills, raced, split>>

Balance(s) == GrantNotNeeded(s) \/ GrantMissing(s) \/ Grant(s) \/ SumBalance(s)

----------------------------------------------------------------------------
(* Requests: the overview, and the launch or relaunch of sheets.           *)

\* The session is closed and its locals are gone.
Close(s) ==
  /\ at' = [at EXCEPT ![s] = "idle"]
  /\ period' = [period EXCEPT ![s] = 0]
  /\ seen' = [seen EXCEPT ![s] = 0]

Needed(S) == Cardinality(S) * Price.enrich_item

\* A new selection, or sheets relaunched: failed ones, and those under review.
Launchable ==
  {i \in Sheets : status[i] \in {"new", "failed", "ready_for_review"} /\ runs[i] < MaxRuns}

\* require_credits asks for the balance only when something is needed.
Ask(s) ==
  /\ at[s] = "idle"
  /\ \E S \in SUBSET Launchable :
       /\ wanted' = [wanted EXCEPT ![s] = S]
       /\ at' = [at EXCEPT ![s] = IF S # {} /\ Needed(S) <= 0
                                  THEN "launch" ELSE "balance"]
  /\ UNCHANGED <<ledgerVars, period, seen, workVars, sheetVars, kills, raced, split>>

\* read_credits: the overview shows the balance; nothing else is written.
Overview(s) ==
  /\ at[s] = "decide" /\ wanted[s] = {}
  /\ Close(s)
  /\ UNCHANGED <<ledgerVars, wanted, workVars, sheetVars, kills, raced, split>>

\* A launch the balance does not cover answers 402.
Refuse(s) ==
  /\ at[s] = "decide" /\ wanted[s] # {} /\ seen[s] < Needed(wanted[s])
  /\ wanted' = [wanted EXCEPT ![s] = {}]
  /\ Close(s)
  /\ UNCHANGED <<ledgerVars, workVars, sheetVars, kills, raced, split>>

Covered(s) ==
  /\ at[s] = "decide"
  /\ wanted[s] # {} /\ seen[s] >= Needed(wanted[s])
  /\ at' = [at EXCEPT ![s] = "launch"]
  /\ UNCHANGED <<ledgerVars, period, seen, wanted, workVars, sheetVars, kills, raced, split>>

\* create_job or retry_selected_items: nothing is reserved in the ledger.
Launch(s) ==
  /\ at[s] = "launch"
  /\ LET S == wanted[s] \cap Launchable IN
       /\ status' = [i \in Sheets |-> IF i \in S THEN "pending" ELSE status[i]]
       /\ attempt' = [i \in Sheets |-> IF i \in S THEN 0 ELSE attempt[i]]
  /\ wanted' = [wanted EXCEPT ![s] = {}]
  /\ Close(s)
  /\ UNCHANGED <<ledgerVars, workVars, runs, entries, kills, raced, split>>

----------------------------------------------------------------------------
(* Workers: the images of a sheet, then its completion.                    *)

Claim(w) ==
  /\ at[w] = "idle"
  /\ \E i \in Sheets :
       /\ status[i] = "pending"
       /\ status' = [status EXCEPT ![i] = "processing"]
       /\ attempt' = [attempt EXCEPT ![i] = @ + 1]
       /\ item' = [item EXCEPT ![w] = {i}]
  /\ image' = [image EXCEPT ![w] = 1]
  /\ made' = [made EXCEPT ![w] = 0]
  /\ at' = [at EXCEPT ![w] = IF Images = 0 THEN "complete" ELSE "balance"]
  /\ UNCHANGED <<ledgerVars, period, seen, wanted, flushed, staged, runs, entries,
                 kills, raced, split>>

\* The loop of _stage_images goes on to the next image, or leaves.
NextImage(w) ==
  /\ image' = [image EXCEPT ![w] = @ + 1]
  /\ at' = [at EXCEPT ![w] = IF image[w] = Images THEN "complete" ELSE "balance"]

\* Fault: an image passes as long as the account is not in debt.
AffordableAtZero(w) == seen[w] >= 0

Affordable(w) == seen[w] >= Price.image_process

\* credit_balance < cost: the original is kept.
KeepRaw(w) ==
  /\ at[w] = "decide" /\ ~Affordable(w)
  /\ NextImage(w)
  /\ UNCHANGED <<ledgerVars, period, seen, wanted, item, flushed, staged, made,
                 sheetVars, kills, raced, split>>

\* normalize_staged_entry: the asset row is flushed for its id, and what the
\* session had staged with it; then the provider is called.
Normalize(w) ==
  /\ at[w] = "decide" /\ Affordable(w)
  /\ flushed' = [flushed EXCEPT ![w] = @ + staged[w]]
  /\ staged' = [staged EXCEPT ![w] = 0]
  /\ at' = [at EXCEPT ![w] = "provider"]
  /\ UNCHANGED <<ledgerVars, period, seen, wanted, item, image, made, sheetVars,
                 kills, raced, split>>

Normalized(w) ==
  /\ at[w] = "provider"
  /\ staged' = [staged EXCEPT ![w] = @ + 1]
  /\ made' = [made EXCEPT ![w] = @ + 1]
  /\ NextImage(w)
  /\ UNCHANGED <<ledgerVars, period, seen, wanted, item, flushed, sheetVars,
                 kills, raced, split>>

\* The provider refused: the asset is marked failed, the raw url is kept.
NotNormalized(w) ==
  /\ at[w] = "provider"
  /\ NextImage(w)
  /\ UNCHANGED <<ledgerVars, period, seen, wanted, item, flushed, staged, made,
                 sheetVars, kills, raced, split>>

Released(w) ==
  /\ item' = [item EXCEPT ![w] = {}]
  /\ image' = [image EXCEPT ![w] = 0]
  /\ flushed' = [flushed EXCEPT ![w] = 0]
  /\ staged' = [staged EXCEPT ![w] = 0]
  /\ made' = [made EXCEPT ![w] = 0]
  /\ Close(w)

\* complete_item: the result, the image debits and the sheet's, one commit.
Complete(w) ==
  /\ at[w] = "complete"
  /\ \E i \in item[w] :
       /\ ledger' = ledger (+) TransactionRows(w) (+) Debits(SheetRow(i), 1)
       /\ status' = [status EXCEPT ![i] = "ready_for_review"]
       /\ runs' = [runs EXCEPT ![i] = @ + 1]
       /\ entries' = [entries EXCEPT ![i] = @ + made[w]]
  /\ Released(w)
  /\ UNCHANGED <<month, adjusted, wanted, attempt, kills, raced, split>>

\* Fault: process_one records the failure without rolling back first.
KeptByFailure(w) == TransactionRows(w)

\* What the failure of an item leaves of its transaction: db.rollback().
LeftByFailure(w) == EmptyBag

\* The processor raised, at any point of its work: fail_item.
Fail(w) ==
  /\ at[w] \in {"provider", "complete"}
  /\ ledger' = ledger (+) LeftByFailure(w)
  /\ \E i \in item[w] :
       status' = [status EXCEPT ![i] = IF attempt[i] >= MaxAttempts
                                       THEN "failed" ELSE "pending"]
  /\ Released(w)
  /\ UNCHANGED <<month, adjusted, wanted, attempt, runs, entries, kills, raced, split>>

----------------------------------------------------------------------------
(* The rest of the world.                                                  *)

\* grant_account_credits: an operator records a signed movement.
Adjust ==
  /\ adjusted < MaxAdjust
  /\ \E c \in Adjustments :
       ledger' = ledger (+) Rows(Entry("adjustment", c, 0, NoSheet), 1)
  /\ adjusted' = adjusted + 1
  /\ UNCHANGED <<month, sessionVars, workVars, sheetVars, kills, raced, split>>

NextMonth ==
  /\ month < MaxMonth
  /\ month' = month + 1
  /\ UNCHANGED <<ledger, adjusted, sessionVars, workVars, sheetVars, kills, raced, split>>

\* The process dies: every open transaction is lost; what was in processing
\* stays there (the queue's own recovery is EnrichmentQueue's subject).
Kill ==
  /\ kills < MaxKills
  /\ kills' = kills + 1
  /\ at' = [s \in Sessions |-> "idle"]
  /\ wanted' = [s \in Requests |-> {}]
  /\ item' = [w \in Workers |-> {}]
  /\ image' = [w \in Workers |-> 0]
  /\ flushed' = [s \in Sessions |-> 0]
  /\ staged' = [s \in Sessions |-> 0]
  /\ made' = [w \in Workers |-> 0]
  /\ period' = [s \in Sessions |-> 0]
  /\ seen' = [s \in Sessions |-> 0]
  /\ UNCHANGED <<ledgerVars, sheetVars, raced, split>>

Next ==
  \/ \E s \in Sessions : Balance(s)
  \/ \E s \in Requests : Ask(s) \/ Overview(s) \/ Refuse(s) \/ Covered(s) \/ Launch(s)
  \/ \E w \in Workers :
       Claim(w) \/ KeepRaw(w) \/ Normalize(w) \/ Normalized(w)
         \/ NotNormalized(w) \/ Complete(w) \/ Fail(w)
  \/ Adjust \/ NextMonth \/ Kill

Spec == Init /\ [][Next]_vars

----------------------------------------------------------------------------
(* Properties.                                                             *)

\* Every variable stays in its type; the ledger's rows are of known kinds.
TypeOK ==
  /\ IsABag(ledger)
  /\ \A e \in BagToSet(ledger) :
       /\ e.kind \in {"purchase", "subscription", "adjustment",
                      "enrich_item", "image_process"}
       /\ e.credits \in Int /\ e.period \in 0..MaxMonth
       /\ e.sheet \in Sheets \cup {NoSheet}
  /\ month \in 1..MaxMonth
  /\ at \in [Sessions -> {"idle", "balance", "grant", "sum", "decide",
                          "launch", "provider", "complete"}]
  /\ period \in [Sessions -> 0..MaxMonth]
  /\ seen \in [Sessions -> Int]
  /\ wanted \in [Requests -> SUBSET Sheets]
  /\ item \in [Workers -> {S \in SUBSET Sheets : Cardinality(S) <= 1}]
  /\ image \in [Workers -> 0..(Images + 1)]
  /\ flushed \in [Sessions -> 0..Images] /\ staged \in [Sessions -> 0..1]
  /\ made \in [Workers -> 0..Images]
  /\ status \in [Sheets -> {"new", "pending", "processing",
                          "ready_for_review", "failed"}]
  /\ attempt \in [Sheets -> 0..MaxAttempts]
  /\ runs \in [Sheets -> 0..MaxRuns] /\ entries \in [Sheets -> Nat]
  /\ raced \subseteq 1..MaxMonth /\ split \subseteq Sheets

RowsOf(kind) == {e \in BagToSet(ledger) : e.kind = kind}

\* The month's free credits are granted once, as ensure_subscription_grant
\* promises, unless two sessions were between its SELECT and its INSERT in
\* the same month: the check and the insert are idempotent one at a time,
\* across sessions, months and process deaths.
GrantOnce ==
  \A e \in RowsOf("subscription") :
    /\ e = FreeRow(e.period) /\ e.period \in 1..MaxMonth
    /\ e.period \notin raced => Times(e, ledger) <= 1

\* A debit lands with the work it pays for (credits.py, first lines): the image
\* debits of a sheet are exactly its committed normalised images, and the sheet
\* is debited once per completed run, whatever failed attempts, process deaths and
\* relaunches came before; the one exception is a sheet whose transaction was
\* committed half-way by the grant of a new month.  No other row is a debit.
DebitWithWork ==
  /\ RowsOf("enrich_item") \subseteq {SheetRow(i) : i \in Sheets}
  /\ RowsOf("image_process") \subseteq {ImageRow(i) : i \in Sheets}
  /\ \A i \in Sheets :
       /\ Times(SheetRow(i), ledger) = IF Price.enrich_item > 0 THEN runs[i] ELSE 0
       /\ i \notin split =>
            Times(ImageRow(i), ledger) = IF Price.image_process > 0 THEN entries[i] ELSE 0

\* The debits no look at the balance holds back when they land: the sheets
\* launched earlier, and what an operator takes off.
Unguarded ==
  -SumOver({e \in BagToSet(ledger) : e.credits < 0 /\ e.kind # "image_process"}, ledger)

\* The images of sheets, checked one by one against the balance, overdraw the
\* account by at most one image per worker's open transaction plus those other
\* workers had not committed: the rest of a negative balance is sheets that
\* were launched without a reservation, or an operator's adjustment.
ImagesOverdrawBound ==
  SumOf(ledger) >= -Unguarded
    - Price.image_process * (1 + Images * (Cardinality(Workers) - 1))
=============================================================================
