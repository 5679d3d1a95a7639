----------------------------- MODULE UsageReports -----------------------------
(***************************************************************************)
(* What the program tells of a month: the summary of an account, the view  *)
(* of it a client gets, the cost of each job, the daily curve and the CSV  *)
(* (api/routes/usage.py), the operator's overview and activity feed        *)
(* (api/routes/admin.py), the credits spent (api/routes/credits.py) and    *)
(* the dashboard (api/routes/stats.py).  Each report adds the same events  *)
(* in another order and rounds at another place.                           *)
(*                                                                         *)
(* An amount is a number of 0.0001 euro; a unit price and a coefficient    *)
(* count tenths.  Events and rows are sets of records with an id.  What is *)
(* metered is that of all accounts, day after day; the reports are those   *)
(* of one account and one month, which is not billed yet, but the list of  *)
(* metrics, which reads everything, and the feed and the dashboard, which  *)
(* know no month.                                                          *)
(***************************************************************************)
EXTENDS Integers, FiniteSets, Functions

CONSTANTS
  Client,        \* the account whose reports are read
  Days,          \* of the month that is read
  Calendar,      \* the months, each a set of days
  Events,        \* what may be metered
  Grids,         \* prices the operator may set
  Exceptions,    \* prices he may set for one account
  Rates,         \* coefficients
  Movements,     \* what may be booked to the credits of the account
  Jobs, Items,   \* what may be launched, and the rows of it
  Minutes,       \* what a sheet saves
  FeedLimit,     \* jobs of the activity feed (50 in the code)
  MaxEvents, MaxRows   \* bounds

VARIABLES
  metered,       \* usage events of all accounts
  prices,        \* the common grid
  overrides,     \* the prices of the account
  rate,          \* its coefficient
  booked,        \* credit entries
  launched,      \* jobs
  sheets         \* items

reportsVars == <<metered, prices, overrides, rate, booked, launched, sheets>>

Unlabelled == "none"
NoPrice == -1

\* quantize: to the nearest, ties to the even one.
HalfEven(n, d) ==
  LET q == n \div d
      r == n % d
  IN  IF 2 * r < d THEN q ELSE IF 2 * r > d THEN q + 1 ELSE q + (q % 2)

Quantity(es) == SumFunction([e \in es |-> e.quantity])

ServiceLabel(provider) ==
  CASE provider \in {"claude", "openai"} -> "text"
    [] provider \in {"photoroom", "fashn"} -> "image"
    [] provider = "firecrawl" -> "search"
    [] OTHER -> "other"

\* The reports of a month read the events of one account, from its first day to its last.
InScope(events) == {e \in events : e.account = Client /\ e.day \in Days}

\* The grid of an account: its own prices before the common ones.
AccountGrid(own, shared) == [k \in DOMAIN shared |-> IF own[k] # NoPrice THEN own[k] ELSE shared[k]]

-----------------------------------------------------------------------------
(* The summary *)

Key(e) == [provider |-> e.provider, model |-> e.model, metric |-> e.metric]

\* _month_groups
Groups(events) == {Key(e) : e \in events}
Group(events, k) == {e \in events : Key(e) = k}

\* One line of _build_summary: an unpriced one has no amount.
Line(events, k, grid, coefficient) ==
  LET quantity == Quantity(Group(events, k))
      cost     == HalfEven(quantity * grid[k], 10)
  IN  IF grid[k] = NoPrice
      THEN [key |-> k, quantity |-> quantity, priced |-> FALSE, cost |-> 0, billable |-> 0]
      ELSE [key |-> k, quantity |-> quantity, priced |-> TRUE, cost |-> cost,
            billable |-> HalfEven(cost * coefficient, 10)]

Summary(events, grid, coefficient) ==
  LET lines == {Line(events, k, grid, coefficient) : k \in Groups(events)} IN
  [lines    |-> lines,
   cost     |-> SumFunction([l \in lines |-> l.cost]),
   billable |-> SumFunction([l \in lines |-> l.billable]),
   unpriced |-> Cardinality({l \in lines : ~l.priced})]

\* Fault: the models are hidden, their lines are not merged.
RedactedPerModel(summary) ==
  [lines |-> {[service |-> ServiceLabel(l.key.provider), metric |-> l.key.metric,
               quantity |-> l.quantity, priced |-> l.priced, billable |-> l.billable] :
                 l \in summary.lines},
   total |-> summary.billable, unpriced |-> summary.unpriced]

\* _redact_summary: the client's view, one line for each service and metric. The
\* count of unpriced lines is left as it was.
Redacted(summary) ==
  [lines |->
     {LET same == {m \in summary.lines : ServiceLabel(m.key.provider) = ServiceLabel(l.key.provider)
                                           /\ m.key.metric = l.key.metric}
      IN  [service |-> ServiceLabel(l.key.provider), metric |-> l.key.metric,
           quantity |-> Quantity(same), priced |-> \E m \in same : m.priced,
           billable |-> SumFunction([m \in same |-> m.billable])] :
        l \in summary.lines},
   total |-> summary.billable, unpriced |-> summary.unpriced]

\* export_usage_csv: the lines of either view and their total.
Exported(summary, admin) ==
  IF admin THEN [amounts |-> {<<l.key, l.billable>> : l \in summary.lines}, total |-> summary.billable]
  ELSE LET view == Redacted(summary) IN
       [amounts |-> {<<[service |-> l.service, metric |-> l.metric], l.billable>> : l \in view.lines},
        total |-> view.total]

\* read_overview: a line of the operator's page, for the jobs created in a month.
OperatorView(summary, jobs, items, balance, days) ==
  LET month == {j \in jobs : j.created \in days} IN
  [margin  |-> summary.billable - summary.cost,
   jobs    |-> Cardinality({j \in month : j.type = "enrichment"}),
   imports |-> Cardinality({j \in month : j.type = "import"}),
   failed  |-> Cardinality({i \in items : i.status = "failed" /\ \E j \in month : j.id = i.job}),
   balance |-> balance]

\* list_usage_metrics: what was ever recorded, by any account, and whether the common
\* grid prices it.
UsageMetrics(events, shared) ==
  {[key |-> k, quantity |-> Quantity(Group(events, k)), priced |-> shared[k] # NoPrice] :
     k \in Groups(events)}

-----------------------------------------------------------------------------
(* By job, by day *)

Tokens == {"input_tokens", "output_tokens"}

\* _build_by_job: the cost of a job is rounded once; a job with no priced event
\* has none.
JobLine(events, job, grid, coefficient) ==
  LET mine   == {e \in events : e.job = job}
      priced == {e \in mine : grid[Key(e)] # NoPrice}
      cost   == HalfEven(SumFunction([e \in priced |-> e.quantity * grid[Key(e)]]), 10)
  IN  [job |-> job, priced |-> priced # {}, cost |-> cost,
       billable |-> HalfEven(cost * coefficient, 10),
       tokens |-> [t \in Tokens |-> Quantity({e \in mine : e.metric = t})],
       other |-> [m \in {<<e.provider, e.metric>> : e \in {e \in mine : e.metric \notin Tokens}} |->
                    Quantity({e \in mine : <<e.provider, e.metric>> = m})]]

ByJob(events, grid, coefficient) ==
  {JobLine(events, j, grid, coefficient) : j \in {e.job : e \in events}}

\* _redact_by_job: the metrics of a job by service.
RedactedJob(line) ==
  [job |-> line.job, priced |-> line.priced, billable |-> line.billable, tokens |-> line.tokens,
   other |-> [m \in {<<ServiceLabel(k[1]), k[2]>> : k \in DOMAIN line.other} |->
                SumFunction([k \in {k \in DOMAIN line.other : <<ServiceLabel(k[1]), k[2]>> = m} |->
                               line.other[k]])]]

SeriesKey(groupBy, e) ==
  CASE groupBy = "provider" -> e.provider
    [] groupBy = "service" -> ServiceLabel(e.provider)
    [] groupBy = "model" -> e.model
    [] OTHER -> "total"

\* read_usage_timeseries: what a client may group by.
MayGroup(groupBy, admin) ==
  /\ groupBy \in {"none", "model", "provider"}
  /\ groupBy = "none" \/ admin

\* _build_timeseries: each point is rounded by itself, from amounts that are not.
Series(events, grid, coefficient, groupBy, days) ==
  LET Of(k, d) == {e \in events : SeriesKey(groupBy, e) = k /\ e.day = d}
      Amount(es) ==
        HalfEven(SumFunction([e \in {e \in es : grid[Key(e)] # NoPrice} |-> e.quantity * grid[Key(e)]])
                   * coefficient, 100)
      All == {[key |-> k, points |->
                 [d \in days |-> [amount |-> Amount(Of(k, d)), quantity |-> Quantity(Of(k, d))]]] :
                k \in {SeriesKey(groupBy, e) : e \in events}}
  IN  {s \in All : \E d \in days : s.points[d].quantity # 0 \/ s.points[d].amount # 0}

-----------------------------------------------------------------------------
(* Credits and the dashboard *)

Labelled == {"import_product", "enrich_item", "image_process", "image_generate", "image_finalize"}

\* read_credits: what the month consumed, and how many of each action.
CreditMonth(entries) ==
  LET spent == {e \in entries : e.kind = "consumption"} IN
  [consumed |-> -SumFunction([e \in spent |-> e.credits]),
   byAction |-> [a \in {e.action : e \in spent} \ {Unlabelled} |->
                   Quantity({e \in spent : e.action = a})],
   movements |-> entries \ spent]

\* build_credit_timeseries
CreditSeries(entries, days) ==
  LET spent == {e \in entries : e.kind = "consumption"}
      Label(e) == IF e.action \in Labelled THEN e.action ELSE "other"
  IN  [k \in {Label(e) : e \in spent} |->
         [d \in days |-> -SumFunction([e \in {e \in spent : Label(e) = k /\ e.day = d} |-> e.credits])]]

Settled == {"ready_for_review", "approved", "applied", "rejected", "failed"}
AutoMethods == {"shopify_json", "site_search"}

\* _dashboard_stats
Dashboard(jobs, items, minutes) ==
  LET enriched == {i \in items : i.type = "enrichment"}
      imported == items \ enriched
      settled  == {i \in enriched : i.status \in Settled /\ i.method # Unlabelled}
      Count(S, status) == Cardinality({i \in S : i.status = status})
      Running(type) == Cardinality({j \in jobs : j.type = type /\ j.status \in {"pending", "processing"}})
  IN  [applied |-> Count(enriched, "applied"), ready |-> Count(enriched, "ready_for_review"),
       running |-> Running("enrichment"), importing |-> Running("import"),
       toTransfer |-> Count(imported, "ready_for_review"),
       importsToReview |-> Cardinality({i.job : i \in {i \in imported : i.status = "ready_for_review"}}),
       jobsToReview |-> Cardinality({i.job : i \in {i \in enriched : i.status = "ready_for_review"}}),
       failed |-> Count(enriched, "failed") + Count(imported, "failed"),
       saved |-> Count({i \in imported : i.recent}, "applied") * minutes.import
                 + Count({i \in enriched : i.recent}, "applied") * minutes.enrichment,
       auto |-> <<Cardinality({i \in settled : i.method \in AutoMethods}), Cardinality(settled)>>]

\* The last jobs an account created, as many as the feed shows; of two created at the
\* same time either may come first.
Latest(jobs) ==
  {last \in SUBSET jobs :
     /\ Cardinality(last) = IF Cardinality(jobs) < FeedLimit THEN Cardinality(jobs) ELSE FeedLimit
     /\ \A j \in last, k \in jobs \ last : k.created <= j.created}

\* read_account_activity: the last jobs, each with the items of its own table.
Activity(last, items) ==
  LET Of(j) == {i \in items : i.job = j.id /\ i.type = j.type}
  IN  {[job |-> j.id, status |-> j.status, total |-> Cardinality(Of(j)),
        failed |-> Cardinality({i \in Of(j) : i.status = "failed"})] : j \in last}

-----------------------------------------------------------------------------
Distance(a, b) == IF a < b THEN b - a ELSE a - b

\* What the month is worth before any rounding, in hundredths of an amount.
Exact(events, grid, coefficient) ==
  SumFunction([e \in {e \in events : grid[Key(e)] # NoPrice} |->
                 e.quantity * grid[Key(e)] * coefficient])

\* The summary, the cost of the jobs and the curve of a month are the same money:
\* each is away from it by what its own lines may round and no more, and the tokens
\* and quantities are the same to the unit.
SameMoney(events, grid, coefficient, days) ==
  LET summary == Summary(events, grid, coefficient)
      jobs    == ByJob(events, grid, coefficient)
      exact   == Exact(events, grid, coefficient)
      slack   == 50 + 5 * coefficient
  IN  /\ Distance(100 * summary.billable, exact) <= slack * Cardinality(summary.lines)
      /\ Distance(100 * SumFunction([l \in jobs |-> l.billable]), exact) <= slack * Cardinality(jobs)
      /\ \A t \in Tokens :
           SumFunction([l \in jobs |-> l.tokens[t]])
             = Quantity({l \in summary.lines : l.key.metric = t})
      /\ \A g \in {"none", "provider", "model", "service"} :
           LET series == Series(events, grid, coefficient, g, days) IN
           /\ SumFunction([s \in series |-> SumFunction([d \in days |-> s.points[d].quantity])])
                = Quantity(events)
           /\ Distance(100 * SumFunction([s \in series |-> SumFunction([d \in days |-> s.points[d].amount])]),
                       exact)
                <= 50 * Cardinality(series) * Cardinality(days)

\* The operator's list of metrics leaves out nothing an account is billed: each line of
\* its month is there, with no less than its quantity; what the common grid prices is
\* priced in the month; and the month counts as unpriced the metrics of the list that
\* neither the common grid nor a price of the account covers.
MetricsListed(everything, own, shared) ==
  LET month   == InScope(everything)
      listed  == UsageMetrics(everything, shared)
      summary == Summary(month, AccountGrid(own, shared), 10)
  IN  /\ \A l \in summary.lines : \E m \in listed :
           m.key = l.key /\ m.quantity >= l.quantity /\ (m.priced => l.priced)
      /\ summary.unpriced =
           Cardinality({m \in listed : ~m.priced /\ m.key \in Groups(month) /\ own[m.key] = NoPrice})

\* The client's view says nothing of the models and loses nothing of the bill: one
\* line for each service and metric, whose amounts add up to the total, on the page
\* and in the file, and whose jobs keep their metrics.
WhiteLabel(events, grid, coefficient, days) ==
  LET summary == Summary(events, grid, coefficient)
      view    == Redacted(summary)
      file    == Exported(summary, FALSE)
  IN  /\ \A l, m \in view.lines : l.service = m.service /\ l.metric = m.metric => l = m
      /\ {l.service : l \in view.lines} = {ServiceLabel(e.provider) : e \in events}
      /\ SumFunction([l \in view.lines |-> l.billable]) = view.total
      /\ Quantity(view.lines) = Quantity(events)
      /\ file.total = SumFunction([a \in file.amounts |-> a[2]])
      /\ \A g \in {"none", "provider", "model", "service"} : MayGroup(g, FALSE) =>
           {s.key : s \in Series(events, grid, coefficient, g, days)} \subseteq {"total"}
      /\ \A line \in ByJob(events, grid, coefficient) :
           LET hidden == RedactedJob(line) IN
           SumFunction(hidden.other) = SumFunction(line.other)

\* The credits of the month are those of its days.
SameCredits(entries, days) ==
  LET series == CreditSeries(entries, days) IN
  CreditMonth(entries).consumed =
    SumFunction([k \in DOMAIN series |-> SumFunction(series[k])])

\* The counters of the dashboard, which knows no month, are those of the feed as long as
\* the account has no more jobs than the feed shows, and never less than the feed's: what
\* failed, what runs, how many items. What failed and what was launched is in the
\* operator's overview of exactly one month.
SameCounters(jobs, items, minutes) ==
  LET board     == Dashboard(jobs, items, minutes)
      unsettled == board.running + board.importing
      Overview(days) == OperatorView(Summary({}, <<>>, 10), jobs, items, 0, days)
  IN  /\ \A last \in Latest(jobs) :
           LET feed    == Activity(last, items)
               failed  == SumFunction([a \in feed |-> a.failed])
               total   == SumFunction([a \in feed |-> a.total])
               running == Cardinality({a \in feed : a.status \in {"pending", "processing"}})
           IN  /\ failed <= board.failed /\ total <= Cardinality(items) /\ running <= unsettled
               /\ Cardinality(jobs) <= FeedLimit =>
                    failed = board.failed /\ total = Cardinality(items) /\ running = unsettled
      /\ SumFunction([m \in Calendar |-> Overview(m).failed]) = board.failed
      /\ SumFunction([m \in Calendar |-> Overview(m).jobs + Overview(m).imports]) = Cardinality(jobs)
      /\ board.importsToReview = 0 <=> board.toTransfer = 0
      /\ board.jobsToReview = 0 <=> board.ready = 0

-----------------------------------------------------------------------------
ASSUME ReportsAssumption ==
  /\ IsFiniteSet(Days) /\ IsFiniteSet(Calendar) /\ FeedLimit \in Nat
  /\ \A m, n \in Calendar : m \cap n # {} => m = n
  /\ \A e \in Events : e.quantity \in Nat
  /\ \A g \in Grids \cup Exceptions :
       DOMAIN g = Groups(Events) /\ \A k \in Groups(Events) : g[k] \in Nat \cup {NoPrice}
  /\ Rates \subseteq Nat
  /\ \A x \in Movements : x.credits \in Int /\ x.day \in Days
  /\ \A j \in Jobs : /\ j.type \in {"enrichment", "import"} /\ j.created \in Int
                      /\ \E m \in Calendar : j.created \in m
  /\ \A i \in Items : i.type \in {"enrichment", "import"}

ReportsInit ==
  /\ metered = {} /\ rate = 10
  /\ prices = [k \in Groups(Events) |-> NoPrice] /\ overrides = prices
  /\ booked = {} /\ launched = {} /\ sheets = {}

\* record_usage
Meter(e) ==
  /\ Cardinality(metered) < MaxEvents
  /\ metered' = metered \cup {e}
  /\ UNCHANGED <<prices, overrides, rate, booked, launched, sheets>>

\* The operator prices the metrics, for all and for the account; the reports of a month
\* that is not billed read the grids of the moment.
Reprice(g, own, k) ==
  /\ prices' = g /\ overrides' = own /\ rate' = k
  /\ UNCHANGED <<metered, booked, launched, sheets>>

\* An entry of the ledger.
Book(x) ==
  /\ Cardinality(booked) < MaxRows /\ \A y \in booked : y.id # x.id
  /\ booked' = booked \cup {x}
  /\ UNCHANGED <<metered, prices, overrides, rate, launched, sheets>>

\* A job, and a row of it, with the status it has when it is read.
OpenJob(j) ==
  /\ Cardinality(launched) < MaxRows /\ \A k \in launched : k.id # j.id
  /\ launched' = launched \cup {j}
  /\ UNCHANGED <<metered, prices, overrides, rate, booked, sheets>>

Stage(i) ==
  /\ Cardinality(sheets) < MaxRows /\ \A k \in sheets : k.id # i.id
  /\ \E j \in launched : j.id = i.job /\ j.type = i.type
  /\ sheets' = sheets \cup {i}
  /\ UNCHANGED <<metered, prices, overrides, rate, booked, launched>>

ReportsNext ==
  \/ \E e \in Events : Meter(e)
  \/ \E g \in Grids, own \in Exceptions, k \in Rates : Reprice(g, own, k)
  \/ \E x \in Movements : Book(x)
  \/ \E j \in Jobs : OpenJob(j)
  \/ \E i \in Items : Stage(i)

ReportsSpec == ReportsInit /\ [][ReportsNext]_reportsVars

\* The summary, the jobs, the curve and the client's view of a month are the same
\* events and the same money, all of it in the operator's list of metrics; and the
\* counters of the dashboard those of the feed, up to its limit, and of the months.
ReportsAgree ==
  LET grid  == AccountGrid(overrides, prices)
      month == InScope(metered)
  IN  /\ SameMoney(month, grid, rate, Days)
      /\ WhiteLabel(month, grid, rate, Days)
      /\ MetricsListed(metered, overrides, prices)
      /\ SameCredits(booked, Days)
      /\ SameCounters(launched, sheets, Minutes)

=============================================================================
