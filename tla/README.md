# CatalogAI: models, checks and proofs

CatalogAI enriches and imports the product catalogue of a shop. A user launches a job on a
selection of products; a worker finds each product's page on the brand's site, writes copy with an
LLM, proposes a price, weights and images; a reviewer edits the result, approves it, and applies it
to the shop's catalogue (Tillin, reached through Xano's HTTP API). A second flow reads supplier files
into product rows and transfers them to Tillin, a third one treats product images. Everything is
metered, paid with prepaid credits, and reachable by an assistant through an MCP endpoint.

This directory holds TLA+ models of the parts of it that keep state or compute what is paid, the TLC
instances that check them, and TLAPS proofs. Paths below are under `backend/app/` unless they say
otherwise. `PROJECT.json` lists, for each definition, the lines it models, and for each hazard its line.

## 1. The system

### Deployment, and what it means for the models

* The API runs as two processes (`compose.prod.yml`, `fastapi run --workers 2`), each serving many
  requests at a time in threads. No stand-alone worker is deployed: the work queue is drained by
  the background task of the request that launched or retried something (`jobs/runner.py`).
  `jobs/worker.py` also has a polling loop, which `EnrichmentQueue` keeps as a constant (`Standalone`).
* The database is Postgres under READ COMMITTED. A session keeps the rows it has loaded
  (SQLAlchemy's identity map), flushes only the columns it changed, and autoflush is off. The only
  row lock taken on purpose is the claim's `FOR UPDATE SKIP LOCKED`.
* Start-up runs migrations and a sweep of old staged files (`main.py`); it recovers nothing else.
* Tillin is remote: a call may fail before or after it was taken, may answer 200 for a part of what was
  sent, and cannot be made conditional.

### Components

| component | state | what is hard | what makes it correct | status |
|---|---|---|---|---|
| work queue (`jobs/queue.py`, `jobs/runner.py`, `api/routes/jobs.py`) | job and item status, attempt count | drains and requests interleave without locks; a drain ends when it sees nothing; process death | one worker per item, one charge per launch, every job settles | modelled |
| review and apply (`api/services/enrichment.py`, `destinations/xano_tillin.py`) | staged columns, image entries, selection, staged files, the remote gallery | an apply is several remote calls and one late commit; the images endpoint appends | no duplicate or lost image, `applied` tells the truth | partly |
| pipeline (`enrich/`) | one item's staged columns | withheld copy, missing source, optional image treatment, commits inside the balance check | what is staged comes from one page | partly |
| credit ledger (`api/services/credits.py`) | append-only entries | check-then-insert grant that commits its caller's work; nothing reserved at launch | one grant a month, debits land with the work | modelled |
| supplier import (`jobs/import_runner.py`, `api/routes/imports.py`) | import job, rows, links to Tillin products | time-outs of a transfer that succeeded; two runs of one job | paid rows are the rows; what was sent is traceable | partly |
| import parsing (`imports/`) | none | an answer of a language model to be checked against the documents | nothing invented, nothing dropped unsaid | partly |
| imaging (`api/routes/imaging.py`, `api/services/imaging.py`, `imaging/`) | asset status, staged files, Tillin image ids | file system, database and Tillin change in turn | an asset that was paid for keeps its files, which show what the row says | partly |
| OAuth server (`mcp/oauth.py`, `api/routes/oauth_consent.py`) | requests, codes, families of tokens | read, check, write without locks in two processes | a code is used once, what is revoked stays so | modelled |
| MCP server, uploads and guard (`mcp/`) | upload links, tokens looked at once | links that outlive what they were signed for | an upload reaches the company it was signed for | partly |
| accounts and tokens (`api/deps.py`, `api/services/accounts.py`) | accounts, stored Tillin tokens, cached clients | a job runs long after its launch with somebody's token | a job reads its own company | partly |
| sources (`sources/`) | budgets, remembered sites | ties, sibling colors, paid fallbacks | an automatic match is verified; paid calls are bounded | partly |
| remote clients (`clients/`) | cached brand maps | stale maps, partial answers | a drain sees the sites saved before it | partly |
| usage and billing (`api/routes/usage.py`, `admin.py`, `stats.py`) | price grid, snapshots of billed months, account settings | a grid edited while a month is frozen; sums rounded at several places | a billed month does not move; the reports agree | partly |
| catalogue, products and settings routes | gallery edits, brand sites, settings | replace by upload, deactivation and reordering | no picture lost | partly |
| application shell and migrations | none of its own | | | not modelled |
| web front end | none the properties are about | | | not modelled |

Components interact by direct calls inside one request or task, through the rows they share, and
through the staging directory. `complete_item` is where the queue calls the ledger; the apply is
where an item, the staging store and the remote catalogue meet; a retry takes an item from the
review back to the queue; a job meets the accounts when it asks for a token to read the catalogue with.

## 2. Modules

| module | models | the grain |
|---|---|---|
| `EnrichmentQueue` | the queue with all its clients | the transaction |
| `LaunchLedger` | what the queue promises: a launch opens at most one charge | abstract |
| `ItemApply` | one item from the pipeline to Tillin, under the apply and the studio | the remote call |
| `ImportTransfer` | one import, from its background run to its links | the remote call |
| `CreditLedger` | the ledger of an account under launches, workers and operators | the statement |
| `ImagingAsset` | one asset of the studio, its files and its uploads | the file or the commit |
| `McpOAuth` | authorizations, codes, token families, the guard | the transaction |
| `Tenancy` | logins, accounts, whose token serves what | the request, an upload in two steps |
| `BrandCache` | the brand maps of the Xano clients | the remote call |
| `ProductGallery` | a Tillin gallery under the requests that edit it | the remote call |
| `Billing` | price grid, snapshots, operator policy, forms and settings of accounts | read, then write |
| `SourceResolution` | the search of an item's page, and what is staged of it | the call to a site |
| `PrintedNumber`, `ImportParsing` | how printed numbers are read; what an import makes of its files and of the model's answer | operators; one request |
| `TillinRows` | the rows sent for a sheet: their prices, sizes, titles and barcodes | one request |
| `StudioGeneration` | what each studio operation asks, debits, meters and sends | one request |
| `ItemGallery` | the images of an item under its source pages | the request |
| `UsageReports` | all reports over a month that fills up, and those that know no month | the row |
| `Ordering` | lists taken out of sets and of other lists by rank | operators |
| `EnrichmentQueueProofs`, `ItemApplyProofs`, `ImportTransferProofs`, `MoneyProofs`, `ImagingAssetProofs`, `McpOAuthProofs`, `TillinProofs`, `SourceResolutionProofs` | the theorems of section 5 | |

The `MC` modules hold the instances. `MCTillin` composes the three modules about Tillin as a shared service
(they share no state, so a behaviour is about one of them); `MCMoney` does the same for the ledger and the bill, and `MCOperators` for
the modules of one request (parsing, rows, studio), the gallery of an item and the month.

### EnrichmentQueue and LaunchLedger

State: `jobStatus`, `itemStatus`, `attempts` are columns; `debits` counts the `enrich_item` rows of the
ledger for an item; `worker[w]` is the program counter of a background drain and `session[s]` that of an
API request; `launches` is a history variable (creation plus retries); `crashes` is a bound.

| action | code |
|---|---|
| `ClaimNextItem`, `DrainEnds` | `claim_next_item`, `process_pending` |
| `CompleteItem`, `FailItem` | `complete_item`, `fail_item` with the rollback of `process_one` |
| `RollupReads`, `RollupWrites` | `_rollup_job`, its SELECT and its later UPDATE |
| `CreateJob`, `StartDrain` | `create_job`, then the background task of the response |
| `LoadRetry`, `CommitRetry` | the guard and the commit of the three retry routes |
| `LoadReview`, `LoadApply`, `CommitStatus` | approve, reject, apply |
| `LoadEdit`, `FlushEdit`, `CommitEdit` | the edits of a staged item; a flush before a long call keeps the row locked |
| `LoadCancel`, `CommitCancel`, `CancelRollup...` | `cancel_job` |
| `KillWorker`, `KillSession` | the process dies, its transaction is rolled back |

What a drain does to an item between claim and verdict is one step here: the pipeline stages columns
that no other part of this module reads. The commits that the balance check may do inside the pipeline
change no status. `FailItem` reads the attempt count again, because the rollback expired the row.

`LaunchLedger` has three steps: a launch opens at most one charge, a charge uses one up, and a charge given up
(a cancel, a failure for good, a death) never comes back. `EnrichmentQueue` implements it with `launched <- launches`,
`charged <- debits` and, for `open`, the workers that hold the item plus one if it is pending.

### ItemApply

State: `item` is the row as committed, `files` the staging directories, `tillin` the remote product,
`session[s].row` the row as a request loaded it. A staged value is the number of the staging it comes
from; a gallery is the number of copies of each image. `made` are the completed assets of each image, `closed` those the studio discarded or saved;
`asked` counts the re-propagations and studio saves of an image.

`Run` and `RunGivesUp` stand for the queue's work on a pending item (no source, uncertain source and disabled copy
all leave columns alone). `LoadApply`, `Upload`, `PushUrls`, `WriteCopy` and `CommitApply` are one apply;
`StagingMissing` is its clean refusal; `CallFails` is an exception at any of its calls, before or after Tillin took
the call; `Kill` is the death of the process. `LoadNormalize` ... `CommitRevert` are the image route, and
`LoadRestage`, `CommitRestage` the routes that stage new values. A staging may normalize the images at once (`auto_normalize`: `PageEntries`, `Normalized`).
`Discard`, `SaveUploads`, `SavePurges` are the studio's routes on an asset made for the item: they ask nothing of the item.

### ImportTransfer

State: `job` is the status and `config_json`, of which the model keeps the selection and whether a transfer is
recorded; `item` is the rows, `run` the background runs, `debited` the ledger's rows for the job. `tillin` is the set of
products that bear one of the references, `late` the lines of files whose sender gave up and that Tillin may still
take. `reopened` and `lost` are history variables.

| action | code |
|---|---|
| `RunStarts`, `RunCompletes`, `RunFails`, `RunKilled` | `run_import_job` and `_process`: one commit for rows, debit, config and status, or a rollback |
| `LoadRetry`, `CommitRetry` | `retry_import` |
| `Choose`, `LoadEdit`, `CommitEdit`, `BulkUpdate`, `Reset` | the review routes |
| `LoadTransfer`, `Send`, `SendTimesOut`, `CommitTransfer` | `transfer_import`; the commit marks what is kept by then |
| `LoadReconcile`, `LookUp`, `CommitReconcile` | `reconcile_import`, one search per row |
| `LoadLink`, `LookUp`, `CommitLink` | `link_import_products` |
| `TakeLate` | Tillin, outside the program |
| `Abort` | an exception, or the death of the process |

### CreditLedger

State: `ledger` is the committed rows as a bag; `period`, `seen`, `wanted` are what a session has read;
`item`, `image`, `flushed`, `staged` are the open transaction of a worker, whose last two parts differ because
the balance is a query that sees what was flushed and not what was only added. `GrantMissing` and `Grant` are the SELECT
and the INSERT of `ensure_subscription_grant`; `Grant` commits everything the session has flushed or added. `Ask` ... `Launch` are
a launch or a relaunch, `Overview` a reader, `Claim` ... `Fail` a worker's run over the images of its sheet, `Adjust` the
operator, `NextMonth` the calendar, `Kill` the death of a worker. History: `raced` are the months in which two sessions
were between check and insert, `split` the sheets whose transaction a grant committed half-way.

### ImagingAsset

State: `row` is the asset, `disk` what each staged file shows (how it was made, where the product is placed, how often it was edited),
`run` the background run, `req[s]` the request with the row it read. A file is written before the commit that names it and
removed after the commit that gives it up; `Restart` is a death of the process, with the retention sweep of the next start. `clean` is
false once two writers overlapped or one died between its file and its commit.

### McpOAuth

State: `grant` are the authorization requests, `family` the pairs of tokens in order of issue, `proc[w]` the handler a
worker is in with what it read. `ReadPending`, `Approve`, `Deny` are the consent page, `LoadCode`, `ExchangeCode` and
`LoadRefresh`, `RevokeOld`, `IssueNew` the two exchanges (a refresh commits twice), `Revoke`, `ExpireGrant`, `ExpireToken`, `Deactivate` what ends a
token, `Verify`, `StartTool`, `EndTool` the guard. `clean` is false once a rotation was overtaken by another of the same token or
by its revocation.

### Tenancy, BrandCache, ProductGallery

`Tenancy`: `home` is the company a user has in Tillin now, `account`, `token`, `logins` what the last login stored; `Serving` is
the choice of `deps.py` for a job: the launcher, else the freshest of the account, else nobody, which is the service for the default account and a refusal for the others. `Put` and `Send` are the check and the call
of an upload link. The code learns where a user is at his web logins only: `moved` are the users who have moved in Tillin since, and an upload is `steady` whose user has not, nor moves before its call.
`BrandCache`: `map[c]` is what a client remembers and its age; `Post`, `Acknowledge`, `PostLost` are a save, `StartDrain`,
`Read`, `Loaded`, `LoadFails` a task that reads. `excused` marks a task behind a load that was under way when it started or that failed.
`ProductGallery`: `image` is Tillin's rows; `editor[e]` a request with the gallery it saw and what it asked for.

### Billing

State: `price` (rows of the grid, by scope), `snapshot` (of billed months), `account` (policy, coefficient, own settings), `form` (an account as the operator's page has loaded it),
`request[w]` with the write it has prepared. `CheckNewPrice`/`InsertPrice`, `CheckEdit`/`WriteEdit`, `Consult` and
`Refreeze`/`WriteSnapshot`, `ReadPolicy`/`WritePolicy`, `OperatorSave` or `ClientSave`/`WriteSettings`, `FirstLogin`/`CreateAccount` are
the routes, each cut where it has read and not yet written. `LoadForm` is the GET of an account's settings: the form may be saved much later, and more than once, with the policy it was
loaded with, while a client's save takes the operator's fields from the row. History: `edition` counts the writings of the policy, and `behind` are the accounts whose settings were read before the last of them, or from
an account that is behind, or that were created while it was written.

### SourceResolution

`world` is what each page says (barcode, reference, a longer code with the reference in it, title; bears the color or not), fixed and chosen at the start; `phase` and `at` say where the
search is; `cands`, `kept`, `left` are its candidates and budgets; `item` the row, with the page its text, its rich text, its price and its images come from, `behind` the
columns in which it keeps what an earlier page wrote; `spent` the paid calls made since the launch and those on record. Sites answer as they like: nothing, a failure, or any of their pages.
`Retry` is the user's: the row is wiped but for the two columns `_reset_item_for_retry` leaves, and the item goes through all of it again.

### ItemGallery

State: `item` is the row (main page and its color, the other pages, the image entries, the selection), `staged` the files of its staging directory, `made` and
`edits` count; `stale` is history: a new main page or a retry left the stored selection behind, which the code does not make follow.

| action | code |
|---|---|
| `FindPage`, `Retry` | the first run of the pipeline; `retry_item` and the run that follows |
| `AddPage`, `RemovePage` | `stage_extra_source`, `add_extra_source`; `remove_extra_source`, with the files they delete |
| `ColorMain`, `ChangeMain` | `set_main_color`; `resolve_item_from_url`, between `snapshot_extras` and `restore_extras` |
| `Normalize`, `Revert`, `Select`, `SelectAll` | the image route and the stored selection |

A filter of a list is written as the places kept (`At`, from `Ordering`): the same list as `SelectSeq` gives, by rank and not by recursion, so that it can be reasoned about.
`ProductGallery` orders its images in the same way, and `TillinRows` tidies its titles (`At`) and lays its rows one sheet after the other (`Laid`).

### StudioGeneration

`studio` is the one thing asked: `AskLaunch` (any paid operation), `AskModel` (`generate_model_image`), `AskFlat` (`generate_flat_image`). The
operators next to it are what each function of the code computes of it: `AskedUnits` what the launch checks the balance for, `RowProvider` the provider its row names, `Run` what the run debits and meters,
`FashnPrompt` and `VirtualModel` what the two engines are told. What becomes of the asset is `ImagingAsset`.

### UsageReports

State: `metered` (`Meter`: `record_usage`, of any account on any day), `prices`, `overrides` and `rate` (`Reprice`: the common grid, the prices of the account and its coefficient, as a report reads them), `booked` (`Book`: an entry of
the ledger), `launched` and `sheets` (`OpenJob`, `Stage`: jobs and their items, with the status they have when read). The reports are functions of these rows: `Summary`,
`Redacted`, `Exported`, `ByJob`, `Series`, `CreditMonth`, `CreditSeries`, `Dashboard`, `Activity`, `OperatorView`. Each adds the same rows in another order and rounds at another place.
Each keeps its own scope: the reports of a month read the events of one account in it (`InScope`) at its prices (`AccountGrid`), `UsageMetrics` those of all accounts and months on the common grid, `Dashboard` all jobs of the account,
`OperatorView` those created in a month, `Activity` the last of them (`Latest`, 50 in the code).

### TillinRows

`rendered` is the one thing asked: `AskPrice` (`compute_price`, of a purchase and of a dearer one), `AskSizes` (`convert_shoe_size`, of two sizes), `AskTitle`
(`render_title_template`), `AskRows` (`render_rows`, of one sheet: a sheet is rendered without the others). Money is in cents, a size in half sizes, a text is a sequence of
words, and an absent coefficient is 0. `Separated` and `Tidy` are the three substitutions that collapse separators, as the places of the title that they leave.

### The operator modules

`PrintedNumber`, `ImportParsing`: each operator stands for one function of the code, over data that keeps what its properties tell apart: a printed
number is its groups of digits and its marks, a color a list of words of letters, a category a node with its parent. The
property next to it is a reference definition, or the agreement of two functions of the code that must not differ. A behaviour is one request (`ReadPrice`, `CheckAnswer`,
`SplitProduct`, `StageImport`...): these functions keep nothing between calls, so the requests in a row of a run of an import are as many behaviours. The sums are counted out
(`SumOver`, a cardinality) and the path of a category is its seven steps at most written out (`Ancestry`), as the code's depth limit allows: no recursion is left, so that what the operators compute can be proved. The
confidences "zero" and "one" are the marks of a check; what a model is sure of by itself, 1.0 included, is a value apart.

## 3. Runs

The constants are in the `.cfg` files; deadlock is not checked because the system may stop: no user is obliged to
send a request, and the bounds stop histories.

| run | instance | what holds |
|---|---|---|
| `queue_live` | 1 job of 2 items, 2 drains, 1 request at a time, 2 attempts, 2 launches, no death, fair | exclusive claim, no pending item without a drain, a due roll-up is owed by somebody, applied is final, every job settles with its items done |
| `queue_two` | 1 job of 1 item and 1 job without items, 2 drains, 2 overlapping requests, 2 attempts, 3 launches, 1 death | one charge per launch, `LaunchLedger` is implemented |
| `apply` | 2 images, 2 normalizations, 2 stagings, 1 re-propagation or studio save of an image, 1 fault anywhere | no image twice beyond what was asked for and what a fault explains, no entry without its file and no image lost but by the studio, `applied` is true |
| `import_one` | 2 rows, 2 references, 2 runs, 2 files, 1 row patched back, 1 fault | paid rows are the rows, what was sent is accounted for, a second product has a cause |
| `money` | ledger: 1 request, 2 workers, 2 sheets of 2 images, 2 attempts, 2 months, 1 adjustment, 1 death; bill: 2 accounts and a common grid, 2 workers, 4 requests, a price by model and one for all | one grant a month, debits with their work, bounded overdraft; one policy but for accounts left behind, a frozen month is stable, a snapshot replays its grid |
| `imaging_asset` | 2 requests at a time, 5 in all, 2 saves, 1 death, fair run | files show what the row says, paid results kept, debits follow results, a launch settles |
| `imaging_refused` | as above, Tillin may refuse images | refuted: an original is only replaced by an image (see 4) |
| `oauth_workers` | 2 workers, 2 users, 1 authorization, 2 codes, 3 families | a code used once, one live line, revocation is final |
| `tillin` | identity: 1 member, 2 operators, 2 companies, 2 moves; sites: 3 clients in 2 processes, 2 tasks, 2 saves, 1 fault; gallery: 2 editors, 3 requests, 1 failure | a job reads its company, an upload reaches the company of its link, a drain sees saved sites, no picture lost and the order asked for |
| `upload_moved` | as above | refuted: an upload is refused when its user has changed company (see 4) |
| `sourcing` | 3 pages on 2 sites in 9 worlds, every method and option, 2 attempts, 1 reviewer's request, 1 retry | verified matches, one source but for what a retry keeps, bounded paid calls |
| `operators` | the inputs enumerated in `MCOperators`; gallery: 3 pages, 3 images, a first run and 4 requests; reports: 3 events of 2 accounts and 2 months, 2 entries, 2 jobs of 2 months and 2 items, a feed of 1 job, common grids and prices of the account, 2 coefficients | an import says what its documents say, rows are sound, the studio is consistent, galleries are sound, reports agree |

Bounds. Two items and two workers are what it takes to hold two items, to contend for one and to finish
the last one of a job while the other is finishing; two requests are what it takes to interleave two
read-check-write handlers; a second attempt and a second launch are what it takes to requeue and to relaunch.
Two images are what it takes to refuse a part of an upload and to rewrite a list that
changed. Two rows and two references are what it takes to send one row and keep
another, to find one and miss another, and to give two rows one reference; two files and two runs
are what it takes to send again and to run again. In the ledger the price of an image exceeds what is left, so that the
guard decides; two workers are what it takes to hide debits from one another. Five requests on an asset are an edit, a
finalisation, a reset, a save and one to overlap with. Three families are a rotation and its rotation. Three pages are two that
tie and one of another site, in worlds where a barcode stands beside a sibling color, a sibling beside the color, or a sibling's exact reference beside a longer code that bears the color; one retry is what it takes to leave a page behind. Four requests on a gallery of an item are enough to add a page, normalize one of its images, promote it and remove it.
Three events of a month are two of one line and one of another, or one of each of three lines that a client sees as one; two items are one that failed and one that did not; a feed of one job is one less than there are, and two jobs are one of each month. Four requests on the settings are a form loaded, the policy written, the form saved and one more.
A table of four rows is one more than the model is shown; a lot of two files is a table and a PDF; three separators are thousands twice and cents; three variants are two colors and one that comes back, or one that is blank; a chain of three categories has a loop, a parent that is missing and a hidden one.
Symmetry is declared on workers, sessions, users and images, which the specifications only compare for equality, and not in the runs that check liveness.

Fairness. `EnrichmentQueue.FairSpec`: a drain that runs is a thread that keeps running (`WF` on its steps); a request in
flight ends, and its response starts its background task as soon as a slot is free, which may be taken and
given again (`SF`). `ImagingAsset.FairSpec`: the background run of a launch is a thread that keeps running (`WF` on `RunStep`). No user action is
fair. Nothing in the code recovers work after a death, so `queue_live` has none, and `LaunchSettles` excuses those that happened.

"One request at a time" and the history variables. Most handlers check what they read without a lock and write later.
Several properties hold with one API request at a time (drains and background runs still in parallel) and fail with two: `ExclusiveClaim`,
`NoOrphanPending`, `AppliedIsFinal`, the properties of `ItemApply` and those of `ImportTransfer`.
With two, two retries of one item give it to two workers; two retries of one import pay its rows twice; two applies append the images twice; two transfers create every product
twice; an edit committed during an apply is marked applied and never written. Where the overlap can be told from the
state, the property excuses exactly that case through a history variable instead of forbidding overlaps: `raced` and `split`
(ledger), `clean` (imaging, OAuth), `excused` (brand maps). `steady` (uploads) and `behind` (billing; another one in the sources) need no overlap: they mark what was read, told or written before something that has moved since,
which the code does not look at again, and the expected violation `upload_moved` or section 4 says what comes of it. `NoDoubleCharge` and `ImplementsLedger` need none of
this, and neither do `ResultKept`, `DebitPerResult`, `CodeOnce`, `RevocationFinal`, `FrozenBillStable`, `FreezeExact` and `NoPictureLost`.

## 4. Where the code differs from what it says

`imaging_refused` refutes `OriginalReplaced`: `save_asset` with `replace=true` never compares what Tillin created with what was sent. When
Tillin answers 200 without the image it could not decode, the original is deactivated, the asset counts as saved, and the staged
result is purged. `clients/xano.py:1040` says that callers must compare; the upload route does.

`upload_moved` refutes `RefusedElsewhere`: an upload link is checked against the account stored for its user (`api/routes/mcp_uploads.py:77`), which only a web login renews. A user who
has changed company in Tillin since passes the check, and his token, which Tillin answers with the company he is in now, takes the image there, under the same product id. The comment at line 74 promises a refusal.

Met while modelling, stated as a precondition or as a hazard's note, and not given a run:

* `enrich/price.py:16` reads a decimal with four digits before the mark and no thousands separator (`1290.00`) as 129.
* `enrich/pipeline.py:1061` says that images never take the balance below zero; the query at 1064 does not see what the transaction
  has added, nor what other workers have flushed. `ImagesOverdrawBound` is the bound that does hold.
* `api/routes/usage.py:253` makes a billed month live again when the billing day is raised after its snapshot (`models/usage_snapshot.py:3`).
* `api/deps.py:169` does not try the colleagues when the launcher has an expired token (`api/services/accounts.py:143`).
* The roll-up of a job may overwrite a retry made in another session; a killed process leaves its item in `processing` for ever; an apply that
  fails half-way appends its images again when it is tried again; an
  imported row that was applied can be patched back and transferred again; a selection made during an extraction is lost
  when the run rewrites `config_json`.
* `api/services/enrichment.py:91-93` says that the items of a selection by tags are created by the worker. It creates none, `_rollup_job` returns when it reads no status (`jobs/queue.py:112`), a cancel included, and the job
  stays pending for ever. `JobsSettle` is about jobs with items.
* `api/services/enrichment.py:466-481` says that it wipes the staged results of a retry: `staged_description_html` and `staged_price` are not among them. When the retry finds no sure page, the rich text of the page
  thrown away stays beside no text, and so does its price; when the catalogue has a price by then (`enrich/pipeline.py:971`), the price of that page stays. `OneSource` says in which columns and when.
* `sources/resolver.py:51-53` says that a page of a sibling color is never staged by itself. This holds of the site search and the web search. The Shopify score knows no color: an exact reference of another
  color (0.90) is taken before a longer code that bears the color (0.75, `sources/shopify_json.py:21`), and the color only breaks ties (`ResolvedIsVerified`).
* The pinned mode `shopify_json` is promised never to pay Firecrawl (`enrich/pipeline.py:619`); when no page is sure, the selection by the model reads its page with the paid text on top (`pipeline.py:846`).
* `api/routes/imaging.py:455-482` and `485-587` discard and save an asset, and purge its file, without a look at the item whose entry it is. The entry stays, and the apply is refused (409) until it is reverted or
  staged again. `NoDanglingEntry` and `NoLostImage` except those images.
* `api/schemas/settings.py:137` says that per-account values never diverge, and `admin.py:454` that any account is representative. A form loaded before the policy was written and saved after
  (`api/routes/admin.py:564`, `settings.py:80-85`) puts the old policy back in one account, with no overlap of requests; an account created while the policy is written never gets it. `PolicyUniform` says that nothing else does.
* An image normalized with its background kept names the provider `local` (`api/routes/products.py:380`); its finalisation meters Photoroom (`imaging/service.py:996`) and leaves the row as it is. `MetersItsProvider` excepts it. The
  normalisation of an item's images always names Photoroom (`enrich/pipeline.py:379`), also when the account keeps backgrounds and nothing is metered: that row is not one of the studio's, and outside the module.
* The counters the operator and the shop see have different scopes: the dashboard counts what failed at any time (`stats.py:29-61`), an overview what failed of the jobs created in its month (`admin.py:133-162`), the feed the last 50 jobs
  (`admin.py:71`), and the list of metrics adds all accounts and months on the common grid (`admin.py:192-207`). `ReportsAgree` states how they are related and no equality beyond.
* `api/deps.py:88` speaks of each job; a drain that works several empties its maps when it starts, so what `SitesSeen` owes is what was acknowledged by then.

## 5. Proofs

A module `XProofs` proves theorems about `X` with TLAPS, for every value of the constants (`TillinProofs` is about `Tenancy`,
`ProductGallery`, `BrandCache`, `ItemGallery`, `TillinRows` and `ImportParsing`, `MoneyProofs` about `CreditLedger`, `Billing` and `UsageReports`, `ImagingAssetProofs` also about `StudioGeneration`). The assumptions are those the modules declare and, where a theorem says so, one of:

* `OneRequest` (queue), `OneAtATime` (`ItemApply`, `ImportTransfer`): requests do not overlap; drains, workers and deaths still interleave. The handlers hold no lock
  between reading and committing, and two of them break these properties (section 3), so the theorems say what is lost without the assumption.
* `NoCrash` (queue): no process dies. Nothing in the code recovers the work of one that did.
* `NoRefusal` (imaging): Tillin creates every image it answers 200 for. `imaging_refused` is the counterexample without.

The declared assumptions are finiteness and sorts of the constants, and what the code gives: there are clients (OAuth), positions on the
canvas, a first month, sites numbered from 1 with each page on one of them, no company called "default" or "missing", no product reference called "none"
(an empty link names no product), and an oldest account that starts from the defaults of the code. A page shows no image twice (`_source_image_urls` drops the
second), and no page is called "none". What is typed in the studio is neither empty nor "none", which are the forms of an absent field. A month has finitely many days;
what is metered has a natural quantity and what is booked a day of it; a price is a natural or none; a coefficient is a natural; months do not overlap and every job was created in one of them; credits are integers; jobs and items are of one of two types. The
numbers of purchases, sizes and profiles are naturals, the modes and axes of a profile those of its schema, and the parts of titles and variants lists of words.
A printed number has a digit before and after each separator, a barcode without its check digit has 7, 11, 12 or 13 digits, a lot has a file, a file is a table or a PDF, no category has the id 0, a printed color has a
token, a profile an id other than 0 that no other profile has, and what a model is sure of is not a mark of a check.

| theorem | states | the invariant behind it |
|---|---|---|
| `TypeInvariant` (queue) | `TypeOK` | itself |
| `ChargeInvariant`, `LaunchChargedOnce` | `NoDoubleCharge` | `ChargeAccount`, below |
| `QueueImplementsLedger` | `ImplementsLedger` | a step of the queue is a launch, a charge or a renunciation of `LaunchLedger`, told by what it does to `Holders` |
| `OneWorkerPerItem`, `AppliedStays` (`OneRequest`) | `ExclusiveClaim`, `AppliedIsFinal` | `Serial`, below |
| `PendingIsDrained`, `FinishedIsRolledUp` (`OneRequest`, `NoCrash`) | `NoOrphanPending`, `RollupOwed` | the properties themselves beside `Serial` |
| `ImagesSentOnce`, `EntriesHaveFiles`, `OnlyCopyIsKept`, `AppliedIsTrue` (`OneAtATime`) | `NoDuplicateImage`, `NoDanglingEntry`, `NoLostImage`, `AppliedReached` | `Inv` of `ItemApplyProofs`, below |
| `MonthGrantedOnce` | `GrantOnce` | `GrantsKnown`: a session about to insert for a month nobody raced for is alone there, and the month has no grant |
| `DebitsMatchWork` | `DebitWithWork` | `Staging`: what a worker has in its transaction is what it has normalised, unless a grant committed a part |
| `DebitedPerResult`, `ResultIsKept` (imaging) | `DebitPerResult`, `ResultKept` | `Order` (which steps a row's status allows), then `Paid`; `Kept` (a row that has not given its files up has them) |
| `OutputTellsTheRow` | `OutputMatchesRow` | `Serial`: while no writers overlapped, row and files agree whenever no request is between its first file and its commit |
| `ReplacedByAnother` (`NoRefusal`) | `OriginalReplaced` | `ImportedFirst`: whoever is to deactivate the original has created an image |
| `CodeExchangedOnce`, `RevokedForGood` | `CodeOnce`, `RevocationFinal` | `Exchanged`: a family comes from an authorization that is used up, and only one without a parent |
| `OneFamilyInForce` | `OneLiveLine` | `OneLine`: one in force, one rotation, and none in force between its two commits |
| `JobsReadTheirCompany`, `UploadsReachTheirCompany` | `JobReadsItsCompany`, `UploadReachesItsCompany` | `AtHome`: the account of a user who has not moved since his login told it is of the company he is in, and client users never move |
| `TypeInvariant` (import) | `TypeOK` | `Sound`: whatever requests overlap, they hold rows that existed, and what they found is in Tillin |
| `PaidRowsAreTheRows`, `WhatWasSentIsKnown`, `CopiesHaveACause` (`OneAtATime`) | `ChargeMatchesRows`, `SentRowsAccounted`, `CopiesAccounted` | `Inv` of `ImportTransferProofs`, below |
| `PolicyIsUniform` | `PolicyUniform` | `Uniform`: there is one policy that every account not behind carries, and that every request and form under way holds unless its marks say it is outdated (`Agrees`, `Fits`) |
| `BilledMonthStands`, `SnapshotsBillTheirGrid` | `FrozenBillStable`, `FreezeExact` | `WellTyped`: a request to freeze holds well-formed prices and, to write over a snapshot, one of its account |
| `SitesAreSeen` | `SitesSeen` | `Served`, below |
| `ImagesOverdrawLittle` | `ImagesOverdrawBound` | `Covering`, below |
| `GalleryAsAsked` | `OrderAsAsked` | `InOrderInv`: `Safe`, and what a request that nobody disturbed knows of the list, from its reading to its last call (`KnowsOrder`) |
| `ItemGalleryIsSound` | `GallerySound` | `GalleryKept`, below |
| `RowsAlwaysSound` | `RowsAreSound` | what is asked is of the declared sets; the rest, below |
| `ImportAlwaysSound` | `ImportIsSound` | `ParsingAsked`: what is asked is of the declared sets; the rest, below |
| `StudioTellsOneStory` | `StudioIsConsistent` | what is asked is a launch, a wish or a flat lay of its sort; the rest is a case analysis of the kinds, a local image that is finalised being one |
| `ReportsOfAMonthAgree` | `ReportsAgree` | `ReportsRead`: finite sets of rows, of the declared sorts, each item under a job of its type; then the sums, below |
| `PicturesAreKept` | `NoPictureLost` | `Safe`: the newest row of a picture is active, and what a request is about to take out has a newer one or was given up |
| `PaidCallsAreBounded` | `PaidBounded` | `Bill`: what an attempt has paid, phase by phase, on top of those before it |
| `ChoiceIsVerified`, `DataFromOnePage` | `ResolvedIsVerified`, `OneSource` | `Scored`: a candidate has the score of its page; `Kept`, `InHand`: the row is bare, but for the columns a retry kept, until the page it names is staged |

Eleven of the arguments in words.

The charge account. For an item, the debits made, the workers that hold it and the pending launch, if any, never exceed the launches.
A claim turns a pending launch into a holder, a completion a holder into a debit, a retry adds a launch and a pending
item; a crash, a cancel and a failure for good only lose terms. It does not assume that one worker holds an item at a
time. `NoDoubleCharge` is the account without its last two terms.

Requests one at a time in the queue (`Serial`). What a request has read and checked still holds when it commits (`LoadStands`), because a worker
only moves items that are `pending` or `processing`, and no request accepts those. So the item of a working drain stays `processing`
(`HeldIsProcessing`), a claim finds `pending` items only, and two drains never hold one. An applied item is in no request's `AllowedFrom` and in no
worker's hand. A drain ends when it sees nothing to claim, hence nothing pending, since no row is locked by a flush that waits.

The apply of an item (`Inv`). The request under way works on the row as it still is (`Serial`). Each entry that is a normalized image has a number of its own, and
the one a normalization is writing is new (`Entries`). The copies of an image in the gallery are counted by how far the apply has come (`Counted`):
before the upload an image it selects has no more than the faults, re-propagations and studio saves owe, and the URL push takes only what the upload
left. An entry without its file is being reverted, was sent, or was closed in the studio (`Backed`): the files of an upload go only after it was complete, and they belong to the images sent. What
the catalogue has is known at each stage when no warning was raised (`Told`), so the commit that writes `applied` tells the truth.

The pictures of a gallery (`Safe`). `NoPictureLost` is not inductive: it says nothing of the rows a request is about to take out. What is
kept is that the newest row of a picture is active: ids only grow, a rename creates its row before it deactivates the old one,
and so whatever a request holds ready to deactivate is never the newest, unless somebody asked to take the picture out.

The import (`Inv`). One run is live at most, and a job whose run has not completed has no rows and no transfer (`OneRun`); so the rows of a job
are those of the one commit that also debits them, and a retry, which needs a failed job, has none to purge. A request that sends has loaded the
rows that are still those to send, and once sent each has its product (`LoadHolds`). A row has at most as many products, in Tillin or on
their way, as it was patched back or lost, and one more if it is applied or just sent (`Counted`): only a row that is not applied is sent.

The sites of a brand (`Served`). What a task is owed is what was acknowledged when it started. Every map of its process that has not expired holds
at least that, and so does every load under way there, because a load puts its answer in the map when it ends. A save empties the maps of its own process only, but a
drain empties those of its own when it starts; a load that was already under way with an older answer, or one that fails and makes an
old map serve, is what `excused` records. A load that starts later reads Tillin, which is ahead of all that was acknowledged.

The overdraft (`Covering`). The balance is a sum over the ledger, a fold. It is first shown to be a count: an entry of `c` credits is `c` coins, and the sum of a set of
naturals is the cardinality of its coins (`Tally`), so that a new entry adds its own coins and finite sets do the rest. The induction on a set this takes is done once (`NoLeastException`), by the least
set on which the claim would fail. The bound itself is not inductive, because a worker that has seen enough is about to go below it: what is kept is that the bound covers
the images the workers may still add to the ledger without another look (`Charges`), as well as those that are there.

The gallery of an item (`GalleryKept`). `GallerySound` says nothing of the numbers of files: what is kept besides is that the store holds no file above `made`, so that a normalization makes
a file no entry has. A page that is removed takes away the entries tagged with it, hence exactly its files; a page that becomes the main one
takes its entries into the main list, where the ones it had are not counted twice, because the others are compared by the identities of their images and not by their urls.

The reports of a month. A sum over a set is the sum over its groups of their sums (`TallyByGroups`), and a sum of records over which a key is one-to-one is that over the keys (`TallyRenamed`): with
these two the quantities of the lines, of the jobs, of the days and of the services are those of the events. An amount rounded to the nearest is within half a unit (`HalfEvenNear`), one
rounded twice within that and half a coefficient (`RoundedTwice`), and errors of lines add up (`NearByLines`); this is the slack that `SameMoney` grants and no more. The counters of the dashboard
are counts of disjoint groups of items: by job, of which the feed shows the last, and by month, of which each job has one.

The rows of a sheet. A concatenation of lists and a filter are told by an order-preserving one-to-one map from their places to those they come from (`LaidIsLaidOut`, `AtInPlaces`), so no
induction over the list is needed. A place of a tidy title that says the brand goes back to a place of the title or of a brand token: to the first only when the title has it, and then the token
was emptied (`DropBrandOfOne`), which is the bound on how often it is said (`TitleHolds`). A constructed barcode is taken apart from its end: the hyphen before the last part is the last one of the
text, when the part has none of its own (`JoinedOnce`), hence the condition in the property. The ceiling of a price is arithmetic of quotient and rest (`RoundUpIsCeiling`).

What an import makes of its documents (`ImportIsSound`). A barcode: its check digit is the complement of a sum, a digit enters it times 1 or 3, and neither shares a factor with ten, so a wrong one shows
(`DigitIsSeen`); zeros in front shift the places and not the weights (`ZeroInFront`). A price: the form that the enrichment's pattern takes of a conventional price is all of it (`WholeIsMatched`). An answer: the three
functions of the code are one rule for the value and the confidence a check leaves in each field (`RuleIs`), from which the rest reads off. A split: the sheets are the places of the product taken color by
color; what one color has in the sheets laid one after the other is a list of its places that rises and leaves none out, hence the list of them (`RisesThroughAll`, `LaidByColor`). The shortest prefixes that tell the colors
apart do so because the whole texts do (`InitialsApart`), and a reference tells its suffix (`RefsTell`). The sheets paid for are the products laid out, and have a variant exactly when a product has (`SheetsAre`).

What is left to TLC, and why: `JobsSettle` and `LaunchSettles`, which are liveness under fairness, out of reach of these provers. Every other property of the passing runs is the
statement of a theorem.

## 6. Not modelled, and why

* Prompts, copies, titles in words, pixels, HTML and spreadsheets: data conversion and heuristics, of which the models keep the verdict.
* The weights and the text of a reviewer's patch: written by the same calls as the copy, with no other control.
* The image backfill of `list_import_products`, previews, CSV download, the storage of supplier files, the credit check at the creation of an import.
* The back-off of the Cloudflare transport and the mail, GPT and LLM clients beyond success and failure.
* Passwords, invitations, user administration, faces, instructions, import profiles as rows, category weights: single-row reads and writes.
* The registration of an OAuth client: one insert that nobody changes.
* Time: expiry is an action that may happen at any moment; the 90-day sweep of `ItemApply`'s staging is taken to come after the review.
* The enrichment routes do not look at a job's type; the models take a job to be used through the routes of its own kind.
* The application shell, the migrations and the front end.

## 7. Plan

Done: the queue (where money and concurrency meet) with its abstract ledger, the apply, the import, the credit ledger, the imaging
assets, OAuth, tenancy, brand maps and galleries, billing, source resolution, and the operators; the theorems of section 5.

What is left:

1. The hazards without a property (`PROJECT.json`), which are lost updates the code allows: a run that states the weaker thing that does hold.
