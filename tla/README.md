# PressLedger in TLA+

PressLedger collects the accounting logs of Canon PRISMAsync presses. Every few minutes it asks
each press for the log files it offers, downloads the ones of days that are not final, archives
them under `data/raw/<machine>/` and imports them into SQLite, from where web pages and an export
API read. This directory holds a TLA+ model of that, the TLC runs that check it on small
instances, and proofs, checked by TLAPS, of the safety properties of these runs for every instance.

## The system

| Component | State | Operations | Talks to |
|---|---|---|---|
| press (external; mocked by `tools/fakeprinter.py`) | one ACL per open day, growing; one CSV per closed day; a listing | opens a day, appends records, rotates the day into a CSV, drops old files | answers `sync` over HTTP, or does not |
| sync (`sync.py`) | locals of `sync()`; the archive; the tables `jobs`, `job_media`, `sync_log`, `sync_run` | fetch listing, plan, download, validate, archive, validate again and import, record the run | press, archive, database |
| raw archive (`_archive`, `_raw_files`) | one file per snapshot, `.part` files | write beside and rename | sync, recovery |
| scheduler (`scheduler.py`) | `_sync_lock`, the APScheduler job | tick, manual sync, release | sync |
| command line (`cli.py`) | none | `sync`, `reimport`, `serve` | sync, recovery, in a process of its own |
| recovery (`reimport_from_raw`, `db.reset_db`) | the same database and archive | drop the tables, import every archived file | archive, database |
| database (`db.py`) | schema and version | create, refuse an older schema, reset | all |
| web application (`web/app.py`) | none of its own | pages, POST `/sync` | scheduler, reports |
| export API (`export.py`, `web/api.py`) | none; a cursor in the client's hands | pages of runs, list of days | database |
| export client (`examples/export_client.py`) | window, listed days, cursor, runs fetched; the downstream records | list the final days, page through the runs, insert what is new | export API |
| reports (`reports.py`), job grouping (`jobkey.py`) | none | queries | database |
| parser (`parser.py`), configuration (`config.py`) | none | text to rows, TOML to settings | sync |

What is hard here is between the components. A sync is a chain of steps over three stores that
share no transaction: the press's directory, the archive and the database. Each step can fail on
its own, the process can die between any two, and what one step checked can be stale when a later
one acts on it. The ticks and the manual syncs of the service exclude each other with a lock; a
`pressledger sync` from the command line is another process and takes no lock. A download can be
cut without an error. A press is normally off at night and the others must not notice.

What makes it correct:

- sync: a day in the database never loses records and a final day never changes; a run that is
  recorded without an error has missed nothing; every file a press keeps offering ends up in the
  database; an unreachable press holds up nobody.
- raw archive: at every moment a rebuild would bring back every imported day with no record less,
  and final days as final; a reader never finds part of a snapshot.
- scheduler: the lock is released however a sync ends.
- recovery: a rebuild that finishes leaves what the archive implies; one that dies can be repeated.
- parser and tables: the tables say, cell by cell, what the press logged, whatever columns it
  logs and in which order; a run keeps its identity and figures when its day is read again.
- export: a client that pages while syncs commit gets every row of the days that were final when
  it listed them, each once and each with its own media, unless such a day is itself imported
  again or dropped meanwhile; nothing interim is ever billed, and running the client again after
  any failure repeats nothing and catches up.
- reports: the job list, the own use and the unassigned runs partition the clicks; one figure
  that is computed twice, in SQL and in Python or by two queries, is one figure (a runtime only where
  both read the stamps alike); what a page counts is what the page it links to shows.

`PROJECT.json` lists every component with what is modelled of it, and every hazard with its line
and the properties that watch it.

## Modules

    Press          the presses (external)
    Sync           sync.py, scheduler.py, `pressledger sync`; EXTENDS Press
    Ledger         abstract: what PressLedger promises about an imported day
    MCSync         instances of Sync for TLC
    SyncProofs     theorems about Sync under the lock, and about final days without it
    SnapshotProofs theorems about the archive of Sync
    Recovery       `pressledger reimport` and db.py; EXTENDS Sync
    MCRecovery     instances of Recovery for TLC
    RecoveryProofs theorems about Recovery
    ArchiveWrite   _archive at the level of system calls
    AtomicFile     abstract: what _archive promises about a file
    ArchiveProofs  theorems about ArchiveWrite
    Stamps         dates and clock times, as SQL and as Python take them
    Tables         parser.py and the rows _import_date writes; EXTENDS Stamps
    TableProofs    theorems about Tables
    Reports        reports.py and jobkey.py; EXTENDS Tables
    Pages          the reading routes of web/app.py; EXTENDS Reports
    MCReports      instance of Pages for TLC
    ReportProofs   theorems about Stamps and the rows of Reports
    PageProofs     theorems about Reports and Pages: one page beside another
    Export         export.py, web/api.py and examples/export_client.py; EXTENDS Stamps
    MCExport       instance of Export for TLC
    ExportProofs   theorems about Export: what reaches the client is true, complete and comes once

**Press.** Files of one day are prefixes of each other, so a file is the number of records in it.
`acl[m][d]` grows by `AppendRecord`; `Rotate` writes a `csv[m][d]` at least as long and may leave
the stale ACL in the listing; `Expire` drops files of closed days. This is what `sync.py` relies
on in its own words ("the ACL only grows"), not more: no order is assumed between days, and the
day may rotate between any two steps of a sync.

**Sync.** `archived`, `jobs`, `syncLog`, `lastRun` are the archive, `COUNT(*)` per day of `jobs`,
`source_type` in `sync_log`, and the newest `sync_run` of a press; `lock` is `_sync_lock`;
`run[w]` holds the program counter and the locals of a worker: the tick (one, because of
`max_instances=1`), the background tasks of `POST /sync`, and command line processes. `jobs` is
0 for a day without rows, which is also what the code's COUNT returns for a day never imported.

| Action | Code |
|---|---|
| `TickStart`, `ManualStart` | `_tick`, `sync_now`, `run_sync_once`; a held lock means no step |
| `CliStart` | `_cmd_sync`, no lock |
| `FetchListing`, `ListingFails` | `_fetch_listing`, and the branch that records an unreachable press |
| `PlanFile`, `SkipFile` | `_parse_source_date`, `_plan_action`; the database is read here and not again |
| `Download`, `DownloadDamaged`, `DownloadFails`, `FileGone` | `requests.get` of one file: whole, cut, failed, 404 |
| `Validate`, `Reject` | `_validate_snapshot`, one query |
| `Archive` | `_archive`, atomic (see ArchiveWrite) |
| `ImportCheck`, `ImportDate` | `_import_date`: the second validation, then one transaction |
| `StepFails` | the `except` branches around validation, archive and import |
| `FilesDone`, `RecordRun` | end of the loop, `_record_run`, next press of `sync_all` |
| `Abort` | an exception that `sync()` does not catch: `run_sync_once` swallows it and releases the lock |
| `ServiceCrash`, `CliCrash` | the process dies; archive and database stay |

The loop over a listing visits the files in any order, because the order is the press's. A
downloaded body is a number of records or `Broken`, a body whose header or last newline is
missing. `LineCuts` says whether a body may also be cut exactly at the end of a line: that is
the one damage `_validate_snapshot` can only see by counting. With `LineCuts = TRUE` the model
has every cut; `FALSE` separates the properties that hold unless such a cut happens.

**Ledger** has one action: a day that is not final is replaced, as a whole, by a version with at
least as many records. `Sync` implements it with `rows <- jobs, kind <- syncLog`.

**ArchiveWrite** breaks `_archive` into open (which truncates a `.part` that is there), write,
rename, with the death of the process between any two. Names are links to inodes, so what a
rename publishes is whatever the name links to by then. It implements `AtomicFile`, a register
that holds no file or a whole snapshot, which is how `Sync` uses the archive.

**Recovery** adds a reimport to all of `Sync`, which goes on beside it. `tables` says which tables
exist and `stamped` whether `meta` holds the schema version. `DropTable`, `CreateTables` and
`StampVersion` are `reset_db` and `init_db`; a DROP is a step of its own because Python's sqlite3
opens a transaction for row changes only. `Scan`, `ReadFile`, `CheckFile`, `ImportFile` and
`NextMachine` are the loops of `reimport_from_raw`, which reads a file, validates it and commits it
at three different moments; `NextFiles` is the order of `_raw_files`. `Ends` is the normal end and
every other one: a crash, or a database error, which nothing catches. A sync meets the tables it
finds (`Needs`): without them its step can only fail. Its start goes through `ensure_schema`, three
steps of which `opening` keeps the count: `CheckVersion` refuses an unstamped database,
`CreateMissing` creates what is missing by then, `SetVersion` stamps it, and a rebuild may drop
tables before, between and after them. A reimport without `--rebuild` passes the same check and
then creates and stamps like a rebuild. `Rebuilt`, an operator of
`Sync`, is the abstract specification: what a day should be according to the archive. `alone` is a
history variable: no sync has run since the reimport began.

**Stamps.** A date is its rank among the texts of dates, a clock field its rank among the texts of
clock fields, so that `Text` compares as SQL does. A calendar day in `YYYY-MM-DD` or a time in
`HH:MM:SS` means its rank. Any other text is odd: `OddDates` and `OddClocks` say, per text, what
`strftime` of SQLite and `strptime` of Python make of it, each a value of its own or nothing. So
`24:00:00` is read by SQLite alone, `9:05:00` by Python alone, and the order of the texts need not be
that of the times. `SqlStamp` and `ParseStamp` are the two readers, `RuntimeS` and `DurationS` the two
ways to a runtime; `NoTime` is `NULL` and `None`. `ReadAlike` says that no stamp of a run is odd, or
odd to both: only for such runs do the two ways promise the same figure, and MCReports has one run
with a runtime in SQL only and one with a runtime in Python only (`RuntimesDiffer`).

**Tables** looks inside a day of `Sync`. A press has a log, sequences of records that map columns
to cells, and a layout: the header each record stands under, since a press may change its columns
within a day. `File` writes the lines (`Written` those of one record, under a header where it
changed), trailing empty cells left out; `ParseCsv` reads them as
`parser.py` does (`ParseLine`, `DictZip`), and `Import` replaces the rows of a day in `jobs` and
`job_media` (`RowToDb`, `ExtractMedia`, `ReplaceDay`) under the guard of `_plan_action` and the row
count. `Garbled` is a counter that is no number, `Blank` an empty one. Of the repeated columns a
few are kept: two of six click columns, two of sixteen media slots, none of the finishing ones;
they are all treated alike.

**Reports** states each query of `reports.py` as an operator over the tables. The common table
expressions are `RunType`, `LastRuns`, `SheetsCte` and `Cls`; a row that joins twice would be twice
in `Cls`, which is why a row carries the one it was joined with (`With`, `Classified`). `JobEntry`,
`UnassignedEntry`, `OwnUseEntry` and `MonthEntry` are the rows of the answers. `JobList`,
`KeylessClicks`, `PaperUsage`, `UnassignedRuns`, `OwnUse`, `MonthlyStats` sum in SQL; `JobDetail`
sums the same rows again in Python. `Key` is `jobkey.py`: what the pattern captures, or without a
pattern the identity of the row. `Reconfigure` is a restart with the pattern switched on or off,
over the same tables. Where `ROW_NUMBER` meets a tie, `LastRuns` has every row it may choose.

**Pages** is what the routes make of them: the parameters a request loses (`MachineParam`), the
context of each page (`ListCtx`, `StatisticsCtx`, ...) and the links with their parameters. A link is
a request, so a property can follow it and compare the two pages.

**Export.** `db[m][d]` is the kind and the runs of a day. `ImportDate` replaces a day by a running log,
the closed one, or the closed one cut at the end of a line (`Cuts`, the finding `cut_final`), as long
as it has no row less. It does not ask whether the day is final. `Import` is its use on a day that
is not; `ImportOverFinal` on one that is, which a reimport does (the ACL of the day, then its CSV)
and a command line sync with an old plan; `Rebuild` empties the tables as `reset_db` does. `redone`
is a history variable: the final days taken away in one of these two ways since the client listed
the days. The client is a program counter and the locals of
`export_client.py`:

| Action | Code |
|---|---|
| `Start` | `main`: the window of `LOOKBACK_DAYS` that ends today |
| `ListDays` | `final_days` and `day_page`; no final day, nothing to do |
| `QueryRuns` | one request of `iter_runs`: `_filters`, the cursor, the look-ahead row of `run_page` |
| `QueryMedia` | `_attach_media`, a query of its own; the client takes the page over |
| `InsertNext` | the loop over the records: `record_key`, skip what is there, insert |
| `GiveUp` | an answer that is an error, a timeout, the death of the client; what it inserted stays |

Imports, imports over a final day, a rebuild and the change of the day fall between any two of these.

## Runs

| Run | Instance | Shows |
|---|---|---|
| `sync_service` | 1 press, 1 day, 2 records, tick and one manual sync, line cuts, a weekly file | `ArchiveCoversDatabase`, `CleanRunImportedAll`, `LedgerSpec`, types |
| `sync_live` | the same without line cuts and weekly file, fair | `RebuildKeepsFinality`, `ArchiveNeverShrinks`, `EventuallyRecorded`, `EventuallyFinal`, `EventuallyClean` |
| `sync_presses` | 2 presses, the first may stay off for good, fair | `EventuallyFinal`, `EventuallyClean` of the second |
| `sync_cli` | tick and a command line sync, 1 record, fair | `FinalIsComplete`, and `EventuallyFinal`: a reopened day becomes final again |
| `archive_one` | 1 writer, snapshots of 2, 3 and 5 chunks, 3 inodes | `AtomicReplace`, types |
| `reimport` | tick and a reimport, 1 record, no line cuts | `ReimportRestores`, `ArchiveCoversDatabase`, types |
| `reports` | 2 presses, 2 log days at the end of a month, up to 2 runs a day, 2 layouts, 15 filters, pattern on and off, stamps that one, both or neither of SQLite and Python read | the eleven invariants of `Tables`, `Reports` and `Pages`, `RunsKeepIdentity` |
| `export` | 2 presses, 2 days, up to 2 runs a day, pages of 2 (3 asked for, 2 allowed), a window of 2 days, a closed log that may be cut, one rebuild or one import over a final day, one failure, fair | `FetchComplete`, `NoRowTwice`, `NoTornRow`, `TargetTrue`, `BacklogClears`, types |
| `cut_final` | tick, line cuts | finding: a cut CSV becomes final |
| `cli_final` | tick and a command line sync | finding: a final day goes back to ACL |
| `reimport_dies` | as `reimport` | finding: a final day without rows, for good |
| `pause` | as `reports` | finding: the pause before a run contains the run before it |

Bounds. Days of one press share nothing but the `todo` list and the lock, so one day shows what can
happen to a day; two files of it, ACL and CSV, already race in one listing. Two records give the row
count check a smaller, an equal and a larger body to meet, and room for a day that grows between two
downloads; one record is enough for the races of `sync_cli`, where a shorter and a longer version
are all that is needed, and for `reimport`, which handles one file at a time: ACL and CSV of the day
are already shorter than, equal to and longer than what the database holds. Two presses are the
least that have an order. Three inodes are the target, the `.part` and a free one. One manual task
stands for all: they exclude each other. The `sync_presses` run is about order and reachability, so
its files hold no records.

The logs of `reports` are chosen, not enumerated: each record stands for a case the queries tell
apart. The same job id and line occur on both presses; one job runs on both of them and over the
end of the month, with a proof, an abort, a retry and two runs that tie; its proof is printed the
day before the date of its log; pages are odd in number, so that rounding per row and per sum
differ; an end is missing, no time at all, a time to SQLite alone (`24:00:00` on a 31st that is
none), a time to Python alone (`9:05:00` on `2026-8-3`), or before the start; a name has no key, or
is missing.
Every subset of the days is imported, in every order, from the running log after every line and
from the closed one, under both layouts, and every filter is asked of every state.

In `export` day 1 of both presses holds the same job id on the same line, and the three closed logs
that are not empty hold three production runs, a page of two and one more: the cursor falls between
presses or between days, depending on which days are final. Two runs end the day after their log, so
the window by completion and the list by log day differ, and one is noted as ending before its start
`9:05:00`. The running log of a day shows interim clicks and grows to the length of the closed one,
so the ACL may replace the CSV in a reimport; the closed log may be cut after its first run. The
third date only moves the window. One failed run, and one rebuild or one import over a final day,
are enough to put either before, between and after any two requests; what a second one meets, the
first has left. The proofs have no such bounds.

Findings. The violation runs show where the code does not do what its comments say; each entry of
`findings` quotes the comment. Four causes account for them.

- The row count is compared with the database only, not with the archive, and with nothing at all
  on a day's first import, so a cut at the end of a line can pass (`cut_final`). The same cause lets
  such a cut overwrite a longer archived snapshot, and lets a rebuild find a final day's CSV
  shorter than its ACL: with `LineCuts = TRUE`, `ArchiveNeverShrinks` and `RebuildKeepsFinality` fail.
- A command line sync shares the archive and the database with the service but not the lock
  (`cli_final`). `_archive` then has two writers for one `.part`, and with two `Writers` TLC finds a
  reader of `AtomicReplace` that sees part of a snapshot. `sync_cli` and the theorem
  `FinalDaysComplete` show what is still intact.
- `reset_db` is not a transaction (`reimport_dies`). `reimport` shows that a reimport which ends
  normally repairs it.
- `job_detail` takes the end of a run without the fallback to `startdate` that `duration_s`, the list
  and the export have (`pause`).

## Fairness

`FairSpec` asks for weak fairness of `TickStart` (the event loop fires the interval job as long
as the service runs, and a crashed service is restarted by systemd, `deploy/pressledger.service`)
and of every worker's own next step: a started sync runs in a thread and each HTTP request has a
timeout, so it always goes on. It does not ask that a download succeeds: instead the last
conjunct says that failures, crashes, requests for manual syncs and command line syncs stop at
some point. Without that nothing can be promised: a press that fails on every attempt is never
imported, and a tick that meets a running manual sync is skipped, so endless requests for one
press would starve the others. Presses in `Down` are exempt: they may stay unreachable forever,
and the properties are about the others. Files may still appear, grow and expire at any time;
`EventuallyRecorded` and `EventuallyFinal` are therefore about files that stay in the listing.

In `Export`, `FairSpec` asks for weak fairness of `ClientStep`: whoever runs the client runs it again
and again ("Adjust to match your billing cycle", `export_client.py:27`), which is an assumption about
the operator, and a request is answered or given up: it has a timeout. It asks nothing of the
imports, since `BacklogClears` is about the rows that are final. Failures, rebuilds and imports over
a final day are bounded by constants, so they stop.

With line cuts, `EventuallyRecorded` fails for the reason of `cut_final`: a cut CSV is final and
never read again. That is why `sync_live` has none.

## Proofs

Eight modules, for every number of presses, days, records, files and imports; what a theorem
assumes beyond that is in its statement: `Cli = {}` (no command line sync beside the service),
`LineCuts = FALSE` (a cut download shows), one writer, or counters that are not negative.

`SyncProofs`, about a worker and the lock:

- `TypeCorrect`. `TypeInv` adds to the types what the later proofs need of the locals: an idle
  worker has none, a worker in the middle of a file has a press, a file and, once validated, a body
  that is a count; and every file a listing offers exists.
- `ServiceInvariant` (a lemma): with `Cli = {}`, `SyncInv` is inductive together with `TypeInv`.
  It is the argument why the checks of `sync()` are enough under the lock. `LockHeld`: a worker
  that is not idle holds the lock, so all others are idle. `NothingStale`: hence the plan and the
  row count still hold when they are acted on, and the archive holds the body about to be
  imported. `SourceArchived`: the version a day was imported from is in the archive, with no
  record less. `CleanSoFar`: every listed file is still to visit, being visited, or in the
  database.
- `ArchiveCovers`, `CleanRuns`, `FinalDaysStay` and the refinement `ImplementsLedger` follow from it,
  for any line cut, failure and crash. `ArchiveCoversDatabase` by itself is not inductive: it does not
  say which file a day came from, which is what `SourceArchived` adds. `FinalDaysStay` is what the run
  `cli_final` finds violated once `Cli` is not empty.
- `FinalDaysComplete` needs no lock: with `LineCuts = FALSE`, a CSV in the hands of any worker is
  the whole CSV or visibly broken (`WholeOrBroken`), and a day's CSV never changes.

`SnapshotProofs`, about the archive, with `LineCuts = FALSE`:

- `RebuildsKeepFinality`, beside any number of command line syncs. `SnapshotInv` says of every
  archived file and of every body on its way there that it is a `VersionOf` what the press serves: the
  whole CSV, or a first part of the ACL; and that a day is imported only after its file is archived.
- `SnapshotsNeverShrink`, for the service alone: `NewerThanArchive`, a validated body has no record
  less than the snapshot it will replace. Two facts make it so: the press's log only grows, and under
  the lock nobody replaces the snapshot between the download and `_archive`. None of this
  mentions the rows of the database, so it also holds beside a reimport.

`RecoveryProofs`, about a reimport that may die at any step and be repeated:

- `RecoveryTypes`, for any workers and cuts.
- `ArchiveCoversBesideReimport`. `SourceKept` is `SourceArchived` of the imported days; `RowsCovered`
  says the same of rows whose `sync_log` entry has just been dropped; `HandArchived` of the file the
  reimport has in hand.
- `ReimportsRestore`: `FollowsArchive` follows the loops of `reimport_from_raw`. A press not in the
  queue any more is restored; of the press at hand a day is restored unless its last file lies
  ahead (`DayFollows`), and that file is accepted because the archive covers the rows it meets.

`ArchiveProofs`: `TypesOfTheArchive`, for any number of writers, and the refinement
`WriteAndRenameIsAtomic`: with one writer, `ArchiveWrite` implements `AtomicFile`. The invariant says
that an open `.part` is its writer's own and holds exactly what it has written.

`ExportProofs`, for any number of imports, rebuilds, failures and runs of the client:

- `RecordsOfClosedLogs` and `MediaOfTheirRun`. `ExportInv`: a final day is a first part of its closed
  log (`FinalIsCut`), all of it unless the download was cut, so a row that was final when it was
  read is a line of a closed log wherever the client holds it (`HandsTrue`), even after a reimport or
  a rebuild, and so is every record (`RecordsTrue`); the identity in a record's key names one line,
  hence no run has two. The rows of the page at hand still stand in the tables, unless their own
  day is in `redone` (`PageStands`): nothing but an import over a final day or a rebuild touches
  final days, and both say which. So the second query finds the media of the same rows.
- `PagesNeverRepeat`: whatever is fetched lies up to the cursor, and the page in hand behind it
  (`CursorBetween`). It rests on lemmas that `Before`, the comparison in the WHERE clause of the
  keyset, is a strict total order of the rows' identities.
- `PagesMissNothing`: listed days outside `redone` are final still (`ListStands`), and a wanted run
  of them is fetched, on the page in hand, or ahead of the cursor (`RestIsAhead`), because the first
  page of a finite set in that order leaves out only what comes after its last row.
- `ExportTypes`: the tables stay finite, since rows are of days that have begun (`NoRowAhead`).

`TableProofs`, for logs of any length, any headers and any cells:

- `TablesHoldTheLog`: the rows of a day are those of the first records of its log, as many as were
  read last (`DayIsRead`). Under it is the lemma `ParsedFile`: reading the lines of a file, header after
  header, gives back the records, cell by cell, with the omitted trailing cells empty. Its proof
  follows `ParseLine` along the lines and says what the parser holds after each record.
- `TypesOfTheTables`, `MediaBelongsToARun`, `CellsAreAsLogged`, and `RunsAreKept`, the action
  property: what an import replaces is a first part of what it writes.

`ReportProofs`, for any tables those imports can have built, any filter and any grouping:

- `RuntimeMirrorsDuration`: for a run whose four stamps both readers read alike (`ReadAlike`), the
  runtime `_RUNTIME_S` computes in SQL is the one `duration_s` computes in Python, though the one
  compares texts and the other instants. Beyond these runs it is false, see `RuntimesDiffer`. The
  lemma under it, `OrderOfText`, says that stamps written as the press writes them compare as text
  as they do as instants.
- `ReportsHaveEachRunOnce`: the common table expressions neither drop a run nor fan it out.
- `FiltersOnlyDemote`: a filter hides runs, so the last production run it shows of a job can only be
  earlier, or missing.
- The rest of the module is what the pages' theorems rest on. `SumFunction` can be taken in any
  order (`SumAnyOrder`), is the sum of the sums of the groups of any GROUP BY (`SumOfGroups`), and
  depends on the figures only. A row has the sheets of the trays of its run (`RowHasTheSheets`: of
  a run and a slot there is one row in `job_media`). So rows that `Stands` for some runs have the
  clicks, sets, sheets, runtime, presses and days of those runs, however they were joined
  (`SheetsOverRuns` and its like), and the grades of any set of runs have the sheets of these runs
  (`PaperHasTheSheets`: run and tray, joined, grouped by name and format).

`PageProofs`, for the same tables and requests:

- `EveryClickOnce`, `LinksShowTheFigure`, `MonthsAgree`: the figures of one page are those of another,
  since the rows of both stand for the same runs (`ClicksOfPicked`). `MonthsAgree` adds that the days a
  link of a month selects are those of the month and of the filter of the page (`RangeOfMonth`). That
  own use and unassigned clicks are part of a month's clicks needs `CountersAreCounts`, no counter in
  a log is negative.
- `PaperHasTheSheetsOfTheRuns` compares three ways to the same sheets. It needs `CountersAreCounts`
  too: a grade whose sheets are not above zero is left off the paper page.
- `ListFollowsTheLastRow`. The page lists a job's rows in an order that can tie across presses;
  `InOrder` is any listing in which no row stands before an earlier one, and `ListingExists` shows, by
  adding a latest row to a listing of the others, that there always is one. Its last row is one of
  the last runs SQL picks (`LastRowIsLast`), so where SQL finds no tie both speak of one run.
- `JobsHaveTheirPage`: the entry of a job and its page stand for the same runs, the entry under a
  press and the page's line for this press too (`JobOfThePress`); `SUM` of `_RUNTIME_S`, which skips
  nulls, is the sum of `duration_s` by `RuntimeMirrorsDuration` (`RuntimeIsDuration`), so the runtime
  is claimed of jobs whose runs have stamps read alike (`StampsAlike`), every other figure of all.

Recursion is written as recursive functions or with the folds of the community modules. A fact about
all lengths or all finite sets is proved there by a set of the indices, or subsets, for which it
holds (`UpTo`, `SubsetInduction`), because induction rules that take a predicate cannot be
instantiated.

Assumptions are the `ASSUME`s of the modules, and TLC evaluates them in every run: `Config` is a
nonempty sequence of presses, the distinguished values are distinct, bounds are naturals, `NoTime`,
`Blank` and `Garbled` are no integers. `OddAssumption`: an odd text is read as a number or not at
all. `CutsAssumption`: a log is cut within its length. `PressesAssumption` and `MachinesAssumption`:
presses and log days are finite sets (of `Export` the presses). `LayoutsAssumption`: a header names
at least one column. `SlotsAssumption`: a media slot has columns. `Tables.LogsAssumption`: a log is
a sequence of records whose cells are counters, stamps or text, or empty, or garbled, and whose
start date is a day of the calendar or missing. `FiltersAssumption`: a filter has the parameters of
the query string, and its dates are dates or left out.

Only model-checked are the liveness properties `EventuallyRecorded`, `EventuallyFinal`,
`EventuallyClean` and `BacklogClears`, because they need `ENABLED`, and the four violations, which are
counterexamples. Every invariant and every action property of a run that passes is a theorem.

## What is not modelled

- Bytes: decoding, the field separator, quoting, `raw_json`. In `Sync` a body is a count; that two
  versions of a day with the same count hold the same records follows from the press. `Tables` has
  the cells, but of a press whose log only grows.
- Finishing columns, labels, percentages and the display order of the reports. A page is one step:
  it makes several queries, and an import between two of them shows two versions on one page until
  it is loaded again.
- `sync_status` and `sync_history` with the status page and the JSON of them, which read `sync_run`
  back and keep nothing.
- Of the export API the list of machines, the refusal of malformed parameters (400) and the raw
  fields of a run. Of the web application redirects, the language cookie and sorting.
- The window between two `os` calls in the presence of a loss of power (no fsync).
- Timing: interval, coalescing, misfire grace, HTTP timeouts are only "may fail".
- A press whose ACL shrinks or whose CSV is shorter than its ACL: the code refuses such files, as
  `Reject`, but the model's press never has them.
- A reimport refuses to start while raw files lie in the archive root (`_check_flat_archive`); the
  model's archive never has any. The very first creation of the database is over when it starts,
  and the service's own `ensure_schema` at its start is left to the sync that follows, which does
  the same.
- A start date that is no day of the calendar: the statistics take the month from its text and
  `_month_range` parses that, which the model's months, ranges of dates, cannot say. Finish dates and
  clock fields may be odd.
- Configuration parsing, authentication, dependencies: text processing and one comparison, no state;
  the presses and what the grouping pattern captures are constants. Templates, translations, static
  files, deployment: rendering and packaging.

## Plan

What is above is done. Next, in order of weight:

1. What survives of `Ledger` beside a command line sync, as an abstract specification of its own.
2. `Scheduler`: several background tasks, shutdown with a sync in flight (`wait=False`).
