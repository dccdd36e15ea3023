------------------------------- MODULE Reports -------------------------------
(***************************************************************************)
(* pressledger/reports.py and jobkey.py: every figure of the web           *)
(* application and the JSON API, as operators over the tables jobs and     *)
(* job_media.  A report joins, groups and sums in SQL; the page of one job *)
(* sums the same rows again in Python.                                     *)
(*                                                                         *)
(* Text that no value is given for is "" or Empty, as in the queries.  A   *)
(* search text is the set of the texts it is found in, {} for none.  Rows  *)
(* come as sets: the display order, labels, percentages and the finishing  *)
(* columns, which are summed like clicks, are left out.                    *)
(***************************************************************************)
EXTENDS Tables

CONSTANTS Captured,      \* what job_key_re captures in a file name, "" for nothing
          MonthLength    \* days of a month

ASSUME MonthAssumption == MonthLength \in Nat \ {0}

VARIABLE pattern         \* a job_key_re is configured

vars == <<tables, source, pattern>>

Init == TablesInit /\ pattern \in BOOLEAN

\* The configuration is read at start: the service starts again with the
\* grouping switched on or off.  Nothing is imported again.
Reconfigure == pattern' = ~pattern /\ UNCHANGED <<tables, source>>

Next == Reconfigure \/ (TablesNext /\ UNCHANGED pattern)

Spec == Init /\ [][Next]_vars

-----------------------------------------------------------------------------
(* Columns of the queries.                                                 *)

Month(d) == (d - 1) \div MonthLength

Clicks(r) == r.bw + r.colour

\* nofduplex counts pages, an odd one takes a sheet of its own.
Sheets(s) == s.simplex + (s.duplex + 1) \div 2

Upper == [Done |-> "DONE", Abrt |-> "ABRT", Stop |-> "STOP"]

ResultCode(v) == IF v \in DOMAIN Upper THEN Upper[v] ELSE v

Finished(r) == ResultCode(r.result) = "DONE"

NoKey == <<>>

ApplyPattern(name) ==
  IF name # "" /\ Captured[name] # "" THEN <<Captured[name]>> ELSE NoKey

Key(r) ==
  IF pattern THEN ApplyPattern(r.jobname) ELSE <<r.machine, r.date, r.jobid, r.seq>>

NoFilter == [from |-> Empty, to |-> Empty, q |-> {}, jobtype |-> "", exclude |-> "",
             result |-> "", machine |-> ""]

\* The WHERE of every query; a search of the paper page is matched by its medium.
Matches(r, f) ==
  /\ f.machine \in {"", r.machine}
  /\ r.startdate >= f.from /\ (f.to = Empty \/ r.startdate <= f.to)
  /\ f.jobtype \in {"", r.jobtype}
  /\ f.exclude = "" \/ r.jobtype # f.exclude
  /\ f.result = "" \/ ResultCode(r.result) = ResultCode(f.result)
  /\ f.q = {} \/ {<<r.jobname>>, Key(r)} \cap f.q # {}

\* SUM of a column, of one that may be NULL, and GROUP BY.
Total(rows, Column(_)) == SumFunction([r \in rows |-> Column(r)])

NullableTotal(rows, Column(_)) ==
  LET some == {r \in rows : Column(r) # NoTime}
  IN IF some = {} THEN NoTime ELSE Total(some, Column)

OrZero(v) == IF v = NoTime THEN 0 ELSE v

Groups(rows, By(_)) == {{r \in rows : By(r) = g} : g \in {By(r) : r \in rows}}

Days0(rows) == {r.startdate : r \in rows}

\* A row with more columns: @@ of TLC.tla, which has no definition to prove with.
With(row, more) ==
  [c \in DOMAIN row \cup DOMAIN more |-> IF c \in DOMAIN row THEN row[c] ELSE more[c]]

-----------------------------------------------------------------------------
(* The common table expressions, over the rows J a filter selects.         *)

MultiTs(J, k) == {Ts(r) : r \in {r \in J : Key(r) = k /\ r.sets > 1}}

\* Mutant: a job is in production from its first run of several sets.
MutRunTypeFirstMulti(r, J) ==
  LET multi == MultiTs(J, Key(r))
  IN IF r.sets > 1 THEN "Production"
     ELSE IF Key(r) # NoKey /\ multi # {} /\ Ts(r) < Min(multi) THEN "Proof" ELSE "Single"

\* A single set before a run of several is a release proof.
RunType(r, J) ==
  LET multi == MultiTs(J, Key(r))
  IN IF r.sets > 1 THEN "Production"
     ELSE IF Key(r) # NoKey /\ multi # {} /\ Ts(r) < Max(multi) THEN "Proof" ELSE "Single"

\* ORDER BY startdate, starttime, line_seq.
Earlier(a, b) ==
  \/ a.startdate < b.startdate
  \/ a.startdate = b.startdate /\ a.starttime < b.starttime
  \/ a.startdate = b.startdate /\ a.starttime = b.starttime /\ a.seq < b.seq

\* Mutant: within a day the line decides, whatever the press.
MutLastRunsByLine(J, k) ==
  LET own == {r \in J : Key(r) = k}
  IN {r \in own : \A o \in own : o.startdate < r.startdate
                              \/ (o.startdate = r.startdate /\ o.seq <= r.seq)}

\* The runs ROW_NUMBER may put first: several when two presses tie.
LastRuns(J, k) ==
  LET own == {r \in J : Key(r) = k}
  IN {r \in own : ~ \E later \in own : Earlier(r, later)}

SheetsOf(trays) == Total(trays, Sheets)

SheetsCte ==
  {[machine |-> s.machine, date |-> s.date, jobid |-> s.jobid, seq |-> s.seq,
    sheets  |-> SheetsOf({t \in media : SameRun(s, t)})] : s \in media}

\* Mutant: the sheets are joined without the press.
MutJoinedSheetsWithoutMachine(r) ==
  LET found == {s \in SheetsCte : s.date = r.date /\ s.jobid = r.jobid /\ s.seq = r.seq}
  IN IF found = {} THEN {[sheets |-> 0]} ELSE found

\* LEFT JOIN sheets_cte, and COALESCE.
JoinedSheets(r) ==
  LET found == {s \in SheetsCte : SameRun(s, r)}
  IN IF found = {} THEN {[sheets |-> 0]} ELSE found

Classified(r, s, J) ==
  With(r, [key |-> Key(r), sheetsRow |-> s, sheets |-> s.sheets,
           runType |-> RunType(r, J), last |-> LastRuns(J, Key(r))])

\* cls: the rows of a report; a row that joins twice counts twice.
Cls(f) ==
  LET J == {r \in jobs : Matches(r, f)}
  IN UNION {{Classified(r, s, J) : s \in JoinedSheets(r)} : r \in J}

Keyed(rows) == {r \in rows : r.key # NoKey}

-----------------------------------------------------------------------------
(* The reports.                                                            *)

\* The figures every list shares; runtime is NULL when no run has one.
Figures(rows) ==
  [rows    |-> Cardinality(rows),
   clicks  |-> Total(rows, Clicks),
   sets    |-> Total(rows, LAMBDA r : r.sets),
   sheets  |-> Total(rows, LAMBDA r : r.sheets),
   runtime |-> NullableTotal(rows, RuntimeS),
   bw      |-> Total(rows, LAMBDA r : r.bw),
   colour  |-> Total(rows, LAMBDA r : r.colour),
   proofs  |-> Cardinality({r \in rows : r.runType = "Proof"}),
   first   |-> Min(Days0(rows)),
   last    |-> Max(Days0(rows))]

\* unfinished is what the last run says; with a tie, what one of them may say.
JobEntry(rows) ==
  With(Figures(rows),
   [key         |-> (CHOOSE r \in rows : TRUE).key,
    firstTs     |-> Min({Ts(r) : r \in rows}),
    lastTs      |-> Max({EndTs(r) : r \in rows}),
    proofClicks |-> Total({r \in rows : r.runType = "Proof"}, Clicks),
    notDone     |-> Cardinality({r \in rows : ~Finished(r)}),
    unfinished  |-> {~Finished(l) : l \in UNION {r.last : r \in rows}},
    names       |-> {r.jobname : r \in rows} \ {""},
    machines    |-> {r.machine : r \in rows}])

JobList(f) == {JobEntry(rows) : rows \in Groups(Keyed(Cls(f)), LAMBDA r : r.key)}

\* Mutant: runs of the press itself are counted with the unassigned ones.
MutKeylessClicksSystemTwice(f) ==
  LET rows == {r \in Cls(f) : r.key = NoKey}
  IN [own |-> Total({r \in rows : r.jobtype = "SYSTEM"}, Clicks),
      unassigned |-> Total(rows, Clicks)]

KeylessClicks(f) ==
  LET rows == {r \in Cls(f) : r.key = NoKey}
  IN [own |-> Total({r \in rows : r.jobtype = "SYSTEM"}, Clicks),
      unassigned |-> Total({r \in rows : r.jobtype # "SYSTEM"}, Clicks)]

\* _media_by_line: the job is looked up again, by the key of the run.
MediaByLine(k, r) ==
  {s \in media : SameRun(s, r) /\ \E j \in jobs : SameRun(s, j) /\ Key(j) = k}

\* job_media with the run each row is joined to.
Drawn == {p \in media \X jobs : SameRun(p[1], p[2])}

MaterialSummary(k) ==
  {[name    |-> (CHOOSE p \in g : TRUE)[1].name,
    format  |-> (CHOOSE p \in g : TRUE)[1].format,
    simplex |-> Total(g, LAMBDA p : p[1].simplex),
    duplex  |-> Total(g, LAMBDA p : p[1].duplex),
    sheets  |-> Total(g, LAMBDA p : Sheets(p[1]))] :
   g \in Groups({p \in Drawn : Key(p[2]) = k}, LAMBDA p : <<p[1].name, p[1].format>>)}

\* The end of a run as job_detail takes it.
EndOf(r) == ParseStamp(r.readydate, r.readytime)

\* The pause before the i-th run: since the last end there was.
Pause(runs, i) ==
  LET start == ParseStamp(runs[i].startdate, runs[i].starttime)
      ended == {j \in 1 .. i - 1 : EndOf(runs[j]) # NoTime}
  IN IF start = NoTime \/ ended = {} THEN NoTime
     ELSE IF start < EndOf(runs[Max(ended)]) THEN NoTime
     ELSE start - EndOf(runs[Max(ended)])

\* The rows in the order of the page; ties as SQLite finds them.
InOrder(rows) ==
  CHOOSE runs \in SetToSeqs(rows) :
    \A i, j \in DOMAIN runs : i < j => ~ Earlier(runs[j], runs[i])

ByMachine(rows) ==
  {[machine |-> (CHOOSE r \in g : TRUE).machine,
    runs    |-> Cardinality(g),
    clicks  |-> Total(g, Clicks),
    sheets  |-> Total(g, LAMBDA r : r.sheets),
    sets    |-> Total(g, LAMBDA r : r.sets),
    runtime |-> Total(g, LAMBDA r : OrZero(DurationS(r))),
    firstTs |-> Min({Ts(r) : r \in g}),
    last    |-> Max(Days0(g))] : g \in Groups(rows, LAMBDA r : r.machine)}

NotFound == [rows |-> <<>>]

\* Every run of a job, whatever filter the list was under.
JobDetail(k) ==
  LET found == {r \in Cls(NoFilter) : r.key = k}
      runs  == InOrder(found)
  IN IF found = {} THEN NotFound ELSE
     [key       |-> k,
      rows      |-> [i \in DOMAIN runs |->
                       With(runs[i], [media   |-> MediaByLine(k, runs[i]),
                                      done    |-> Finished(runs[i]),
                                      runtime |-> DurationS(runs[i]),
                                      pause   |-> Pause(runs, i)])],
      clicks    |-> Total(found, Clicks),
      sets      |-> Total(found, LAMBDA r : r.sets),
      sheets    |-> Total(found, LAMBDA r : r.sheets),
      bw        |-> Total(found, LAMBDA r : r.bw),
      colour    |-> Total(found, LAMBDA r : r.colour),
      days      |-> Days0(found),
      proofs    |-> Cardinality({r \in found : r.runType = "Proof"}),
      runtime   |-> Total(found, LAMBDA r : OrZero(DurationS(r))),
      material  |-> MaterialSummary(k),
      byMachine |-> ByMachine(found)]

\* Mutant: the sheets of a grade are rounded once, over its sum of pages.
MutPaperUsageRoundsOnce(f) ==
  LET grades == Groups({p \in Drawn : Matches(p[2], [f EXCEPT !.q = {}])},
                       LAMBDA p : <<p[1].name, p[1].format>>)
  IN {[sheets |-> Sheets([simplex |-> Total(g, LAMBDA p : p[1].simplex),
                          duplex  |-> Total(g, LAMBDA p : p[1].duplex)]),
       grade  |-> <<(CHOOSE p \in g : TRUE)[1].name, (CHOOSE p \in g : TRUE)[1].format>>] :
      g \in grades}

\* Sheets per paper grade; a grade nothing was drawn of is left out.
PaperUsage(f) ==
  LET found(p) == f.q = {} \/ {<<p[1].name>>, <<p[1].format>>} \cap f.q # {}
      rows     == {p \in Drawn : Matches(p[2], [f EXCEPT !.q = {}]) /\ found(p)}
  IN {g \in {[grade   |-> <<(CHOOSE p \in g : TRUE)[1].name, (CHOOSE p \in g : TRUE)[1].format>>,
              simplex |-> Total(g, LAMBDA p : p[1].simplex),
              duplex  |-> Total(g, LAMBDA p : p[1].duplex),
              sheets  |-> Total(g, LAMBDA p : Sheets(p[1])),
              rows    |-> Cardinality(g),
              jobs    |-> Cardinality({Key(p[2]) : p \in g} \ {NoKey}),
              first   |-> Min({p[2].startdate : p \in g}),
              last    |-> Max({p[2].startdate : p \in g})] :
             g \in Groups(rows, LAMBDA p : <<p[1].name, p[1].format>>)} : g.sheets > 0}

UnassignedEntry(rows) ==
  With(Figures(rows),
   [machine |-> (CHOOSE r \in rows : TRUE).machine,
    jobname |-> (CHOOSE r \in rows : TRUE).jobname,
    jobtype |-> (CHOOSE r \in rows : TRUE).jobtype])

UnassignedRuns(f) ==
  {UnassignedEntry(rows) : rows \in Groups({r \in Cls(f) : r.key = NoKey},
                                           LAMBDA r : <<r.machine, r.jobname, r.jobtype>>)}

OfSystem(f) == [f EXCEPT !.jobtype = "SYSTEM"]

OwnUseEntry(rows) ==
  With(Figures(rows),
   [machine |-> (CHOOSE r \in rows : TRUE).machine,
    jobname |-> (CHOOSE r \in rows : TRUE).jobname,
    days    |-> Cardinality(Days0(rows)),
    lastTs  |-> Max({Ts(r) : r \in rows})])

OwnUse(f) ==
  {OwnUseEntry(rows) : rows \in Groups(Cls(OfSystem(f)), LAMBDA r : <<r.machine, r.jobname>>)}

\* Only runs with a start date have a month.
ByMonth(rows) ==
  Groups({r \in rows : r.startdate # Empty}, LAMBDA r : Month(r.startdate))

OwnUseMonths(f) ==
  {[month  |-> Month((CHOOSE r \in rows : TRUE).startdate),
    runs   |-> Cardinality(rows),
    clicks |-> Total(rows, Clicks),
    sheets |-> Total(rows, LAMBDA r : r.sheets)] : rows \in ByMonth(Cls(OfSystem(f)))}

MonthEntry(rows) ==
  With(Figures(rows),
   [month      |-> Month((CHOOSE r \in rows : TRUE).startdate),
    jobs       |-> Cardinality({r.key : r \in Keyed(rows)}),
    own        |-> Total({r \in rows : r.jobtype = "SYSTEM"}, Clicks),
    unassigned |-> Total({r \in rows : r.key = NoKey /\ r.jobtype # "SYSTEM"}, Clicks)])

MonthlyStats(f) == {MonthEntry(rows) : rows \in ByMonth(Cls(f))}

DateLimits ==
  LET dated == {r.startdate : r \in jobs} \ {Empty}
  IN IF dated = {} THEN <<Empty, Empty>> ELSE <<Min(dated), Max(dated)>>

-----------------------------------------------------------------------------
(* Properties.                                                             *)

CONSTANT Filters         \* the filters that are asked for

ASSUME FiltersAssumption ==
  \A f \in Filters : DOMAIN f = DOMAIN NoFilter /\ {f.from, f.to} \subseteq Dates

Detail == {JobDetail(k) : k \in {Key(r) : r \in jobs} \ {NoKey}}

\* A filter shows part of a job and classifies its runs anew from that part
\* (_RUN_TYPE_SQL over j): it may take a proof for a single copy when the
\* production run is hidden, never a single copy or a production run for a proof.
FilterOnlyDemotes ==
  \A f \in Filters : \A r \in Cls(f) :
    \E whole \in Cls(NoFilter) :
      /\ SameRun(r, whole)
      /\ r.runType = whole.runType \/ (r.runType = "Single" /\ whole.runType = "Proof")

\* A run that a filter selects is one row of the report: the sheets of a run are
\* summed before they are joined (sheets_cte), so no join fans a run out or drops
\* it, whatever job ids and lines the presses have in common.
OneRowPerRun ==
  \A f \in Filters :
    LET rows == Cls(f) IN
    \A r \in {r \in jobs : Matches(r, f)} :
      \E row \in rows : {x \in rows : SameRun(x, r)} = {row}

\* The sheets of the paper page are the sheets of the runs it covers (SHEETS of
\* a media row, SUM(sheets) of a run), and so is the material of a job: nothing
\* is lost in the joins or fanned out over the presses, and pages are rounded
\* up to sheets per row on every path.
PaperAgreesWithRuns ==
  /\ \A f \in {f \in Filters : f.q = {}} :
       Total(PaperUsage(f), LAMBDA g : g.sheets) = Total(Cls(f), LAMBDA r : r.sheets)
  /\ \A d \in Detail :
       /\ d.sheets = Total(d.material, LAMBDA g : g.sheets)
       /\ \A i \in DOMAIN d.rows : SheetsOf(d.rows[i].media) = d.rows[i].sheets

\* The list takes a job for unfinished exactly when the last row of its own page
\* is (reports.py: "Ordered like job_detail()"), unless two presses tie for it.
LastRunDecides ==
  \A e \in JobList(NoFilter) :
    LET d == JobDetail(e.key)
        last == d.rows[Len(d.rows)]
    IN Cardinality(e.unfinished) = 1 => e.unfinished = {~last.done}

\* The pause before a run counts from the end of the run before it, the end its
\* duration is taken with (job_detail.html: "Pause is the time since the end of
\* the previous run of this job").
PauseFollowsRun ==
  \A d \in Detail : \A i \in 2 .. Len(d.rows) :
    LET before == d.rows[i - 1]
    IN d.rows[i].pause # NoTime /\ before.runtime # NoTime
       => d.rows[i].pause = ParseStamp(d.rows[i].startdate, d.rows[i].starttime)
                            - ParseStamp(CompletedDate(before), before.readytime)
=============================================================================
