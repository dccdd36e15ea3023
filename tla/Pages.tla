-------------------------------- MODULE Pages --------------------------------
(***************************************************************************)
(* The reading routes of pressledger/web/app.py: what a page or an API     *)
(* answer is made of, and the links from one page to the next with the     *)
(* parameters they carry.  A request has the fields of a filter; a link is *)
(* a request too.  Rendering, sorting and the language are left out.       *)
(***************************************************************************)
EXTENDS Reports

CONSTANT Configured      \* presses of the configuration; others may have data

JobTypes == {"IP", "SYSTEM", "AP"}

\* A press that is not configured is dropped from a request.
MachineParam(req) ==
  IF req.machine \in Configured THEN req ELSE [req EXCEPT !.machine = ""]

Sum(rows, field) == Total(rows, LAMBDA r : OrZero(r[field]))

\* Mutant: the link to the unassigned runs forgets the press.
MutListCtxUnassignedOfAllPresses(req) ==
  LET list == JobList(req)
      span == [NoFilter EXCEPT !.q = req.q, !.from = req.from, !.to = req.to,
                               !.machine = req.machine]
  IN [jobs          |-> list,
      keyless       |-> KeylessClicks(req),
      unassignedUrl |-> [span EXCEPT !.jobtype = req.jobtype, !.machine = ""],
      ownUrl        |-> span,
      totals |-> [c \in {"clicks", "sets", "sheets", "runtime", "proofs"} |-> Sum(list, c)]]

\* The job list, what it cannot show, and where that is shown.
ListCtx(req) ==
  LET list == JobList(req)
      span == [NoFilter EXCEPT !.q = req.q, !.from = req.from, !.to = req.to,
                               !.machine = req.machine]
  IN [jobs          |-> list,
      keyless       |-> KeylessClicks(req),
      unassignedUrl |-> [span EXCEPT !.jobtype = req.jobtype],
      ownUrl        |-> span,
      limits        |-> DateLimits,
      totals |-> [c \in {"clicks", "sets", "sheets", "runtime", "proofs"} |-> Sum(list, c)]]

PaperCtx(req) ==
  LET grades == PaperUsage(req)
  IN [grades |-> grades, limits |-> DateLimits,
      totals |-> [c \in {"sheets", "simplex", "duplex", "rows"} |-> Sum(grades, c)]]

UnassignedCtx(req) ==
  LET known == IF req.jobtype \in JobTypes THEN req.jobtype ELSE ""
      rows  == UnassignedRuns([req EXCEPT !.jobtype = known, !.exclude = "SYSTEM"])
  IN [rows |-> rows, limits |-> DateLimits,
      totals |-> [c \in {"clicks", "sheets"} |-> Sum(rows, c)]]

OwnUseCtx(req) ==
  LET rows == OwnUse(req)
  IN [rows |-> rows, months |-> OwnUseMonths(req), limits |-> DateLimits,
      totals |-> [c \in {"rows", "clicks", "sheets"} |-> Sum(rows, c)]]

FirstDay(month) == month * MonthLength + 1
LastDay(month)  == FirstDay(month) + MonthLength - 1

\* Mutant: the month is not narrowed to the filter of the page.
MutMonthRangeWhole(month, from, to) == <<FirstDay(month), LastDay(month)>>

\* The days of a month within the filter of the page.
MonthRange(month, from, to) ==
  <<Max({FirstDay(month), from}), Min({LastDay(month), IF to = Empty THEN LastDay(month) ELSE to})>>

StatisticsCtx(req) ==
  LET months == MonthlyStats(req)
      span(m) == LET range == MonthRange(m.month, req.from, req.to)
                 IN [NoFilter EXCEPT !.from = range[1], !.to = range[2], !.machine = req.machine]
  IN [months |-> {With(m, [jobsUrl       |-> span(m),
                           unassignedUrl |-> span(m),
                           ownUrl        |-> span(m)]) : m \in months},
      limits |-> DateLimits,
      totals |-> [c \in {"clicks", "unassigned", "own", "sheets", "runtime"} |-> Sum(months, c)]]

\* The routes, with and without the /table partial of each page.
JobsPage(req)       == ListCtx(MachineParam(req))
PaperPage(req)      == PaperCtx(MachineParam(req))
UnassignedPage(req) == UnassignedCtx(MachineParam(req))
OwnUsePage(req)     == OwnUseCtx(MachineParam(req))
StatisticsPage(req) == StatisticsCtx(MachineParam(req))

\* The page of a job; 404 without runs.
JobDetailView(k) == JobDetail(k)

ApiJobs(req) ==
  LET list == JobList(MachineParam(req))
  IN [count |-> Cardinality(list), clicks |-> Sum(list, "clicks"), jobs |-> list]

ApiPaper(req) ==
  LET grades == PaperUsage(MachineParam(req))
  IN [count |-> Cardinality(grades), sheets |-> Sum(grades, "sheets"), grades |-> grades]

-----------------------------------------------------------------------------
Requests == {f \in Filters : f.exclude = ""}

\* A request of the list page, whose URL has no result.
ListRequests == {f \in Requests : f.result = ""}

\* The runs a request is about.
Asked(req) == {r \in jobs : Matches(r, MachineParam(req))}

\* "together": the job list, the own use and the unassigned clicks below it are
\* every click the filter selects, each once, grouped or not
\* (reports.py, keyless_clicks; _jobs_figures.html).
ClicksPartition ==
  \A req \in ListRequests :
    LET page == JobsPage(req)
    IN page.totals["clicks"] + page.keyless.own + page.keyless.unassigned
       = Total(Asked(req), Clicks)

\* The unassigned figure of the job list is the total of the page it links to,
\* the own use one too where no run of the press itself has a key.
KeylessLinks ==
  \A req \in {r \in ListRequests : r.jobtype \in JobTypes \cup {""}} :
    LET page == JobsPage(req)
        own  == OwnUsePage(page.ownUrl)
    IN /\ UnassignedPage(page.unassignedUrl).totals["clicks"] = page.keyless.unassigned
       /\ req.jobtype \in {"", "SYSTEM"}
          /\ (\A r \in Asked(req) : r.jobtype = "SYSTEM" => Key(r) = NoKey)
          => own.totals["clicks"] = page.keyless.own

\* A row of the statistics says what its three links show, for the part of the
\* month the page is narrowed to (_month_range), and its own and unassigned
\* clicks are part of its clicks.  The own use page has the same months.
MonthLinksAgree ==
  \A req \in {r \in ListRequests : r.q = {} /\ r.jobtype = ""} :
    \A m \in StatisticsPage(req).months :
      LET page == JobsPage(m.jobsUrl)
          own  == {o \in OwnUsePage(req).months : o.month = m.month}
      IN /\ m.clicks = page.totals["clicks"] + page.keyless.own + page.keyless.unassigned
         /\ m.jobs = Cardinality(page.jobs)
         /\ m.own = OwnUsePage(m.ownUrl).totals["clicks"]
         /\ m.unassigned = UnassignedPage(m.unassignedUrl).totals["clicks"]
         /\ m.own = Sum(own, "clicks") /\ m.own + m.unassigned <= m.clicks

\* Both readers take the stamps of the runs of a job alike, under a press those
\* of its runs there.
StampsAlike(k, m) == \A r \in jobs : Key(r) = k /\ m \in {"", r.machine} => ReadAlike(r)

\* A job of the unfiltered list has the figures of its own page, and under a
\* press the figures that page gives for the press: one is summed in SQL, the
\* other in Python (_by_machine, duration_s).  The runtimes agree where no stamp
\* of the job's runs is read by SQLite or by Python alone; they differ otherwise.
ListAgreesWithDetail ==
  \A m \in Configured \cup {""} :
    \A e \in ApiJobs([NoFilter EXCEPT !.machine = m]).jobs :
      LET d == JobDetailView(e.key) IN
      IF m = ""
      THEN /\ e.clicks = d.clicks /\ e.sets = d.sets /\ e.sheets = d.sheets
           /\ e.bw = d.bw /\ e.colour = d.colour /\ e.proofs = d.proofs
           /\ e.rows = Len(d.rows)
           /\ (StampsAlike(e.key, m) => OrZero(e.runtime) = d.runtime)
           /\ e.first = Min(d.days) /\ e.last = Max(d.days)
           /\ e.machines = {b.machine : b \in d.byMachine}
      ELSE \E b \in d.byMachine :
           /\ b.machine = m
           /\ e.rows = b.runs /\ e.clicks = b.clicks /\ e.sheets = b.sheets
           /\ e.sets = b.sets
           /\ (StampsAlike(e.key, m) => OrZero(e.runtime) = b.runtime)
           /\ e.firstTs = b.firstTs /\ e.last = b.last
=============================================================================
