----------------------------- MODULE PageProofs -----------------------------
(***************************************************************************)
(* What the pages make of the reports: every click once, one figure where  *)
(* two pages show it, and the page of a job after its entry in the list.   *)
(***************************************************************************)
EXTENDS ReportProofs

-----------------------------------------------------------------------------
(* The job list and the figures below it.                                  *)

\* Entries made of the groups of some rows, with the sum of their clicks, have
\* the clicks of these rows.
LEMMA EntriesHaveTheClicks ==
  ASSUME NEW R, IsFiniteSet(R), \A x \in R : Clicks(x) \in Int,
         NEW E, NEW phi \in [R -> E], \A e \in E : \E x \in R : phi[x] = e,
         \A e \in E : e.clicks = Total({x \in R : phi[x] = e}, Clicks)
  PROVE  Sum(E, "clicks") = Total(R, Clicks)
<1>. DEFINE g == [x \in R |-> Clicks(x)]
            h == [e \in E |-> OrZero(e["clicks"])]
<1>1. g \in [R -> Int]
  OBVIOUS
<1>2. IsFiniteSet(E)
  <2>1. IsFiniteSet(DOMAIN phi)
    OBVIOUS
  <2>2. IsFiniteSet({phi[x] : x \in DOMAIN phi})
    BY <2>1, ImageFinite
  <2>3. {phi[x] : x \in DOMAIN phi} = E
    OBVIOUS
  <2>. QED  BY <2>2, <2>3
<1>3. ASSUME NEW e \in E PROVE h[e] = SumAt(g, {x \in R : phi[x] = e}) /\ h[e] \in Int
  <2>1. PICK own \in SUBSET R : own = {x \in R : phi[x] = e}
    OBVIOUS
  <2>2. PICK c : c = [x \in own |-> Clicks(x)]
    OBVIOUS
  <2>3. IsFiniteSet(own) /\ c \in [own -> Int] /\ DOMAIN c = own
    BY <2>2, FS_Subset
  <2>4. e.clicks = SumAt(c, own)
    BY <2>1, <2>2, <2>3, SumIsSumAt DEF Total
  <2>5. \A x \in own : c[x] = g[x]
    BY <2>2
  <2>6. SumAt(c, own) = SumAt(g, own)
    <3>. HIDE DEF g
    <3>. QED  BY <1>1, <2>3, <2>5, SumAgrees
  <2>7. SumAt(g, own) \in Int
    <3>. HIDE DEF g
    <3>. QED  BY <1>1, SumAnyOrder
  <2>8. h[e] = SumAt(g, own)
    <3>1. e.clicks = SumAt(g, own)
      BY <2>4, <2>6
    <3>. HIDE DEF g
    <3>2. OrZero(e.clicks) = e.clicks
      BY <2>7, <3>1, NoTimeAssumption DEF OrZero
    <3>. QED  BY <3>1, <3>2
  <2>. HIDE DEF g, h
  <2>. QED  BY <2>1, <2>7, <2>8
<1>4. h \in [E -> Int]
  <2>. HIDE DEF g
  <2>. QED  BY <1>3
<1>5. SumFunction(h) = SumFunction(g)
  <2>. HIDE DEF g, h
  <2>. QED  BY <1>1, <1>2, <1>3, <1>4, SumOfGroups
<1>6. Total(R, Clicks) = SumFunction(g)
  BY DEF Total
<1>7. Sum(E, "clicks") = SumFunction(h)
  BY DEF Total, Sum
<1>. QED  BY <1>5, <1>6, <1>7

LEMMA RowsHaveClicks ==
  ASSUME TablesInv, NEW f, NEW x \in Cls(f)
  PROVE  Clicks(x) \in Int
<1>1. PICK r \in jobs : \A c \in Columns0 : x[c] = r[c]
  BY RunOfRow
<1>2. x.bw = r.bw /\ x.colour = r.colour
  BY <1>1 DEF Columns0
<1>. QED  BY <1>2, TypesOfTables DEF TablesTypeOK, Clicks

LEMMA JobEntrySays ==
  ASSUME NEW rows, NEW x \in rows, \A y \in rows : y.key = x.key, NEW e, e = JobEntry(rows)
  PROVE  /\ e.key = x.key /\ e.rows = Cardinality(rows)
         /\ e.clicks = ClicksOf(rows) /\ e.sets = SetsOf(rows) /\ e.sheets = SheetsOfRows(rows)
         /\ e.runtime = RuntimeOf(rows) /\ e.bw = BwOf(rows) /\ e.colour = ColourOf(rows)
         /\ e.proofs = ProofsOf(rows)
         /\ e.first = Min(Days0(rows)) /\ e.last = Max(Days0(rows))
         /\ e.firstTs = Min(StartsOf(rows)) /\ e.machines = MachinesOf(rows)
         /\ e.unfinished = UnfinishedOf(rows)
<1>1. (CHOOSE r \in rows : TRUE).key = x.key
  OBVIOUS
<1>2. PICK fig : fig = Figures(rows)
  OBVIOUS
<1>3. DOMAIN fig = {"rows", "clicks", "sets", "sheets", "runtime", "bw", "colour", "proofs",
                    "first", "last"}
  BY <1>2 DEF Figures
<1>4. /\ fig.rows = Cardinality(rows)
      /\ fig.clicks = ClicksOf(rows) /\ fig.sets = SetsOf(rows) /\ fig.sheets = SheetsOfRows(rows)
      /\ fig.runtime = RuntimeOf(rows) /\ fig.bw = BwOf(rows) /\ fig.colour = ColourOf(rows)
      /\ fig.proofs = ProofsOf(rows)
      /\ fig.first = Min(Days0(rows)) /\ fig.last = Max(Days0(rows))
  BY <1>2 DEF Figures, ClicksOf, SetsOf, SheetsOfRows, RuntimeOf, BwOf, ColourOf, ProofsOf
<1>5. PICK more : more =
   [key         |-> (CHOOSE r \in rows : TRUE).key,
    firstTs     |-> Min({Ts(r) : r \in rows}),
    lastTs      |-> Max({EndTs(r) : r \in rows}),
    proofClicks |-> Total({r \in rows : r.runType = "Proof"}, Clicks),
    notDone     |-> Cardinality({r \in rows : ~Finished(r)}),
    unfinished  |-> {~Finished(l) : l \in UNION {r.last : r \in rows}},
    names       |-> {r.jobname : r \in rows} \ {""},
    machines    |-> {r.machine : r \in rows}]
  OBVIOUS
<1>6. e = With(fig, more)
  BY <1>2, <1>5 DEF JobEntry
<1>7. \A c \in DOMAIN fig : e[c] = fig[c]
  BY <1>6 DEF With
<1>8. \A c \in {"key", "firstTs", "unfinished", "machines"} : e[c] = more[c]
  BY <1>3, <1>5, <1>6 DEF With
<1>9. /\ e.rows = fig.rows /\ e.clicks = fig.clicks /\ e.sets = fig.sets /\ e.sheets = fig.sheets
      /\ e.runtime = fig.runtime /\ e.bw = fig.bw /\ e.colour = fig.colour
      /\ e.proofs = fig.proofs /\ e.first = fig.first /\ e.last = fig.last
  BY <1>3, <1>7
<1>10. /\ e.key = x.key /\ e.firstTs = Min(StartsOf(rows)) /\ e.machines = MachinesOf(rows)
       /\ e.unfinished = UnfinishedOf(rows)
  BY <1>1, <1>5, <1>8 DEF StartsOf, MachinesOf, UnfinishedOf, NotDone
<1>. QED  BY <1>4, <1>9, <1>10

LEMMA JobListHasTheClicks ==
  ASSUME TablesInv, NEW f
  PROVE  Sum(JobList(f), "clicks") = Total(Keyed(Cls(f)), Clicks)
<1>1. PICK R \in SUBSET Cls(f) : R = Keyed(Cls(f))
  BY DEF Keyed
<1>. DEFINE Own(k) == {x \in R : x.key = k}
            phi == [x \in R |-> JobEntry(Own(x.key))]
<1>2. JobList(f) = {JobEntry(Own(k)) : k \in {x.key : x \in R}}
  BY <1>1 DEF JobList, Groups
<1>3. ASSUME NEW x \in R
      PROVE  phi[x].key = x.key /\ phi[x].clicks = Total(Own(x.key), Clicks)
  <2>1. PICK own : own = Own(x.key)
    OBVIOUS
  <2>2. x \in own /\ \A y \in own : y.key = x.key
    BY <2>1
  <2>3. PICK e : e = JobEntry(own)
    OBVIOUS
  <2>4. e.key = x.key /\ e.clicks = Total(own, Clicks)
    BY <2>2, <2>3, JobEntrySays DEF ClicksOf
  <2>. QED  BY <2>1, <2>3, <2>4
<1>4. PICK E : E = JobList(f)
  OBVIOUS
<1>5. phi \in [R -> E] /\ \A e \in E : \E x \in R : phi[x] = e
  BY <1>2, <1>4
<1>6. ASSUME NEW e \in E PROVE e.clicks = Total({x \in R : phi[x] = e}, Clicks)
  <2>1. PICK x \in R : phi[x] = e
    BY <1>5
  <2>2. \A y \in R : phi[y] = e <=> y.key = x.key
    <3>1. \A y \in R : y.key = x.key => phi[y] = phi[x]
      OBVIOUS
    <3>. HIDE DEF phi
    <3>. QED  BY <1>3, <2>1, <3>1
  <2>3. {y \in R : phi[y] = e} = Own(x.key)
    <3>. HIDE DEF phi
    <3>. QED  BY <2>2
  <2>. HIDE DEF phi
  <2>. QED  BY <1>3, <2>1, <2>3
<1>7. IsFiniteSet(R) /\ \A x \in R : Clicks(x) \in Int
  BY ClsFinite, RowsHaveClicks, FS_Subset
<1>. HIDE DEF phi
<1>8. Sum(E, "clicks") = Total(R, Clicks)
  BY <1>5, <1>6, <1>7, EntriesHaveTheClicks
<1>. QED  BY <1>1, <1>4, <1>8
LEMMA ClicksOfParts ==
  ASSUME NEW R, IsFiniteSet(R), \A x \in R : Clicks(x) \in Int,
         NEW A \in SUBSET R, NEW B \in SUBSET R, A \cap B = {}
  PROVE  /\ ClicksOf(A \cup B) = ClicksOf(A) + ClicksOf(B)
         /\ ClicksOf(A) \in Int
<1>. DEFINE g == [x \in R |-> Clicks(x)]
<1>1. g \in [R -> Int]
  OBVIOUS
<1>2. ASSUME NEW S \in SUBSET R PROVE ClicksOf(S) = SumAt(g, S)
  <2>1. PICK c : c = [x \in S |-> Clicks(x)]
    OBVIOUS
  <2>2. IsFiniteSet(S) /\ c \in [S -> Int] /\ DOMAIN c = S /\ \A x \in S : c[x] = g[x]
    BY <2>1, FS_Subset
  <2>3. SumAt(c, S) = SumAt(g, S)
    <3>. HIDE DEF g
    <3>. QED  BY <1>1, <2>2, SumAgrees
  <2>. HIDE DEF g
  <2>. QED  BY <2>1, <2>2, <2>3, SumIsSumAt DEF Total, ClicksOf
<1>3. SumAt(g, A \cup B) = SumAt(g, A) + SumAt(g, B) /\ SumAt(g, A) \in Int
  <2>. HIDE DEF g
  <2>. QED  BY <1>1, SumUnion, SumAnyOrder
<1>. HIDE DEF g
<1>4. A \cup B \in SUBSET R
  OBVIOUS
<1>. QED  BY <1>2, <1>3, <1>4

\* The rows of a report have the clicks of the runs it selects.
LEMMA ReportHasTheClicks ==
  ASSUME TablesInv, NEW f
  PROVE  Total(Cls(f), Clicks) = Total({r \in jobs : Matches(r, f)}, Clicks)
<1>1. PICK P \in SUBSET jobs : P = {r \in jobs : Matches(r, f)}
  OBVIOUS
<1>2. \A x \in Cls(f) : \E r \in P : SameRun(x, r)
  BY <1>1, RunOfRow
<1>3. \A r \in P : \E x \in Cls(f) : SameRun(x, r)
  BY <1>1, RowOfRun
<1>. QED  BY <1>1, <1>2, <1>3, ClicksOverRuns

LEMMA PageHasTheClicks ==
  ASSUME TablesInv, NEW req
  PROVE  JobsPage(req).totals["clicks"] + JobsPage(req).keyless.own
           + JobsPage(req).keyless.unassigned
         = ClicksOf(Asked(req))
<1>1. PICK q : q = MachineParam(req)
  OBVIOUS
<1>2. PICK R : R = Cls(q)
  OBVIOUS
<1>3. PICK K \in SUBSET R, O \in SUBSET R, U \in SUBSET R :
           /\ K = Keyed(R)
           /\ O = {r \in {r \in R : r.key = NoKey} : r.jobtype = "SYSTEM"}
           /\ U = {r \in {r \in R : r.key = NoKey} : r.jobtype # "SYSTEM"}
  BY DEF Keyed
<1>4. JobsPage(req).totals["clicks"] = Total(K, Clicks)
  <2>1. JobsPage(req).totals["clicks"] = Sum(JobList(q), "clicks")
    BY <1>1 DEF JobsPage, ListCtx
  <2>. QED  BY <1>2, <1>3, <2>1, JobListHasTheClicks
<1>5. JobsPage(req).keyless.own = Total(O, Clicks)
      /\ JobsPage(req).keyless.unassigned = Total(U, Clicks)
  <2>1. JobsPage(req).keyless = KeylessClicks(q)
    BY <1>1 DEF JobsPage, ListCtx
  <2>. QED  BY <1>2, <1>3, <2>1 DEF KeylessClicks
<1>6. IsFiniteSet(R) /\ \A x \in R : Clicks(x) \in Int
  BY <1>2, ClsFinite, RowsHaveClicks
<1>7. K \cap O = {} /\ (K \cup O) \cap U = {} /\ (K \cup O) \cup U = R /\ K \cup O \in SUBSET R
  BY <1>3 DEF Keyed
<1>8. ClicksOf(R) = ClicksOf(K) + ClicksOf(O) + ClicksOf(U)
  <2>1. ClicksOf(K \cup O) = ClicksOf(K) + ClicksOf(O)
    BY <1>6, <1>7, ClicksOfParts
  <2>2. PICK V \in SUBSET R : V = K \cup O
    BY <1>7
  <2>3. V \cap U = {} /\ V \cup U = R
    BY <1>7, <2>2
  <2>4. ClicksOf(V \cup U) = ClicksOf(V) + ClicksOf(U)
    BY <1>6, <2>3, ClicksOfParts
  <2>. QED  BY <2>1, <2>2, <2>3, <2>4
<1>9. Total(R, Clicks) = Total(Asked(req), Clicks)
  BY <1>1, <1>2, ReportHasTheClicks DEF Asked
<1>. QED  BY <1>4, <1>5, <1>8, <1>9 DEF ClicksOf

\* The job list, the own use and the unassigned clicks below it have every click
\* of the filter, each once, for any tables the imports can have built and with
\* the grouping on or off.
THEOREM EveryClickOnce == Spec => []ClicksPartition
<1>1. TablesInv => ClicksPartition
  BY PageHasTheClicks DEF ClicksPartition, ClicksOf
<1>. QED  BY <1>1, TablesHoldTheLog, PTL

-----------------------------------------------------------------------------
(* The pages the job list links to.                                        *)

\* Some rows of a report and the runs they stand for, picked by key and type.
LEMMA PickedPairs ==
  ASSUME TablesInv, NEW f, NEW R \in SUBSET Cls(f), NEW P \in SUBSET jobs,
         \A r \in P : Matches(r, f),
         \A x \in Cls(f), r \in jobs :
           /\ Matches(r, f) /\ SameRun(x, r) /\ x.key = Key(r) /\ x.jobtype = r.jobtype
           /\ x.startdate = r.startdate
           => (x \in R <=> r \in P)
  PROVE  /\ \A x \in R : \E r \in P : SameRun(x, r) /\ x.key = Key(r)
         /\ \A r \in P : \E x \in R : SameRun(x, r) /\ x.key = Key(r)
<1>1. ASSUME NEW x \in Cls(f)
      PROVE  \E r \in jobs : /\ Matches(r, f) /\ SameRun(x, r)
                             /\ x.key = Key(r) /\ x.jobtype = r.jobtype
                             /\ x.startdate = r.startdate
  BY RunOfRow DEF Columns0
<1>2. \A x \in R : \E r \in P : SameRun(x, r) /\ x.key = Key(r)
  BY <1>1
<1>3. ASSUME NEW r \in P PROVE \E x \in R : SameRun(x, r) /\ x.key = Key(r)
  <2>1. PICK x \in Cls(f) : {y \in Cls(f) : SameRun(y, r)} = {x}
    BY RowOfRun
  <2>2. PICK q \in jobs : /\ Matches(q, f) /\ SameRun(x, q)
                          /\ x.key = Key(q) /\ x.jobtype = q.jobtype
                          /\ x.startdate = q.startdate
    BY <1>1
  <2>3. SameRun(x, r)
    BY <2>1
  <2>4. q = r
    BY <2>2, <2>3, RunIsOne
  <2>. QED  BY <2>2, <2>3, <2>4
<1>. QED  BY <1>2, <1>3

LEMMA ClicksOfPicked ==
  ASSUME TablesInv, NEW f, NEW R \in SUBSET Cls(f), NEW P \in SUBSET jobs,
         \A r \in P : Matches(r, f),
         \A x \in Cls(f), r \in jobs :
           /\ Matches(r, f) /\ SameRun(x, r) /\ x.key = Key(r) /\ x.jobtype = r.jobtype
           /\ x.startdate = r.startdate
           => (x \in R <=> r \in P)
  PROVE  ClicksOf(R) = ClicksOf(P)
<1>1. /\ \A x \in R : \E r \in P : SameRun(x, r) /\ x.key = Key(r)
      /\ \A r \in P : \E x \in R : SameRun(x, r) /\ x.key = Key(r)
  BY PickedPairs
<1>2. /\ \A x \in R : \E r \in P : SameRun(x, r)
      /\ \A r \in P : \E x \in R : SameRun(x, r)
  BY <1>1
<1>. QED  BY <1>2, ClicksOverRuns DEF ClicksOf

LEMMA KeysOfPicked ==
  ASSUME TablesInv, NEW f, NEW R \in SUBSET Cls(f), NEW P \in SUBSET jobs,
         \A r \in P : Matches(r, f),
         \A x \in Cls(f), r \in jobs :
           /\ Matches(r, f) /\ SameRun(x, r) /\ x.key = Key(r) /\ x.jobtype = r.jobtype
           /\ x.startdate = r.startdate
           => (x \in R <=> r \in P)
  PROVE  {x.key : x \in R} = {Key(r) : r \in P}
<1>1. /\ \A x \in R : \E r \in P : x.key = Key(r)
      /\ \A r \in P : \E x \in R : x.key = Key(r)
  BY PickedPairs
<1>. QED  BY <1>1

LEMMA UnassignedEntrySays ==
  ASSUME NEW rows, NEW x \in rows,
         \A y \in rows : <<y.machine, y.jobname, y.jobtype>> = <<x.machine, x.jobname, x.jobtype>>
  PROVE  LET e == UnassignedEntry(rows)
         IN <<e.machine, e.jobname, e.jobtype>> = <<x.machine, x.jobname, x.jobtype>>
            /\ e.clicks = Total(rows, Clicks)
<1>1. PICK c \in rows : c = CHOOSE r \in rows : TRUE
  OBVIOUS
<1>2. PICK fig : fig = Figures(rows)
  OBVIOUS
<1>3. DOMAIN fig = {"rows", "clicks", "sets", "sheets", "runtime", "bw", "colour", "proofs",
                    "first", "last"}
      /\ fig.clicks = Total(rows, Clicks)
  BY <1>2 DEF Figures
<1>4. UnassignedEntry(rows).machine = c.machine /\ UnassignedEntry(rows).jobname = c.jobname
      /\ UnassignedEntry(rows).jobtype = c.jobtype
      /\ UnassignedEntry(rows).clicks = Total(rows, Clicks)
  BY <1>1, <1>2, <1>3 DEF UnassignedEntry, With
<1>. QED  BY <1>1, <1>4

LEMMA UnassignedHaveTheClicks ==
  ASSUME TablesInv, NEW f
  PROVE  Sum(UnassignedRuns(f), "clicks") = Total({r \in Cls(f) : r.key = NoKey}, Clicks)
<1>1. PICK R \in SUBSET Cls(f) : R = {r \in Cls(f) : r.key = NoKey}
  OBVIOUS
<1>. DEFINE By(x) == <<x.machine, x.jobname, x.jobtype>>
            Own(k) == {x \in R : By(x) = k}
            phi == [x \in R |-> UnassignedEntry(Own(By(x)))]
<1>2. UnassignedRuns(f) = {UnassignedEntry(Own(k)) : k \in {By(x) : x \in R}}
  BY <1>1 DEF UnassignedRuns, Groups
<1>3. ASSUME NEW x \in R
      PROVE  By(phi[x]) = By(x) /\ phi[x].clicks = Total(Own(By(x)), Clicks)
  <2>1. PICK own : own = Own(By(x))
    OBVIOUS
  <2>2. x \in own /\ \A y \in own : By(y) = By(x)
    BY <2>1
  <2>3. By(UnassignedEntry(own)) = By(x) /\ UnassignedEntry(own).clicks = Total(own, Clicks)
    BY <2>2, UnassignedEntrySays
  <2>. QED  BY <2>1, <2>3
<1>4. PICK E : E = UnassignedRuns(f)
  OBVIOUS
<1>5. phi \in [R -> E] /\ \A e \in E : \E x \in R : phi[x] = e
  BY <1>2, <1>4
<1>6. ASSUME NEW e \in E PROVE e.clicks = Total({x \in R : phi[x] = e}, Clicks)
  <2>1. PICK x \in R : phi[x] = e
    BY <1>5
  <2>2. \A y \in R : phi[y] = e <=> By(y) = By(x)
    <3>1. \A y \in R : By(y) = By(x) => phi[y] = phi[x]
      OBVIOUS
    <3>. HIDE DEF phi, By
    <3>. QED  BY <1>3, <2>1, <3>1
  <2>3. {y \in R : phi[y] = e} = Own(By(x))
    <3>. HIDE DEF phi, By
    <3>. QED  BY <2>2
  <2>. HIDE DEF phi, By
  <2>. QED  BY <1>3, <2>1, <2>3
<1>7. IsFiniteSet(R) /\ \A x \in R : Clicks(x) \in Int
  BY ClsFinite, RowsHaveClicks, FS_Subset
<1>. HIDE DEF phi
<1>8. Sum(E, "clicks") = Total(R, Clicks)
  BY <1>5, <1>6, <1>7, EntriesHaveTheClicks
<1>. QED  BY <1>1, <1>4, <1>8

LEMMA OwnUseEntrySays ==
  ASSUME NEW rows, NEW x \in rows,
         \A y \in rows : <<y.machine, y.jobname>> = <<x.machine, x.jobname>>
  PROVE  LET e == OwnUseEntry(rows)
         IN <<e.machine, e.jobname>> = <<x.machine, x.jobname>> /\ e.clicks = Total(rows, Clicks)
<1>1. PICK c \in rows : c = CHOOSE r \in rows : TRUE
  OBVIOUS
<1>2. PICK fig : fig = Figures(rows)
  OBVIOUS
<1>3. DOMAIN fig = {"rows", "clicks", "sets", "sheets", "runtime", "bw", "colour", "proofs",
                    "first", "last"}
      /\ fig.clicks = Total(rows, Clicks)
  BY <1>2 DEF Figures
<1>4. OwnUseEntry(rows).machine = c.machine /\ OwnUseEntry(rows).jobname = c.jobname
      /\ OwnUseEntry(rows).clicks = Total(rows, Clicks)
  BY <1>1, <1>2, <1>3 DEF OwnUseEntry, With
<1>. QED  BY <1>1, <1>4

LEMMA OwnUseHasTheClicks ==
  ASSUME TablesInv, NEW f
  PROVE  Sum(OwnUse(f), "clicks") = Total(Cls(OfSystem(f)), Clicks)
<1>1. PICK g : g = OfSystem(f)
  OBVIOUS
<1>2. PICK R : R = Cls(g)
  OBVIOUS
<1>. DEFINE By(x) == <<x.machine, x.jobname>>
            Own(k) == {x \in R : By(x) = k}
            phi == [x \in R |-> OwnUseEntry(Own(By(x)))]
<1>3. OwnUse(f) = {OwnUseEntry(Own(k)) : k \in {By(x) : x \in R}}
  BY <1>1, <1>2 DEF OwnUse, Groups
<1>4. ASSUME NEW x \in R
      PROVE  By(phi[x]) = By(x) /\ phi[x].clicks = Total(Own(By(x)), Clicks)
  <2>1. PICK own : own = Own(By(x))
    OBVIOUS
  <2>2. x \in own /\ \A y \in own : By(y) = By(x)
    BY <2>1
  <2>3. By(OwnUseEntry(own)) = By(x) /\ OwnUseEntry(own).clicks = Total(own, Clicks)
    BY <2>2, OwnUseEntrySays
  <2>. QED  BY <2>1, <2>3
<1>5. PICK E : E = OwnUse(f)
  OBVIOUS
<1>6. phi \in [R -> E] /\ \A e \in E : \E x \in R : phi[x] = e
  BY <1>3, <1>5
<1>7. ASSUME NEW e \in E PROVE e.clicks = Total({x \in R : phi[x] = e}, Clicks)
  <2>1. PICK x \in R : phi[x] = e
    BY <1>6
  <2>2. \A y \in R : phi[y] = e <=> By(y) = By(x)
    <3>1. \A y \in R : By(y) = By(x) => phi[y] = phi[x]
      OBVIOUS
    <3>. HIDE DEF phi, By
    <3>. QED  BY <1>4, <2>1, <3>1
  <2>3. {y \in R : phi[y] = e} = Own(By(x))
    <3>. HIDE DEF phi, By
    <3>. QED  BY <2>2
  <2>. HIDE DEF phi, By
  <2>. QED  BY <1>4, <2>1, <2>3
<1>8. IsFiniteSet(R) /\ \A x \in R : Clicks(x) \in Int
  BY <1>2, ClsFinite, RowsHaveClicks
<1>. HIDE DEF phi
<1>9. Sum(E, "clicks") = Total(R, Clicks)
  BY <1>6, <1>7, <1>8, EntriesHaveTheClicks
<1>. QED  BY <1>1, <1>2, <1>5, <1>9
LEMMA UnassignedPageClicks ==
  ASSUME TablesInv, NEW u, u = [c \in DOMAIN NoFilter |-> u[c]], MachineParam(u) = u,
         u.jobtype \in JobTypes \cup {""}, u.exclude = "",
         NEW P \in SUBSET jobs,
         P = {r \in jobs : Matches(r, u) /\ Key(r) = NoKey /\ r.jobtype # "SYSTEM"}
  PROVE  UnassignedPage(u).totals["clicks"] = ClicksOf(P)
<1>1. PICK g : g = [u EXCEPT !.jobtype = u.jobtype, !.exclude = "SYSTEM"]
  OBVIOUS
<1>2. /\ g.machine = u.machine /\ g.from = u.from /\ g.to = u.to /\ g.q = u.q
      /\ g.jobtype = u.jobtype /\ g.exclude = "SYSTEM" /\ g.result = u.result
  BY <1>1 DEF NoFilter
<1>3. UnassignedPage(u).totals["clicks"] = Sum(UnassignedRuns(g), "clicks")
  <2>1. (IF u.jobtype \in JobTypes THEN u.jobtype ELSE "") = u.jobtype
    OBVIOUS
  <2>. QED  BY <1>1, <2>1 DEF UnassignedPage, UnassignedCtx
<1>4. \A r \in jobs : Matches(r, g) <=> Matches(r, u) /\ r.jobtype # "SYSTEM"
  BY <1>2 DEF Matches
<1>5. PICK V \in SUBSET Cls(g) : V = {r \in Cls(g) : r.key = NoKey}
  OBVIOUS
<1>6. ClicksOf(V) = ClicksOf(P)
  <2>1. \A r \in P : Matches(r, g)
    BY <1>4
  <2>2. ASSUME NEW x \in Cls(g), NEW r \in jobs, Matches(r, g), SameRun(x, r),
               x.key = Key(r), x.jobtype = r.jobtype
        PROVE  x \in V <=> r \in P
    BY <2>2, <1>4, <1>5
  <2>3. TablesInv /\ V \in SUBSET Cls(g) /\ P \in SUBSET jobs
    OBVIOUS
  <2>. QED  BY ONLY <2>1, <2>2, <2>3, ClicksOfPicked
<1>. QED  BY <1>3, <1>5, <1>6, UnassignedHaveTheClicks DEF ClicksOf

LEMMA OwnUsePageClicks ==
  ASSUME TablesInv, NEW u, u = [c \in DOMAIN NoFilter |-> u[c]], MachineParam(u) = u,
         u.jobtype = "", u.exclude = "",
         NEW P \in SUBSET jobs, P = {r \in jobs : Matches(r, u) /\ r.jobtype = "SYSTEM"}
  PROVE  OwnUsePage(u).totals["clicks"] = ClicksOf(P)
<1>1. PICK g : g = OfSystem(u)
  OBVIOUS
<1>2. /\ g.machine = u.machine /\ g.from = u.from /\ g.to = u.to /\ g.q = u.q
      /\ g.jobtype = "SYSTEM" /\ g.exclude = "" /\ g.result = u.result
  BY <1>1 DEF NoFilter, OfSystem
<1>3. OwnUsePage(u).totals["clicks"] = Sum(OwnUse(u), "clicks")
  BY DEF OwnUsePage, OwnUseCtx
<1>4. \A r \in jobs : Matches(r, g) <=> Matches(r, u) /\ r.jobtype = "SYSTEM"
  BY <1>2 DEF Matches
<1>5. PICK R \in SUBSET Cls(g) : R = Cls(g)
  OBVIOUS
<1>6. ClicksOf(R) = ClicksOf(P)
  <2>1. \A r \in P : Matches(r, g)
    BY <1>4
  <2>2. ASSUME NEW x \in Cls(g), NEW r \in jobs, Matches(r, g) PROVE x \in R <=> r \in P
    BY <2>2, <1>4, <1>5
  <2>. QED  BY <2>1, <2>2, ClicksOfPicked
<1>. QED  BY <1>1, <1>3, <1>5, <1>6, OwnUseHasTheClicks DEF ClicksOf

\* A press that is dropped from a request stays dropped.
LEMMA ParamOfParam ==
  ASSUME NEW req \in Filters, NEW q, q = MachineParam(req), NEW u,
         u = [c \in DOMAIN NoFilter |-> u[c]], u.machine = q.machine
  PROVE  MachineParam(u) = u
<1>1. "machine" \in DOMAIN NoFilter /\ DOMAIN req = DOMAIN NoFilter
  BY FiltersAssumption DEF NoFilter
<1>2. q.machine \in Configured \/ q.machine = ""
  BY <1>1 DEF MachineParam
<1>3. CASE u.machine = "" /\ u.machine \notin Configured
  <2>1. PICK w : w = [u EXCEPT !.machine = ""]
    OBVIOUS
  <2>2. w = [c \in DOMAIN u |-> u[c]]
    BY <1>3, <2>1
  <2>. QED  BY <1>3, <2>1, <2>2 DEF MachineParam
<1>4. CASE u.machine \in Configured
  BY <1>4 DEF MachineParam
<1>. QED  BY <1>2, <1>3, <1>4

LEMMA LinksKeepTheClicks ==
  ASSUME TablesInv, NEW req \in ListRequests, req.jobtype \in JobTypes \cup {""}
  PROVE  LET page == JobsPage(req)
             own  == OwnUsePage(page.ownUrl)
         IN /\ UnassignedPage(page.unassignedUrl).totals["clicks"] = page.keyless.unassigned
            /\ req.jobtype \in {"", "SYSTEM"}
               /\ (\A r \in Asked(req) : r.jobtype = "SYSTEM" => Key(r) = NoKey)
               => own.totals["clicks"] = page.keyless.own
<1>1. PICK q : q = MachineParam(req)
  OBVIOUS
<1>2. /\ DOMAIN q = DOMAIN NoFilter
      /\ q.jobtype = req.jobtype /\ q.result = "" /\ q.exclude = ""
  <2>1. DOMAIN req = DOMAIN NoFilter /\ req.result = "" /\ req.exclude = ""
    BY FiltersAssumption DEF ListRequests, Requests
  <2>. QED  BY <1>1, <2>1 DEF MachineParam, NoFilter
<1>3. PICK span : span = [NoFilter EXCEPT !.q = q.q, !.from = q.from, !.to = q.to,
                                          !.machine = q.machine]
  OBVIOUS
<1>4. /\ span = [c \in DOMAIN NoFilter |-> span[c]] /\ span.machine = q.machine /\ span.from = q.from
      /\ span.to = q.to /\ span.q = q.q /\ span.jobtype = "" /\ span.exclude = ""
      /\ span.result = ""
  BY <1>3 DEF NoFilter
<1>5. PICK u : u = [span EXCEPT !.jobtype = q.jobtype]
  OBVIOUS
<1>6. /\ u = [c \in DOMAIN NoFilter |-> u[c]] /\ u.machine = q.machine /\ u.from = q.from
      /\ u.to = q.to /\ u.q = q.q /\ u.jobtype = q.jobtype /\ u.exclude = "" /\ u.result = ""
  BY <1>4, <1>5 DEF NoFilter
<1>7. MachineParam(u) = u /\ MachineParam(span) = span
  BY <1>1, <1>4, <1>6, ParamOfParam DEF ListRequests, Requests
<1>8. /\ JobsPage(req).keyless = KeylessClicks(q)
      /\ JobsPage(req).unassignedUrl = u /\ JobsPage(req).ownUrl = span
  BY <1>1, <1>3, <1>5 DEF JobsPage, ListCtx
<1>9. UnassignedPage(u).totals["clicks"] = KeylessClicks(q).unassigned
  <2>1. \A r \in jobs : Matches(r, u) <=> Matches(r, q)
    BY <1>2, <1>6 DEF Matches
  <2>2. PICK P \in SUBSET jobs :
             P = {r \in jobs : Matches(r, u) /\ Key(r) = NoKey /\ r.jobtype # "SYSTEM"}
    OBVIOUS
  <2>3. PICK U \in SUBSET Cls(q) :
             U = {r \in {r \in Cls(q) : r.key = NoKey} : r.jobtype # "SYSTEM"}
    OBVIOUS
  <2>4. ClicksOf(U) = ClicksOf(P)
    <3>1. \A r \in P : Matches(r, q)
      BY <2>1, <2>2
    <3>2. ASSUME NEW x \in Cls(q), NEW r \in jobs, Matches(r, q), SameRun(x, r),
                 x.key = Key(r), x.jobtype = r.jobtype
          PROVE  x \in U <=> r \in P
      BY <3>2, <2>1, <2>2, <2>3
    <3>. QED  BY <3>1, <3>2, ClicksOfPicked
  <2>5. UnassignedPage(u).totals["clicks"] = ClicksOf(P)
    BY <1>2, <1>6, <1>7, <2>2, UnassignedPageClicks
  <2>6. KeylessClicks(q).unassigned = ClicksOf(U)
    BY <2>3 DEF KeylessClicks, ClicksOf
  <2>. QED  BY <2>4, <2>5, <2>6
<1>10. ASSUME req.jobtype \in {"", "SYSTEM"},
              \A r \in Asked(req) : r.jobtype = "SYSTEM" => Key(r) = NoKey
       PROVE  OwnUsePage(span).totals["clicks"] = KeylessClicks(q).own
  <2>1. \A r \in jobs : r.jobtype = "SYSTEM" => (Matches(r, span) <=> Matches(r, q))
    BY <1>2, <1>4, <1>10 DEF Matches
  <2>2. PICK P \in SUBSET jobs : P = {r \in jobs : Matches(r, span) /\ r.jobtype = "SYSTEM"}
    OBVIOUS
  <2>3. \A r \in P : Key(r) = NoKey /\ Matches(r, q)
    BY <1>1, <1>10, <2>1, <2>2 DEF Asked
  <2>4. PICK O \in SUBSET Cls(q) :
             O = {r \in {r \in Cls(q) : r.key = NoKey} : r.jobtype = "SYSTEM"}
    OBVIOUS
  <2>5. ClicksOf(O) = ClicksOf(P)
    <3>1. ASSUME NEW x \in Cls(q), NEW r \in jobs, Matches(r, q), SameRun(x, r),
                 x.key = Key(r), x.jobtype = r.jobtype
          PROVE  x \in O <=> r \in P
      BY <3>1, <2>1, <2>2, <2>3, <2>4
    <3>. QED  BY <2>3, <3>1, ClicksOfPicked
  <2>6. OwnUsePage(span).totals["clicks"] = ClicksOf(P)
    BY <1>4, <1>7, <2>2, OwnUsePageClicks
  <2>7. KeylessClicks(q).own = ClicksOf(O)
    BY <2>4 DEF KeylessClicks, ClicksOf
  <2>. QED  BY <2>5, <2>6, <2>7
<1>. QED  BY <1>8, <1>9, <1>10

\* The pages the job list links to total the figures it shows for them, for any
\* tables the imports can have built.
THEOREM LinksShowTheFigure == Spec => []KeylessLinks
<1>1. TablesInv => KeylessLinks
  BY LinksKeepTheClicks DEF KeylessLinks, ListRequests, Requests
<1>. QED  BY <1>1, TablesHoldTheLog, PTL
-----------------------------------------------------------------------------
(* The months.                                                             *)

LEMMA MonthHasItsDays ==
  ASSUME NEW d \in Nat \ {0}, NEW k \in Nat
  PROVE  Month(d) = k <=> FirstDay(k) <= d /\ d <= LastDay(k)
<1>1. PICK n \in Nat \ {0} : n = MonthLength
  BY MonthAssumption
<1>2. PICK q \in Nat, r \in Nat : r < n /\ d - 1 = q * n + r /\ (d - 1) \div n = q
  <2>1. PICK a \in Nat : a = d - 1
    OBVIOUS
  <2>2. a \div n \in Nat
    BY <2>1
  <2>3. a % n \in 0 .. n - 1
    BY <2>1
  <2>4. a = n * (a \div n) + (a % n)
    BY <2>1
  <2>5. PICK q \in Nat, r \in Nat : q = a \div n /\ r = a % n
    BY <2>2, <2>3
  <2>6. n * q = q * n
    OBVIOUS
  <2>. QED  BY <2>1, <2>3, <2>4, <2>5, <2>6
<1>3. FirstDay(k) = k * n + 1 /\ LastDay(k) = k * n + n /\ Month(d) = q
  BY <1>1, <1>2 DEF FirstDay, LastDay, Month
<1>4. d = q * n + r + 1 /\ q * n \in Nat /\ k * n \in Nat
  BY <1>2
<1>5. CASE q = k
  BY <1>2, <1>3, <1>4, <1>5
<1>6. CASE q < k
  <2>1. PICK e \in Nat : k = q + 1 + e
    <3>1. k - q - 1 \in Nat
      BY <1>6
    <3>. QED  BY <3>1
  <2>2. k * n = q * n + n + e * n /\ e * n \in Nat
    BY <2>1
  <2>. QED  BY <1>2, <1>3, <1>4, <1>6, <2>2
<1>7. CASE q > k
  <2>1. PICK e \in Nat : q = k + 1 + e
    <3>1. q - k - 1 \in Nat
      BY <1>7
    <3>. QED  BY <3>1
  <2>2. q * n = k * n + n + e * n /\ e * n \in Nat
    BY <2>1
  <2>. QED  BY <1>2, <1>3, <1>4, <1>7, <2>2
<1>. QED  BY <1>5, <1>6, <1>7

LEMMA FirstOrSecond ==
  ASSUME NEW a \in Nat, NEW b \in Nat
  PROVE  /\ Max({a, b}) = IF a >= b THEN a ELSE b
         /\ Min({a, b}) = IF a <= b THEN a ELSE b
<1>1. \A c \in {a, b} : (\A y \in {a, b} : c >= y) <=> c = (IF a >= b THEN a ELSE b)
  OBVIOUS
<1>2. \A c \in {a, b} : (\A y \in {a, b} : c <= y) <=> c = (IF a <= b THEN a ELSE b)
  OBVIOUS
<1>. QED  BY <1>1, <1>2 DEF Max, Min

\* A link of a month selects the days of the month within the filter.
LEMMA RangeOfMonth ==
  ASSUME NEW k \in Nat, NEW from \in Nat, NEW to \in Nat, NEW d \in Nat
  PROVE  LET range == MonthRange(k, from, to)
         IN d >= range[1] /\ (range[2] = Empty \/ d <= range[2])
            <=> /\ d >= from /\ (to = Empty \/ d <= to)
                /\ d # Empty /\ Month(d) = k
<1>. DEFINE last == IF to = Empty THEN LastDay(k) ELSE to
<1>0. PICK a, b : a = MonthRange(k, from, to)[1] /\ b = MonthRange(k, from, to)[2]
  OBVIOUS
<1>1. FirstDay(k) \in Nat \ {0} /\ LastDay(k) \in Nat \ {0}
  <2>1. PICK n \in Nat \ {0} : n = MonthLength
    BY MonthAssumption
  <2>2. k * n \in Nat
    OBVIOUS
  <2>. QED  BY <2>1, <2>2 DEF FirstDay, LastDay
<1>2. last \in Nat \ {0}
  BY <1>1 DEF Empty
<1>3. a = Max({FirstDay(k), from}) /\ b = Min({LastDay(k), last})
  BY <1>0 DEF MonthRange
<1>4. a = IF FirstDay(k) >= from THEN FirstDay(k) ELSE from
  BY <1>1, <1>3, FirstOrSecond
<1>5. b = IF LastDay(k) <= last THEN LastDay(k) ELSE last
  BY <1>1, <1>2, <1>3, FirstOrSecond
<1>6. d # 0 => (Month(d) = k <=> FirstDay(k) <= d /\ d <= LastDay(k))
  BY MonthHasItsDays
<1>7. d >= a /\ (b = Empty \/ d <= b)
      <=> d >= from /\ (to = Empty \/ d <= to) /\ d # Empty /\ Month(d) = k
  BY <1>1, <1>2, <1>4, <1>5, <1>6 DEF Empty
<1>. QED  BY <1>0, <1>7

LEMMA MonthEntrySays ==
  ASSUME NEW rows, NEW x \in rows, \A y \in rows : Month(y.startdate) = Month(x.startdate)
  PROVE  /\ DOMAIN MonthEntry(rows) = {"rows", "clicks", "sets", "sheets", "runtime", "bw", "colour",
                                      "proofs", "first", "last", "month", "jobs", "own", "unassigned"}
         /\ MonthEntry(rows).month = Month(x.startdate)
         /\ MonthEntry(rows).clicks = ClicksOf(rows)
         /\ MonthEntry(rows).jobs = Cardinality({r.key : r \in Keyed(rows)})
         /\ MonthEntry(rows).own = ClicksOf({r \in rows : r.jobtype = "SYSTEM"})
         /\ MonthEntry(rows).unassigned
              = ClicksOf({r \in rows : r.key = NoKey /\ r.jobtype # "SYSTEM"})
<1>1. PICK c \in rows : c = CHOOSE r \in rows : TRUE
  OBVIOUS
<1>2. PICK fig : fig = Figures(rows)
  OBVIOUS
<1>3. DOMAIN fig = {"rows", "clicks", "sets", "sheets", "runtime", "bw", "colour", "proofs",
                    "first", "last"}
      /\ fig.clicks = ClicksOf(rows)
  BY <1>2 DEF Figures, ClicksOf
<1>4. PICK more : more = [month |-> Month(c.startdate),
                          jobs |-> Cardinality({r.key : r \in Keyed(rows)}),
                          own |-> ClicksOf({r \in rows : r.jobtype = "SYSTEM"}),
                          unassigned |-> ClicksOf({r \in rows : r.key = NoKey /\ r.jobtype # "SYSTEM"})]
  OBVIOUS
<1>5. MonthEntry(rows) = With(fig, more)
  BY <1>1, <1>2, <1>4 DEF MonthEntry, ClicksOf
<1>6. PICK e : e = With(fig, more)
  OBVIOUS
<1>7. /\ DOMAIN e = DOMAIN fig \cup {"month", "jobs", "own", "unassigned"}
      /\ e.clicks = fig.clicks /\ e.month = more.month /\ e.jobs = more.jobs
      /\ e.own = more.own /\ e.unassigned = more.unassigned
  BY <1>3, <1>4, <1>6 DEF With
<1>. QED  BY <1>1, <1>3, <1>4, <1>5, <1>6, <1>7

LEMMA JobListCount ==
  ASSUME TablesInv, NEW f
  PROVE  Cardinality(JobList(f)) = Cardinality({x.key : x \in Keyed(Cls(f))})
<1>1. PICK R \in SUBSET Cls(f) : R = Keyed(Cls(f))
  BY DEF Keyed
<1>. DEFINE K == {x.key : x \in R}
            entry == [k \in K |-> JobEntry({x \in R : x.key = k})]
<1>2. JobList(f) = {entry[k] : k \in K}
  BY <1>1 DEF JobList, Groups
<1>3. ASSUME NEW k \in K PROVE entry[k].key = k
  <2>1. PICK x \in R : x.key = k
    OBVIOUS
  <2>2. PICK own : own = {y \in R : y.key = k}
    OBVIOUS
  <2>3. x \in own /\ \A y \in own : y.key = x.key
    BY <2>1, <2>2
  <2>4. PICK e : e = JobEntry(own)
    OBVIOUS
  <2>5. e.key = x.key
    BY <2>3, <2>4, JobEntrySays
  <2>. QED  BY <2>1, <2>2, <2>4, <2>5
<1>4. IsFiniteSet(K)
  <2>. DEFINE f0 == [x \in R |-> x.key]
  <2>1. IsFiniteSet(DOMAIN f0)
    BY ClsFinite, FS_Subset
  <2>2. IsFiniteSet({f0[x] : x \in DOMAIN f0})
    <3>. HIDE DEF f0
    <3>. QED  BY <2>1, ImageFinite
  <2>. QED  BY <2>2
<1>5. PICK E : E = JobList(f)
  OBVIOUS
<1>6. entry \in [K -> E] /\ \A e \in E : \E k \in K : entry[k] = e
  BY <1>2, <1>5
<1>. HIDE DEF entry, K
<1>7. \A k, l \in K : entry[k] = entry[l] => k = l
  BY <1>3
<1>8. ExistsBijection(K, E)
  <2>1. entry \in Bijection(K, E)
    BY <1>6, <1>7 DEF Bijection, Injection, Surjection, IsInjective
  <2>. QED  BY <2>1 DEF ExistsBijection
<1>9. Cardinality(E) = Cardinality(K)
  BY <1>4, <1>8, FS_Bijection
<1>. QED  BY <1>1, <1>5, <1>9 DEF K
LEMMA RowsHaveDates ==
  ASSUME TablesInv, NEW f, NEW x \in Cls(f)
  PROVE  x.startdate \in Nat
<1>1. PICK r \in jobs : \A c \in Columns0 : x[c] = r[c]
  BY RunOfRow
<1>2. x.startdate = r.startdate
  BY <1>1 DEF Columns0
<1>. QED  BY <1>2, TypesOfTables DEF TablesTypeOK, Dates

LEMMA MonthIsNat ==
  ASSUME NEW d \in Nat \ {0}
  PROVE  Month(d) \in Nat
<1>1. PICK n \in Nat \ {0} : n = MonthLength
  BY MonthAssumption
<1>2. PICK a \in Nat : a = d - 1
  OBVIOUS
<1>3. a \div n \in Nat
  OBVIOUS
<1>. QED  BY <1>1, <1>2, <1>3 DEF Month

\* The own use of a month on the page of the own use.
LEMMA OwnUseOfAMonth ==
  ASSUME TablesInv, NEW q, NEW k \in Nat,
         NEW rows \in SUBSET Cls(OfSystem(q)),
         rows = {x \in Cls(OfSystem(q)) : x.startdate # Empty /\ Month(x.startdate) = k}
  PROVE  Sum({o \in OwnUseMonths(q) : o.month = k}, "clicks") = ClicksOf(rows)
<1>1. PICK R : R = Cls(OfSystem(q))
  OBVIOUS
<1>. DEFINE In(n) == {x \in {x \in R : x.startdate # Empty} : Month(x.startdate) = n}
            Entry(g) == [month  |-> Month((CHOOSE r \in g : TRUE).startdate),
                         runs   |-> Cardinality(g),
                         clicks |-> Total(g, Clicks),
                         sheets |-> Total(g, LAMBDA r : r.sheets)]
            N == {Month(x.startdate) : x \in {x \in R : x.startdate # Empty}}
<1>2. OwnUseMonths(q) = {Entry(g) : g \in {In(n) : n \in N}}
  BY <1>1 DEF OwnUseMonths, ByMonth, Groups
<1>3. ASSUME NEW n \in N PROVE Entry(In(n)).month = n /\ Entry(In(n)).clicks = ClicksOf(In(n))
  <2>1. PICK g : g = In(n)
    OBVIOUS
  <2>2. PICK x \in g : x = CHOOSE r \in g : TRUE
    BY <2>1
  <2>3. Month(x.startdate) = n
    BY <2>1, <2>2
  <2>4. Entry(g).month = n /\ Entry(g).clicks = ClicksOf(g)
    BY <2>2, <2>3 DEF ClicksOf
  <2>. HIDE DEF Entry
  <2>. QED  BY <2>1, <2>4
<1>4. rows = In(k)
  BY <1>1
<1>5. PICK E : E = {o \in OwnUseMonths(q) : o.month = k}
  OBVIOUS
<1>6. \A e \in E : k \in N /\ e = Entry(rows)
  <2>. HIDE DEF Entry, In, N
  <2>1. ASSUME NEW e \in E PROVE k \in N /\ e = Entry(rows)
    <3>1. PICK n \in N : e = Entry(In(n))
      BY <1>2, <1>5
    <3>2. e.month = k
      BY <1>5
    <3>3. n = k
      BY <1>3, <3>1, <3>2
    <3>. QED  BY <1>4, <3>1, <3>3
  <2>. QED  BY <2>1
<1>7. k \in N => Entry(rows) \in E
  <2>. HIDE DEF Entry, In, N
  <2>. QED  BY <1>2, <1>3, <1>4, <1>5
<1>8. \A x \in rows : k \in N
  BY <1>4
<1>9. k \in N => rows # {}
  BY <1>4
<1>10. \A e \in E : e.clicks = ClicksOf(rows)
  <2>. HIDE DEF Entry, In, N
  <2>. QED  BY <1>3, <1>4, <1>6
<1>. DEFINE phi == [x \in rows |-> Entry(rows)]
<1>11. phi \in [rows -> E] /\ (\A e \in E : \E x \in rows : phi[x] = e)
       /\ \A e \in E : {x \in rows : phi[x] = e} = rows
  <2>. HIDE DEF Entry, N
  <2>. QED  BY <1>6, <1>7, <1>8, <1>9
<1>12. IsFiniteSet(rows) /\ \A x \in rows : Clicks(x) \in Int
  <2>1. IsFiniteSet(R)
    BY <1>1, ClsFinite
  <2>. QED  BY <1>1, <2>1, RowsHaveClicks, FS_Subset
<1>. HIDE DEF phi
<1>13. \A e \in E : e.clicks = Total({x \in rows : phi[x] = e}, Clicks)
  <2>1. ASSUME NEW e \in E PROVE e.clicks = Total({x \in rows : phi[x] = e}, Clicks)
    <3>1. PICK own : own = {x \in rows : phi[x] = e}
      OBVIOUS
    <3>2. own = rows
      BY <1>11, <3>1
    <3>3. e.clicks = ClicksOf(own)
      BY <1>10, <3>2
    <3>. QED  BY <3>1, <3>3 DEF ClicksOf
  <2>. QED  BY <2>1
<1>. HIDE DEF Entry, In, N
<1>14. Sum(E, "clicks") = Total(rows, Clicks)
  <2>1. phi \in [rows -> E] /\ \A e \in E : \E x \in rows : phi[x] = e
    BY <1>11
  <2>. QED  BY ONLY <1>12, <1>13, <2>1, EntriesHaveTheClicks
<1>. QED  BY <1>5, <1>14 DEF ClicksOf
LEMMA MonthsShowTheirLinks ==
  ASSUME TablesInv, CountersAreCounts,
         NEW req \in ListRequests, req.q = {}, req.jobtype = "",
         NEW m \in StatisticsPage(req).months
  PROVE  LET page == JobsPage(m.jobsUrl)
             own  == {o \in OwnUsePage(req).months : o.month = m.month}
         IN /\ m.clicks = page.totals["clicks"] + page.keyless.own + page.keyless.unassigned
            /\ m.jobs = Cardinality(page.jobs)
            /\ m.own = OwnUsePage(m.ownUrl).totals["clicks"]
            /\ m.unassigned = UnassignedPage(m.unassignedUrl).totals["clicks"]
            /\ m.own = Sum(own, "clicks") /\ m.own + m.unassigned <= m.clicks
<1>1. PICK q : q = MachineParam(req)
  OBVIOUS
<1>2. /\ q.from \in Nat /\ q.to \in Nat /\ q.q = {} /\ q.jobtype = ""
      /\ q.result = "" /\ q.exclude = ""
  <2>1. /\ DOMAIN req = DOMAIN NoFilter /\ req.result = "" /\ req.exclude = ""
        /\ req.from \in Nat /\ req.to \in Nat
    BY FiltersAssumption DEF ListRequests, Requests, Dates
  <2>. QED  BY <1>1, <2>1 DEF MachineParam, NoFilter
<1>3. PICK R : R = Cls(q)
  OBVIOUS
<1>. DEFINE In(n) == {x \in {x \in R : x.startdate # Empty} : Month(x.startdate) = n}
            N == {Month(x.startdate) : x \in {x \in R : x.startdate # Empty}}
<1>4. MonthlyStats(q) = {MonthEntry(g) : g \in {In(n) : n \in N}}
  BY <1>3 DEF MonthlyStats, ByMonth, Groups
<1>. DEFINE Link(e) == [NoFilter EXCEPT !.from = MonthRange(e.month, q.from, q.to)[1],
                                        !.to = MonthRange(e.month, q.from, q.to)[2],
                                        !.machine = q.machine]
            Row(e) == With(e, [jobsUrl |-> Link(e), unassignedUrl |-> Link(e), ownUrl |-> Link(e)])
<1>5. PICK k \in N : m = Row(MonthEntry(In(k)))
  <2>1. m \in {Row(e) : e \in MonthlyStats(q)}
    BY <1>1 DEF StatisticsPage, StatisticsCtx
  <2>. HIDE DEF In, N, Row
  <2>2. PICK e \in MonthlyStats(q) : m = Row(e)
    BY <2>1
  <2>. QED  BY <1>4, <2>2
<1>6. PICK rows \in SUBSET R : rows = In(k)
  OBVIOUS
<1>7. PICK e, u : /\ e = MonthEntry(rows) /\ u = Link(e)
                  /\ m = With(e, [jobsUrl |-> u, unassignedUrl |-> u, ownUrl |-> u])
  <2>. HIDE DEF In, N
  <2>. QED  BY <1>5, <1>6
<1>8. PICK x \in rows : Month(x.startdate) = k
  BY <1>6
<1>9. /\ e.month = k /\ e.clicks = ClicksOf(rows)
      /\ e.jobs = Cardinality({r.key : r \in Keyed(rows)})
      /\ e.own = ClicksOf({r \in rows : r.jobtype = "SYSTEM"})
      /\ e.unassigned = ClicksOf({r \in rows : r.key = NoKey /\ r.jobtype # "SYSTEM"})
  <2>1. \A y \in rows : Month(y.startdate) = Month(x.startdate)
    BY <1>6, <1>8
  <2>. HIDE DEF In, N
  <2>. QED  BY <1>7, <1>8, <2>1, MonthEntrySays
<1>10. /\ m.clicks = e.clicks /\ m.jobs = e.jobs /\ m.own = e.own /\ m.unassigned = e.unassigned
       /\ m.month = k /\ m.jobsUrl = u /\ m.ownUrl = u /\ m.unassignedUrl = u
  <2>1. DOMAIN e = {"rows", "clicks", "sets", "sheets", "runtime", "bw", "colour",
                    "proofs", "first", "last", "month", "jobs", "own", "unassigned"}
    <3>1. \A y \in rows : Month(y.startdate) = Month(x.startdate)
      BY <1>6, <1>8
    <3>. HIDE DEF In, N, Link
    <3>. QED  BY <1>7, <1>8, <3>1, MonthEntrySays
  <2>. HIDE DEF In, N, Link
  <2>. QED  BY <1>7, <1>9, <2>1 DEF With
<1>11. k \in Nat
  <2>1. x.startdate \in Nat \ {0}
    BY <1>3, <1>6, RowsHaveDates DEF Empty
  <2>. HIDE DEF In, N, Link
  <2>. QED  BY <1>8, <2>1, MonthIsNat
<1>12. /\ u = [c \in DOMAIN NoFilter |-> u[c]] /\ u.machine = q.machine
       /\ u.from = MonthRange(k, q.from, q.to)[1] /\ u.to = MonthRange(k, q.from, q.to)[2]
       /\ u.q = {} /\ u.jobtype = "" /\ u.exclude = "" /\ u.result = ""
  BY <1>7, <1>9 DEF NoFilter
<1>. HIDE DEF Link, N
<1>13. MachineParam(u) = u
  BY <1>1, <1>12, ParamOfParam DEF ListRequests, Requests
<1>14. ASSUME NEW r \in jobs
       PROVE  Matches(r, u) <=> Matches(r, q) /\ r.startdate # Empty /\ Month(r.startdate) = k
  <2>1. r.startdate \in Nat
    BY TypesOfTables DEF TablesTypeOK, Dates
  <2>2. r.startdate >= u.from /\ (u.to = Empty \/ r.startdate <= u.to)
        <=> /\ r.startdate >= q.from /\ (q.to = Empty \/ r.startdate <= q.to)
            /\ r.startdate # Empty /\ Month(r.startdate) = k
    <3>1. PICK f \in Nat, t \in Nat, d \in Nat : f = q.from /\ t = q.to /\ d = r.startdate
      BY <1>2, <2>1
    <3>2. PICK range : range = MonthRange(k, f, t)
      OBVIOUS
    <3>3. d >= range[1] /\ (range[2] = Empty \/ d <= range[2])
          <=> d >= f /\ (t = Empty \/ d <= t) /\ d # Empty /\ Month(d) = k
      BY ONLY <1>11, <3>2, f \in Nat, t \in Nat, d \in Nat, RangeOfMonth
    <3>4. u.from = range[1] /\ u.to = range[2]
      BY <1>12, <3>1, <3>2
    <3>. QED  BY ONLY <3>1, <3>3, <3>4
  <2>3. /\ u.machine = q.machine /\ u.q = {} /\ u.jobtype = "" /\ u.exclude = "" /\ u.result = ""
        /\ q.q = {} /\ q.jobtype = "" /\ q.exclude = "" /\ q.result = ""
    BY <1>2, <1>12
  <2>. QED  BY ONLY <2>2, <2>3 DEF Matches
<1>15. PICK P \in SUBSET jobs : P = {r \in jobs : Matches(r, u)}
  OBVIOUS
<1>16. \A y \in R : y \in rows <=> y.startdate # Empty /\ Month(y.startdate) = k
  BY <1>6
<1>. HIDE DEF In
<1>17. ClicksOf(rows) = ClicksOf(P)
  <2>1. \A r \in P : Matches(r, q)
    BY <1>14, <1>15
  <2>2. ASSUME NEW y \in Cls(q), NEW r \in jobs, Matches(r, q), SameRun(y, r),
               y.key = Key(r), y.jobtype = r.jobtype, y.startdate = r.startdate
        PROVE  y \in rows <=> r \in P
    BY <2>2, <1>3, <1>14, <1>15, <1>16
  <2>3. TablesInv /\ rows \in SUBSET Cls(q) /\ P \in SUBSET jobs
    BY <1>3
  <2>. QED  BY ONLY <2>1, <2>2, <2>3, ClicksOfPicked
<1>18. JobsPage(u).totals["clicks"] + JobsPage(u).keyless.own + JobsPage(u).keyless.unassigned
       = ClicksOf(P)
  BY <1>13, <1>15, PageHasTheClicks DEF Asked
<1>19. e.jobs = Cardinality(JobsPage(u).jobs)
  <2>1. PICK A \in SUBSET Cls(q), B \in SUBSET Cls(u), C \in SUBSET P :
             /\ A = Keyed(rows) /\ B = Keyed(Cls(u)) /\ C = {r \in P : Key(r) # NoKey}
    BY <1>3 DEF Keyed
  <2>2. {y.key : y \in A} = {Key(r) : r \in C}
    <3>1. \A r \in C : Matches(r, q)
      BY <1>14, <1>15
    <3>2. ASSUME NEW y \in Cls(q), NEW r \in jobs, Matches(r, q), SameRun(y, r),
                 y.key = Key(r), y.jobtype = r.jobtype, y.startdate = r.startdate
          PROVE  y \in A <=> r \in C
      BY <3>2, <2>1, <1>3, <1>14, <1>15, <1>16 DEF Keyed
    <3>3. TablesInv /\ A \in SUBSET Cls(q) /\ C \in SUBSET jobs
      BY <1>15
    <3>. QED  BY ONLY <3>1, <3>2, <3>3, KeysOfPicked
  <2>3. {y.key : y \in B} = {Key(r) : r \in C}
    <3>1. \A r \in C : Matches(r, u)
      BY <1>15
    <3>2. ASSUME NEW y \in Cls(u), NEW r \in jobs, Matches(r, u), SameRun(y, r),
                 y.key = Key(r), y.jobtype = r.jobtype, y.startdate = r.startdate
          PROVE  y \in B <=> r \in C
      BY <3>2, <2>1, <1>15 DEF Keyed
    <3>3. TablesInv /\ B \in SUBSET Cls(u) /\ C \in SUBSET jobs
      BY <1>15
    <3>. QED  BY ONLY <3>1, <3>2, <3>3, KeysOfPicked
  <2>4. JobsPage(u).jobs = JobList(u)
    BY <1>13 DEF JobsPage, ListCtx
  <2>. QED  BY <1>9, <2>1, <2>2, <2>3, <2>4, JobListCount
<1>20. PICK S \in SUBSET jobs, U \in SUBSET jobs :
            /\ S = {r \in jobs : Matches(r, u) /\ r.jobtype = "SYSTEM"}
            /\ U = {r \in jobs : Matches(r, u) /\ Key(r) = NoKey /\ r.jobtype # "SYSTEM"}
  OBVIOUS
<1>21. e.own = ClicksOf(S) /\ e.unassigned = ClicksOf(U)
  <2>1. PICK A \in SUBSET Cls(q), B \in SUBSET Cls(q) :
             /\ A = {r \in rows : r.jobtype = "SYSTEM"}
             /\ B = {r \in rows : r.key = NoKey /\ r.jobtype # "SYSTEM"}
    BY <1>3
  <2>2. ClicksOf(A) = ClicksOf(S)
    <3>1. \A r \in S : Matches(r, q)
      BY <1>14, <1>20
    <3>2. ASSUME NEW y \in Cls(q), NEW r \in jobs, Matches(r, q), SameRun(y, r),
                 y.key = Key(r), y.jobtype = r.jobtype, y.startdate = r.startdate
          PROVE  y \in A <=> r \in S
      BY <3>2, <2>1, <1>3, <1>14, <1>16, <1>20
    <3>3. TablesInv /\ A \in SUBSET Cls(q) /\ S \in SUBSET jobs
      OBVIOUS
    <3>. QED  BY ONLY <3>1, <3>2, <3>3, ClicksOfPicked
  <2>3. ClicksOf(B) = ClicksOf(U)
    <3>1. \A r \in U : Matches(r, q)
      BY <1>14, <1>20
    <3>2. ASSUME NEW y \in Cls(q), NEW r \in jobs, Matches(r, q), SameRun(y, r),
                 y.key = Key(r), y.jobtype = r.jobtype, y.startdate = r.startdate
          PROVE  y \in B <=> r \in U
      BY <3>2, <2>1, <1>3, <1>14, <1>16, <1>20
    <3>3. TablesInv /\ B \in SUBSET Cls(q) /\ U \in SUBSET jobs
      OBVIOUS
    <3>. QED  BY ONLY <3>1, <3>2, <3>3, ClicksOfPicked
  <2>. QED  BY <1>9, <2>1, <2>2, <2>3
<1>22. OwnUsePage(u).totals["clicks"] = ClicksOf(S)
  BY <1>12, <1>13, <1>20, OwnUsePageClicks
<1>23. UnassignedPage(u).totals["clicks"] = ClicksOf(U)
  BY <1>12, <1>13, <1>20, UnassignedPageClicks
<1>24. Sum({o \in OwnUsePage(req).months : o.month = m.month}, "clicks") = ClicksOf(S)
  <2>1. PICK g : g = OfSystem(q)
    OBVIOUS
  <2>2. ASSUME NEW r \in jobs
        PROVE  Matches(r, g) <=> Matches(r, q) /\ r.jobtype = "SYSTEM"
    <3>1. DOMAIN q = DOMAIN NoFilter
      <4>1. DOMAIN req = DOMAIN NoFilter
        BY FiltersAssumption DEF ListRequests, Requests
      <4>. QED  BY <1>1, <4>1 DEF MachineParam
    <3>2. /\ g.machine = q.machine /\ g.from = q.from /\ g.to = q.to /\ g.q = q.q
          /\ g.jobtype = "SYSTEM" /\ g.exclude = q.exclude /\ g.result = q.result
      BY <2>1, <3>1 DEF OfSystem, NoFilter
    <3>. QED  BY <1>2, <3>2 DEF Matches
  <2>3. PICK A \in SUBSET Cls(g) :
             A = {y \in Cls(g) : y.startdate # Empty /\ Month(y.startdate) = k}
    OBVIOUS
  <2>4. ClicksOf(A) = ClicksOf(S)
    <3>1. \A r \in S : Matches(r, g)
      BY <1>14, <1>20, <2>2
    <3>2. ASSUME NEW y \in Cls(g), NEW r \in jobs, Matches(r, g), SameRun(y, r),
                 y.key = Key(r), y.jobtype = r.jobtype, y.startdate = r.startdate
          PROVE  y \in A <=> r \in S
      BY <3>2, <1>14, <1>20, <2>2, <2>3
    <3>3. TablesInv /\ A \in SUBSET Cls(g) /\ S \in SUBSET jobs
      OBVIOUS
    <3>. QED  BY ONLY <3>1, <3>2, <3>3, ClicksOfPicked
  <2>5. Sum({o \in OwnUseMonths(q) : o.month = k}, "clicks") = ClicksOf(A)
    BY <1>11, <2>1, <2>3, OwnUseOfAMonth
  <2>6. OwnUsePage(req).months = OwnUseMonths(q)
    BY <1>1 DEF OwnUsePage, OwnUseCtx
  <2>. QED  BY <1>10, <2>4, <2>5, <2>6
<1>25. ClicksOf(S) + ClicksOf(U) <= ClicksOf(P)
  <2>1. PICK V \in SUBSET jobs, W \in SUBSET jobs : V = S \cup U /\ W = P \ V
    BY <1>20
  <2>2. V \cap W = {} /\ S \cap U = {}
    BY <1>20, <2>1
  <2>3. V \cup W = P
    BY <1>15, <1>20, <2>1
  <2>4. IsFiniteSet(jobs)
    BY JobsFinite
  <2>5. \A r \in jobs : Clicks(r) \in Int
    <3>1. ASSUME NEW r \in jobs PROVE Clicks(r) \in Nat
      BY ONLY TablesInv, CountersAreCounts, r \in jobs, ClicksAreCounts
    <3>. QED  BY ONLY <3>1
  <2>10. /\ V \in SUBSET jobs /\ W \in SUBSET jobs
         /\ S \in SUBSET jobs /\ U \in SUBSET jobs
    OBVIOUS
  <2>6. ClicksOf(V \cup W) = ClicksOf(V) + ClicksOf(W)
    BY ONLY <2>2, <2>4, <2>5, <2>10, ClicksOfParts
  <2>7. ClicksOf(S \cup U) = ClicksOf(S) + ClicksOf(U)
    BY ONLY <2>2, <2>4, <2>5, <2>10, ClicksOfParts
  <2>8. ClicksOf(W) \in Nat /\ ClicksOf(S) \in Nat /\ ClicksOf(U) \in Nat
    BY ClicksOfRunsAreCounts
  <2>9. ClicksOf(P) = ClicksOf(S) + ClicksOf(U) + ClicksOf(W)
    BY <2>1, <2>3, <2>6, <2>7
  <2>. QED  BY ONLY <2>8, <2>9
<1>. QED  BY <1>9, <1>10, <1>17, <1>18, <1>19, <1>21, <1>22, <1>23, <1>24, <1>25

\* A row of the statistics shows what its three links show and the own use page
\* has the same months, for any tables the imports can have built and any length
\* of a month, when no counter is negative.
THEOREM MonthsAgree == ASSUME CountersAreCounts PROVE Spec => []MonthLinksAgree
<1>1. TablesInv => MonthLinksAgree
  BY MonthsShowTheirLinks DEF MonthLinksAgree, ListRequests, Requests
<1>. QED  BY <1>1, TablesHoldTheLog, PTL

-----------------------------------------------------------------------------
(* The order of the rows on the page of a job.                             *)

\* Some row is after no other.
LEMMA LatestExists ==
  ASSUME NEW R, IsFiniteSet(R), R # {}, Stamped(R)
  PROVE  \E x \in R : \A y \in R : ~ Earlier(x, y)
<1>. DEFINE S == {s \in SUBSET R : s = {} \/ \E x \in s : \A y \in s : ~ Earlier(x, y)}
<1>1. {} \in S
  OBVIOUS
<1>2. ASSUME NEW s \in SUBSET R, NEW x \in R \ s, s \in S PROVE s \cup {x} \in S
  <2>1. ~ Earlier(x, x)
    BY DEF Earlier, Stamped
  <2>2. CASE s = {}
    BY <1>2, <2>1, <2>2
  <2>3. CASE s # {}
    <3>1. PICK z \in s : \A y \in s : ~ Earlier(z, y)
      BY <1>2, <2>3
    <3>2. CASE ~ Earlier(z, x)
      <4>1. \A y \in s \cup {x} : ~ Earlier(z, y)
        BY <3>1, <3>2
      <4>. QED  BY <1>2, <4>1
    <3>3. CASE Earlier(z, x)
      <4>1. ASSUME NEW y \in s, Earlier(x, y) PROVE FALSE
        <5>1. x \in R /\ y \in R /\ z \in R
          BY <1>2
        <5>2. Earlier(z, y)
          BY <3>3, <4>1, <5>1 DEF Earlier, Stamped
        <5>. QED  BY <3>1, <5>2
      <4>2. \A y \in s \cup {x} : ~ Earlier(x, y)
        BY <2>1, <4>1
      <4>. QED  BY <1>2, <4>2
    <3>. QED  BY <3>2, <3>3
  <2>. QED  BY <2>2, <2>3
<1>3. SUBSET R \subseteq S
  <2>. HIDE DEF S
  <2>. QED  BY <1>1, <1>2, SubsetInduction
<1>4. R \in S
  BY <1>3
<1>. QED  BY <1>4

Listing(rows, runs) ==
  /\ runs \in SetToSeqs(rows)
  /\ \A i, j \in DOMAIN runs : i < j => ~ Earlier(runs[j], runs[i])

LEMMA ListingExists ==
  ASSUME NEW R, IsFiniteSet(R), Stamped(R)
  PROVE  \E runs : Listing(R, runs)
<1>. DEFINE n == Cardinality(R)
            T == {i \in 0 .. n : \A A \in SUBSET R : Cardinality(A) = i => \E runs : Listing(A, runs)}
<1>0. n \in Nat
  BY FS_CardinalityType
<1>1. \A A \in SUBSET R : IsFiniteSet(A) /\ Cardinality(A) \in Nat
  BY FS_Subset, FS_CardinalityType
<1>2. 0 \in T
  <2>1. ASSUME NEW A \in SUBSET R, Cardinality(A) = 0 PROVE \E runs : Listing(A, runs)
    <3>1. PICK runs : runs = [i \in 1 .. 0 |-> 0]
      OBVIOUS
    <3>2. runs \in SetToSeqs(A) /\ DOMAIN runs = {}
      BY <2>1, <3>1 DEF SetToSeqs
    <3>3. Listing(A, runs)
      BY <3>2 DEF Listing
    <3>. QED  BY <3>3
  <2>. QED  BY <1>0, <2>1
<1>3. ASSUME NEW i \in 0 .. n, i # n, i \in T PROVE i + 1 \in T
  <2>1. ASSUME NEW A \in SUBSET R, Cardinality(A) = i + 1 PROVE \E runs : Listing(A, runs)
    <3>1. A # {}
      BY <1>0, <1>1, <2>1, FS_EmptySet
    <3>2. Stamped(A)
      BY DEF Stamped
    <3>3. PICK x \in A : \A y \in A : ~ Earlier(x, y)
      BY <1>1, <3>1, <3>2, LatestExists
    <3>4. PICK B \in SUBSET R : B = A \ {x}
      OBVIOUS
    <3>5. Cardinality(B) = i
      <4>1. Cardinality(A \ {x}) = Cardinality(A) - 1
        BY <1>1, FS_RemoveElement
      <4>. QED  BY <1>0, <2>1, <3>4, <4>1
    <3>6. PICK rest : Listing(B, rest)
      BY <1>3, <3>5
    <3>7. rest \in [1 .. i -> B] /\ \A j, k \in 1 .. i : j # k => rest[j] # rest[k]
      BY <3>5, <3>6 DEF Listing, SetToSeqs
    <3>8. PICK runs : runs = [j \in 1 .. i + 1 |-> IF j = i + 1 THEN x ELSE rest[j]]
      OBVIOUS
    <3>9. \A j \in 1 .. i + 1 : j = i + 1 \/ j \in 1 .. i
      BY <1>0
    <3>10. /\ DOMAIN runs = 1 .. i + 1 /\ \A j \in 1 .. i : runs[j] = rest[j] /\ runs[j] \in B
           /\ runs[i + 1] = x /\ i + 1 \in 1 .. i + 1
      BY <1>0, <3>7, <3>8
    <3>11. runs \in [1 .. i + 1 -> A]
      BY <3>4, <3>7, <3>8, <3>9
    <3>12. \A j, k \in 1 .. i + 1 : j # k => runs[j] # runs[k]
      BY <3>4, <3>7, <3>9, <3>10
    <3>13. runs \in SetToSeqs(A)
      BY <2>1, <3>11, <3>12 DEF SetToSeqs
    <3>14. ASSUME NEW j \in 1 .. i + 1, NEW k \in 1 .. i + 1, j < k PROVE ~ Earlier(runs[k], runs[j])
      <4>1. j \in 1 .. i
        BY <1>0, <3>14
      <4>2. CASE k = i + 1
        BY <3>3, <3>4, <3>10, <4>1, <4>2
      <4>3. CASE k \in 1 .. i
        BY <3>6, <3>7, <3>10, <3>14, <4>1, <4>3 DEF Listing
      <4>. QED  BY <3>9, <4>2, <4>3
    <3>15. Listing(A, runs)
      BY <3>10, <3>13, <3>14 DEF Listing
    <3>. QED  BY <3>15
  <2>. QED  BY <1>0, <1>3, <2>1
<1>4. 0 .. n \subseteq T
  <2>. HIDE DEF T, n
  <2>. QED  BY <1>0, <1>2, <1>3, UpTo
<1>5. n \in T
  BY <1>0, <1>4
<1>. QED  BY <1>5

\* The page lists every row of the job once, a later one never before an earlier.
LEMMA OrderIsListing ==
  ASSUME NEW R, IsFiniteSet(R), Stamped(R)
  PROVE  /\ Listing(R, InOrder(R))
         /\ DOMAIN InOrder(R) = 1 .. Cardinality(R) /\ Len(InOrder(R)) = Cardinality(R)
         /\ \A x \in R : \E i \in 1 .. Cardinality(R) : InOrder(R)[i] = x
         /\ \A i \in 1 .. Cardinality(R) : InOrder(R)[i] \in R
<1>1. PICK runs : Listing(R, runs)
  <2>1. \E runs : Listing(R, runs)
    BY ListingExists
  <2>. QED  BY <2>1
<1>2. PICK all : all = SetToSeqs(R)
  OBVIOUS
<1>3. PICK order : order = CHOOSE s \in all : \A i, j \in DOMAIN s : i < j => ~ Earlier(s[j], s[i])
  OBVIOUS
<1>4. order = InOrder(R)
  BY <1>2, <1>3 DEF InOrder
<1>5. Listing(R, order)
  BY <1>1, <1>2, <1>3 DEF Listing
<1>6. PICK n \in Nat : n = Cardinality(R)
  BY FS_CardinalityType
<1>7. order \in [1 .. n -> R] /\ \A i, j \in 1 .. n : i # j => order[i] # order[j]
  BY <1>5, <1>6 DEF Listing, SetToSeqs
<1>8. order \in Injection(1 .. n, R)
  BY <1>7 DEF Injection, IsInjective
<1>9. Cardinality(1 .. n) = n
  BY <1>6, FS_Interval
<1>10. order \in Surjection(1 .. n, R)
  BY <1>6, <1>8, <1>9, FS_Injection
<1>11. Len(order) = n
  BY <1>6, <1>7
<1>. QED  BY <1>4, <1>5, <1>6, <1>7, <1>10, <1>11 DEF Surjection

-----------------------------------------------------------------------------
(* An entry of the job list, and the page of that job.                     *)

\* The rows of a job under a filter.
RowsOfJob(f, k) == {r \in Cls(f) : r.key = k}

LEMMA ListedJob ==
  ASSUME NEW f, NEW e \in JobList(f)
  PROVE  \E x \in Cls(f) : /\ x.key # NoKey /\ x \in RowsOfJob(f, x.key)
                            /\ e = JobEntry(RowsOfJob(f, x.key))
<1>1. PICK R \in SUBSET Cls(f) : R = Keyed(Cls(f))
  BY DEF Keyed
<1>2. JobList(f) = {JobEntry({x \in R : x.key = k}) : k \in {x.key : x \in R}}
  BY <1>1 DEF JobList, Groups
<1>3. PICK x \in R : e = JobEntry({y \in R : y.key = x.key})
  BY <1>2
<1>4. x.key # NoKey
  BY <1>1, <1>3 DEF Keyed
<1>5. {y \in R : y.key = x.key} = RowsOfJob(f, x.key) /\ x \in RowsOfJob(f, x.key)
  BY <1>1, <1>3, <1>4 DEF Keyed, RowsOfJob
<1>. QED  BY <1>3, <1>4, <1>5

\* The columns of a row, and the last runs of its job under the filter.
LEMMA RowShape ==
  ASSUME TablesInv, NEW f, NEW x \in Cls(f)
  PROVE  /\ DOMAIN x = Columns0 \cup {"key", "sheetsRow", "sheets", "runType", "last"}
         /\ x.last = LastRuns({q \in jobs : Matches(q, f)}, x.key)
<1>1. PICK J \in SUBSET jobs : J = {q \in jobs : Matches(q, f)}
  OBVIOUS
<1>2. PICK q \in J : \E t \in JoinedSheets(q) : x = Classified(q, t, J)
  BY <1>1 DEF Cls
<1>3. PICK t \in JoinedSheets(q) : x = Classified(q, t, J)
  BY <1>2
<1>4. DOMAIN q = Columns0
  <2>1. PICK m \in Machines, d \in Days : \E i \in 1 .. Imported(m, d) :
               i \in 1 .. Len(log[m][d]) /\ q = RunRow(m, d, i)
    BY RowsOfTables
  <2>2. PICK i : q = RunRow(m, d, i)
    BY <2>1
  <2>3. PICK dict : dict = Dict(m, d, i)
    OBVIOUS
  <2>. QED  BY <2>2, <2>3 DEF RunRow, RowToDb, Columns0
<1>5. PICK more : more =
    [key |-> Key(q), sheetsRow |-> t, sheets |-> t.sheets,
     runType |-> RunType(q, J), last |-> LastRuns(J, Key(q))]
  OBVIOUS
<1>6. x = With(q, more)
  BY <1>3, <1>5 DEF Classified
<1>7. DOMAIN more = {"key", "sheetsRow", "sheets", "runType", "last"}
  BY <1>5
<1>8. DOMAIN x = Columns0 \cup {"key", "sheetsRow", "sheets", "runType", "last"}
  BY <1>4, <1>6, <1>7 DEF With
<1>9. x.last = more.last /\ x.key = more.key
  BY <1>4, <1>6, <1>7 DEF With, Columns0
<1>. QED  BY <1>1, <1>5, <1>8, <1>9

LEMMA DetailSays ==
  ASSUME TablesInv, NEW k, NEW found, found = RowsOfJob(NoFilter, k), found # {},
         NEW d, d = JobDetail(k)
  PROVE  /\ d.clicks = ClicksOf(found) /\ d.sets = SetsOf(found) /\ d.sheets = SheetsOfRows(found)
         /\ d.bw = BwOf(found) /\ d.colour = ColourOf(found) /\ d.proofs = ProofsOf(found)
         /\ d.days = Days0(found) /\ d.runtime = DurationOf(found)
         /\ d.material = MaterialSummary(k) /\ d.byMachine = ByMachine(found)
         /\ DOMAIN d.rows = 1 .. Cardinality(found) /\ Len(d.rows) = Cardinality(found)
         /\ \A i \in 1 .. Cardinality(found) :
              /\ d.rows[i].done = Finished(InOrder(found)[i])
              /\ d.rows[i].media = MediaByLine(k, InOrder(found)[i])
              /\ d.rows[i].sheets = InOrder(found)[i].sheets
<1>0. found \in SUBSET Cls(NoFilter)
  BY DEF RowsOfJob
<1>1. PICK runs : runs = InOrder(found)
  OBVIOUS
<1>2. PICK rows : rows = [i \in DOMAIN runs |->
                       With(runs[i], [media   |-> MediaByLine(k, runs[i]),
                                      done    |-> Finished(runs[i]),
                                      runtime |-> DurationS(runs[i]),
                                      pause   |-> Pause(runs, i)])]
  OBVIOUS
<1>3. d = [key    |-> k,
      rows      |-> rows,
      clicks    |-> Total(found, Clicks),
      sets      |-> Total(found, LAMBDA r : r.sets),
      sheets    |-> Total(found, LAMBDA r : r.sheets),
      bw        |-> Total(found, LAMBDA r : r.bw),
      colour    |-> Total(found, LAMBDA r : r.colour),
      days      |-> Days0(found),
      proofs    |-> Cardinality({r \in found : r.runType = "Proof"}),
      runtime   |-> Total(found, LAMBDA r : OrZero(DurationS(r))),
      material  |-> MaterialSummary(k),
      byMachine |-> ByMachine(found)]
  BY <1>1, <1>2 DEF JobDetail, RowsOfJob
<1>4. /\ d.clicks = ClicksOf(found) /\ d.sets = SetsOf(found) /\ d.sheets = SheetsOfRows(found)
      /\ d.bw = BwOf(found) /\ d.colour = ColourOf(found) /\ d.proofs = ProofsOf(found)
      /\ d.days = Days0(found) /\ d.runtime = DurationOf(found)
      /\ d.material = MaterialSummary(k) /\ d.byMachine = ByMachine(found) /\ d.rows = rows
  BY <1>3 DEF ClicksOf, SetsOf, SheetsOfRows, BwOf, ColourOf, ProofsOf, DurationOf
<1>5. PICK n \in Nat : n = Cardinality(found)
  <2>1. IsFiniteSet(found)
    BY <1>0, RowsAreStamped
  <2>. QED  BY <2>1, FS_CardinalityType
<1>6. DOMAIN runs = 1 .. n /\ \A i \in 1 .. n : runs[i] \in found
  BY <1>0, <1>1, <1>5, RowsAreStamped, OrderIsListing
<1>7. ASSUME NEW i \in 1 .. n
      PROVE  rows[i].done = Finished(runs[i]) /\ rows[i].media = MediaByLine(k, runs[i])
             /\ rows[i].sheets = runs[i].sheets
  <2>1. PICK x \in found : x = runs[i]
    BY <1>6
  <2>2. PICK more : more = [media |-> MediaByLine(k, x), done |-> Finished(x),
                            runtime |-> DurationS(x), pause |-> Pause(runs, i)]
    OBVIOUS
  <2>3. rows[i] = With(x, more)
    BY <1>2, <1>6, <2>1, <2>2
  <2>4. DOMAIN x = Columns0 \cup {"key", "sheetsRow", "sheets", "runType", "last"}
    BY <1>0, RowShape
  <2>5. DOMAIN more = {"media", "done", "runtime", "pause"}
    BY <2>2
  <2>6. rows[i].done = more.done /\ rows[i].media = more.media /\ rows[i].sheets = x.sheets
    BY <2>3, <2>4, <2>5 DEF With, Columns0
  <2>. QED  BY <2>1, <2>2, <2>6
<1>8. DOMAIN rows = 1 .. n /\ Len(rows) = n
  BY <1>2, <1>5, <1>6
<1>. QED  BY <1>1, <1>4, <1>5, <1>7, <1>8

\* The last row of the page is one that the list may call the last.
LEMMA LastRowIsLast ==
  ASSUME TablesInv, NEW k, NEW found, found = RowsOfJob(NoFilter, k), found # {},
         NEW n, n = Cardinality(found), NEW x, x = InOrder(found)[n]
  PROVE  /\ n \in Nat \ {0} /\ x \in found
         /\ \E l \in x.last : NotDone(l) = NotDone(x)
<1>0. found \in SUBSET Cls(NoFilter) /\ IsFiniteSet(found) /\ Stamped(found)
  <2>1. found \in SUBSET Cls(NoFilter)
    BY DEF RowsOfJob
  <2>. QED  BY <2>1, RowsAreStamped
<1>1. n \in Nat \ {0}
  BY <1>0, FS_CardinalityType, FS_EmptySet
<1>2. PICK runs : runs = InOrder(found)
  OBVIOUS
<1>3. /\ Listing(found, runs) /\ DOMAIN runs = 1 .. n
      /\ \A y \in found : \E i \in 1 .. n : runs[i] = y
      /\ \A i \in 1 .. n : runs[i] \in found
  <2>1. /\ Listing(found, InOrder(found)) /\ DOMAIN InOrder(found) = 1 .. Cardinality(found)
        /\ \A y \in found : \E i \in 1 .. Cardinality(found) : InOrder(found)[i] = y
        /\ \A i \in 1 .. Cardinality(found) : InOrder(found)[i] \in found
    BY ONLY <1>0, OrderIsListing
  <2>. QED  BY <1>2, <2>1
<1>4. n \in 1 .. n /\ x \in found /\ x \in Cls(NoFilter) /\ x.key = k
  BY <1>0, <1>1, <1>2, <1>3 DEF RowsOfJob
<1>5. ASSUME NEW y \in found PROVE ~ Earlier(x, y)
  <2>1. PICK i \in 1 .. n : runs[i] = y
    BY <1>3
  <2>2. CASE i < n
    BY <1>2, <1>3, <1>4, <2>1, <2>2 DEF Listing
  <2>3. CASE i = n
    BY <1>0, <1>2, <1>4, <2>1, <2>3 DEF Earlier, Stamped
  <2>. QED  BY <1>1, <2>2, <2>3
<1>6. PICK q \in jobs : /\ Matches(q, NoFilter) /\ x.key = Key(q)
                        /\ \A c \in Columns0 : x[c] = q[c]
  BY <1>4, RunOfRow
<1>7. ASSUME NEW o \in jobs, Key(o) = k PROVE ~ Earlier(q, o)
  <2>1. Matches(o, NoFilter)
    BY NoFilterSelectsAll
  <2>2. PICK y \in Cls(NoFilter) : {z \in Cls(NoFilter) : SameRun(z, o)} = {y}
    BY <2>1, RowOfRun
  <2>3. SameRun(y, o)
    BY <2>2
  <2>4. PICK p \in jobs : SameRun(y, p) /\ y.key = Key(p) /\ \A c \in Columns0 : y[c] = p[c]
    BY RunOfRow
  <2>5. p = o
    BY <2>3, <2>4, RunIsOne
  <2>6. ~ Earlier(x, y)
    BY <1>5, <1>7, <2>4, <2>5 DEF RowsOfJob
  <2>7. /\ x.startdate = q.startdate /\ x.starttime = q.starttime /\ x.seq = q.seq
        /\ y.startdate = o.startdate /\ y.starttime = o.starttime /\ y.seq = o.seq
    BY <1>6, <2>4, <2>5 DEF Columns0
  <2>. QED  BY <2>6, <2>7 DEF Earlier
<1>8. x.last = LastRuns(jobs, k)
  BY <1>4, RowShape, NoFilterSelectsAll
<1>9. q \in LastRuns(jobs, k)
  BY <1>4, <1>6, <1>7 DEF LastRuns
<1>10. NotDone(q) = NotDone(x)
  BY <1>6 DEF NotDone, Finished, Columns0
<1>. QED  BY <1>1, <1>4, <1>8, <1>9, <1>10

LEMMA LastRowDecides ==
  ASSUME TablesInv
  PROVE  LastRunDecides
<1>. SUFFICES ASSUME NEW e \in JobList(NoFilter), NEW d, d = JobDetail(e.key),
                    Cardinality(e.unfinished) = 1
     PROVE  e.unfinished = {~ d.rows[Len(d.rows)].done}
  BY DEF LastRunDecides
<1>1. PICK x \in Cls(NoFilter) : x \in RowsOfJob(NoFilter, x.key)
                                 /\ e = JobEntry(RowsOfJob(NoFilter, x.key))
  BY ListedJob
<1>2. PICK k, rows : k = x.key /\ rows = RowsOfJob(NoFilter, k)
  OBVIOUS
<1>3. rows # {} /\ x \in rows /\ \A y \in rows : y.key = x.key
  BY <1>1, <1>2 DEF RowsOfJob
<1>4. e.key = k /\ e.unfinished = UnfinishedOf(rows)
  BY <1>1, <1>2, <1>3, JobEntrySays
<1>5. PICK n, z : n = Cardinality(rows) /\ z = InOrder(rows)[n]
  OBVIOUS
<1>6. n \in Nat \ {0} /\ z \in rows /\ \E l \in z.last : NotDone(l) = NotDone(z)
  BY <1>2, <1>3, <1>5, LastRowIsLast
<1>7. Len(d.rows) = n /\ d.rows[n].done = Finished(z)
  <2>1. d = JobDetail(k)
    BY <1>4
  <2>2. /\ Len(d.rows) = Cardinality(rows)
        /\ \A i \in 1 .. Cardinality(rows) : d.rows[i].done = Finished(InOrder(rows)[i])
    BY <1>2, <1>3, <2>1, DetailSays
  <2>. QED  BY <1>5, <1>6, <2>2
<1>8. NotDone(z) \in e.unfinished
  <2>1. PICK l \in z.last : NotDone(l) = NotDone(z)
    BY <1>6
  <2>2. l \in UNION {r.last : r \in rows}
    BY <1>6, <2>1
  <2>. QED  BY <1>4, <2>1, <2>2 DEF UnfinishedOf
<1>9. PICK u : e.unfinished = {u}
  <2>1. PICK set : set = e.unfinished
    OBVIOUS
  <2>2. set \subseteq {TRUE, FALSE}
    <3>1. \A l : NotDone(l) \in {TRUE, FALSE}
      BY DEF NotDone, Finished
    <3>. QED  BY <1>4, <2>1, <3>1 DEF UnfinishedOf
  <2>3. IsFiniteSet({TRUE, FALSE})
    <3>1. IsFiniteSet({TRUE})
      BY FS_Singleton
    <3>2. IsFiniteSet({TRUE} \cup {FALSE})
      BY <3>1, FS_AddElement
    <3>3. {TRUE} \cup {FALSE} = {TRUE, FALSE}
      BY Zenon
    <3>. QED  BY <3>2, <3>3
  <2>4. IsFiniteSet(set)
    BY <2>2, <2>3, FS_Subset
  <2>. QED  BY <2>1, <2>4, FS_Singleton
<1>10. e.unfinished = {NotDone(z)}
  BY <1>8, <1>9
<1>11. NotDone(z) = ~ d.rows[Len(d.rows)].done
  BY <1>7 DEF NotDone
<1>. QED  BY <1>10, <1>11

-----------------------------------------------------------------------------
(* A job of the list and its page.                                         *)

\* The rows of a press on the page of a job.
MachineEntry(g) ==
   [machine |-> (CHOOSE r \in g : TRUE).machine,
    runs    |-> Cardinality(g),
    clicks  |-> Total(g, Clicks),
    sheets  |-> Total(g, LAMBDA r : r.sheets),
    sets    |-> Total(g, LAMBDA r : r.sets),
    runtime |-> Total(g, LAMBDA r : OrZero(DurationS(r))),
    firstTs |-> Min({Ts(r) : r \in g}),
    last    |-> Max(Days0(g))]

OfMachine(rows, m) == {r \in rows : r.machine = m}

LEMMA MachineEntrySays ==
  ASSUME NEW found, NEW m, NEW g, g = OfMachine(found, m), g # {}, NEW b, b = MachineEntry(g)
  PROVE  /\ b \in ByMachine(found) /\ b.machine = m /\ b.runs = Cardinality(g)
         /\ b.clicks = ClicksOf(g) /\ b.sheets = SheetsOfRows(g) /\ b.sets = SetsOf(g)
         /\ b.runtime = DurationOf(g) /\ b.firstTs = Min(StartsOf(g)) /\ b.last = Max(Days0(g))
<1>1. ByMachine(found) = {MachineEntry(OfMachine(found, n)) : n \in MachinesOf(found)}
  <2>1. ByMachine(found) = {MachineEntry(p) : p \in Groups(found, LAMBDA r : r.machine)}
    BY DEF ByMachine, MachineEntry
  <2>2. Groups(found, LAMBDA r : r.machine) = {OfMachine(found, n) : n \in MachinesOf(found)}
    BY DEF Groups, OfMachine, MachinesOf
  <2>. QED  BY <2>1, <2>2
<1>2. m \in MachinesOf(found)
  BY DEF OfMachine, MachinesOf
<1>3. (CHOOSE r \in g : TRUE).machine = m
  BY DEF OfMachine
<1>4. b.machine = m /\ b.runs = Cardinality(g) /\ b.clicks = ClicksOf(g)
      /\ b.sheets = SheetsOfRows(g) /\ b.sets = SetsOf(g) /\ b.runtime = DurationOf(g)
      /\ b.firstTs = Min(StartsOf(g)) /\ b.last = Max(Days0(g))
  BY <1>3 DEF MachineEntry, ClicksOf, SheetsOfRows, SetsOf, DurationOf, StartsOf
<1>. QED  BY <1>1, <1>2, <1>4

LEMMA MachinesOfPage ==
  ASSUME NEW found
  PROVE  {b.machine : b \in ByMachine(found)} = MachinesOf(found)
<1>1. ByMachine(found) = {MachineEntry(OfMachine(found, n)) : n \in MachinesOf(found)}
  <2>1. ByMachine(found) = {MachineEntry(p) : p \in Groups(found, LAMBDA r : r.machine)}
    BY DEF ByMachine, MachineEntry
  <2>2. Groups(found, LAMBDA r : r.machine) = {OfMachine(found, n) : n \in MachinesOf(found)}
    BY DEF Groups, OfMachine, MachinesOf
  <2>. QED  BY <2>1, <2>2
<1>2. ASSUME NEW n \in MachinesOf(found) PROVE MachineEntry(OfMachine(found, n)).machine = n
  <2>1. PICK g, b : g = OfMachine(found, n) /\ b = MachineEntry(g)
    OBVIOUS
  <2>2. g # {}
    BY <2>1 DEF OfMachine, MachinesOf
  <2>3. b.machine = n
    BY <2>1, <2>2, MachineEntrySays
  <2>. QED  BY <2>1, <2>3
<1>. QED  BY <1>1, <1>2

\* Under no press: the same rows on both sides.
LEMMA JobOfTheList ==
  ASSUME TablesInv, NEW e \in JobList(NoFilter), NEW d, d = JobDetail(e.key)
  PROVE  /\ e.clicks = d.clicks /\ e.sets = d.sets /\ e.sheets = d.sheets
         /\ e.bw = d.bw /\ e.colour = d.colour /\ e.proofs = d.proofs
         /\ e.rows = Len(d.rows) /\ (StampsAlike(e.key, "") => OrZero(e.runtime) = d.runtime)
         /\ e.first = Min(d.days) /\ e.last = Max(d.days)
         /\ e.machines = {b.machine : b \in d.byMachine}
<1>1. PICK x \in Cls(NoFilter) : x \in RowsOfJob(NoFilter, x.key)
                                 /\ e = JobEntry(RowsOfJob(NoFilter, x.key))
  BY ListedJob
<1>2. PICK k, rows : k = x.key /\ rows = RowsOfJob(NoFilter, k)
  OBVIOUS
<1>3. rows # {} /\ x \in rows /\ \A y \in rows : y.key = x.key
  BY <1>1, <1>2 DEF RowsOfJob
<1>4. /\ e.key = k /\ e.rows = Cardinality(rows)
      /\ e.clicks = ClicksOf(rows) /\ e.sets = SetsOf(rows) /\ e.sheets = SheetsOfRows(rows)
      /\ e.runtime = RuntimeOf(rows) /\ e.bw = BwOf(rows) /\ e.colour = ColourOf(rows)
      /\ e.proofs = ProofsOf(rows)
      /\ e.first = Min(Days0(rows)) /\ e.last = Max(Days0(rows)) /\ e.machines = MachinesOf(rows)
  BY <1>1, <1>2, <1>3, JobEntrySays
<1>5. d = JobDetail(k)
  BY <1>4
<1>6. /\ d.clicks = ClicksOf(rows) /\ d.sets = SetsOf(rows) /\ d.sheets = SheetsOfRows(rows)
      /\ d.bw = BwOf(rows) /\ d.colour = ColourOf(rows) /\ d.proofs = ProofsOf(rows)
      /\ d.days = Days0(rows) /\ d.runtime = DurationOf(rows) /\ d.byMachine = ByMachine(rows)
      /\ Len(d.rows) = Cardinality(rows)
  BY <1>2, <1>3, <1>5, DetailSays
<1>7. StampsAlike(k, "") => OrZero(RuntimeOf(rows)) = DurationOf(rows)
  <2>. SUFFICES ASSUME StampsAlike(k, "") PROVE OrZero(RuntimeOf(rows)) = DurationOf(rows)
    OBVIOUS
  <2>1. rows \in SUBSET Cls(NoFilter)
    BY <1>2 DEF RowsOfJob
  <2>2. ASSUME NEW y \in rows, NEW r \in jobs, SameRun(y, r) PROVE ReadAlike(r)
    <3>1. y.key = Key(r) /\ y.key = k
      BY <1>2, <1>3, <2>1, <2>2, RowOfItsRun
    <3>. QED  BY <3>1 DEF StampsAlike
  <2>. QED  BY <2>1, <2>2, RuntimeIsDuration
<1>8. {b.machine : b \in d.byMachine} = MachinesOf(rows)
  BY <1>6, MachinesOfPage
<1>. QED  BY <1>4, <1>6, <1>7, <1>8

OfPress(m) == [NoFilter EXCEPT !.machine = m]

SameFigures(e, b, m) ==
  /\ e.rows = b.runs /\ e.clicks = b.clicks /\ e.sheets = b.sheets
  /\ e.sets = b.sets /\ (StampsAlike(e.key, m) => OrZero(e.runtime) = b.runtime)
  /\ e.firstTs = b.firstTs /\ e.last = b.last

\* Under a press: the rows of the list and of the page stand for the same runs.
LEMMA JobOfThePress ==
  ASSUME TablesInv, NEW m, m # "", NEW f, f = OfPress(m),
         NEW e \in JobList(f), NEW d, d = JobDetail(e.key)
  PROVE  \E b \in d.byMachine : b.machine = m /\ SameFigures(e, b, m)
<1>1. PICK x \in Cls(f) : x \in RowsOfJob(f, x.key) /\ e = JobEntry(RowsOfJob(f, x.key))
  <2>1. \E x \in Cls(f) : /\ x.key # NoKey /\ x \in RowsOfJob(f, x.key)
                         /\ e = JobEntry(RowsOfJob(f, x.key))
    BY ONLY e \in JobList(f), ListedJob
  <2>. QED  BY <2>1
<1>0. PICK k : k = x.key
  OBVIOUS
<1>2. PICK rows \in SUBSET Cls(f) : rows = RowsOfJob(f, x.key) /\ rows = RowsOfJob(f, k)
  BY <1>0 DEF RowsOfJob
<1>3. x \in rows /\ \A y \in rows : y.key = x.key
  BY <1>1, <1>2 DEF RowsOfJob
<1>4. /\ e.key = k /\ e.rows = Cardinality(rows)
      /\ e.clicks = ClicksOf(rows) /\ e.sets = SetsOf(rows) /\ e.sheets = SheetsOfRows(rows)
      /\ e.runtime = RuntimeOf(rows) /\ e.firstTs = Min(StartsOf(rows))
      /\ e.last = Max(Days0(rows))
  <2>1. e = JobEntry(rows)
    BY <1>1, <1>2
  <2>2. e.key = x.key
    BY ONLY <1>3, <2>1, JobEntrySays
  <2>. QED  BY ONLY <1>0, <1>2, <1>3, <2>1, <2>2, JobEntrySays
<1>5. PICK found, g \in SUBSET Cls(NoFilter) :
        found = RowsOfJob(NoFilter, k) /\ g = OfMachine(found, m)
  BY DEF RowsOfJob, OfMachine
<1>6. PICK runs \in SUBSET jobs : runs = {r \in jobs : Key(r) = k /\ r.machine = m}
  OBVIOUS
<1>7. \A r \in jobs : Matches(r, NoFilter) /\ (Matches(r, f) <=> r.machine = m)
  <2>1. \A r \in jobs : Matches(r, NoFilter)
    BY NoFilterSelectsAll
  <2>2. /\ f.machine = m /\ f.from = NoFilter.from /\ f.to = NoFilter.to /\ f.q = NoFilter.q
        /\ f.jobtype = NoFilter.jobtype /\ f.exclude = NoFilter.exclude
        /\ f.result = NoFilter.result /\ NoFilter.machine = ""
    BY DEF OfPress, NoFilter
  <2>. QED  BY <2>1, <2>2 DEF Matches
<1>8. Stands(rows, runs)
  <2>1. ASSUME NEW y \in rows PROVE \E r \in runs : SameRun(y, r)
    <3>1. PICK r \in jobs : Matches(r, f) /\ SameRun(y, r) /\ y.key = Key(r)
      BY RunOfRow
    <3>. QED  BY <1>2, <1>6, <1>7, <3>1 DEF RowsOfJob
  <2>2. ASSUME NEW r \in runs PROVE \E y \in rows : SameRun(y, r)
    <3>1. r \in jobs /\ Matches(r, f)
      BY <1>6, <1>7
    <3>2. PICK y \in Cls(f) : {z \in Cls(f) : SameRun(z, r)} = {y}
      BY <3>1, RowOfRun
    <3>3. SameRun(y, r)
      BY <3>2
    <3>4. y.key = Key(r)
      BY <3>1, <3>3, RowOfItsRun
    <3>. QED  BY <1>2, <1>6, <3>3, <3>4 DEF RowsOfJob
  <2>. QED  BY <2>1, <2>2 DEF Stands
<1>9. Stands(g, runs)
  <2>1. ASSUME NEW y \in g PROVE \E r \in runs : SameRun(y, r)
    <3>1. PICK r \in jobs : SameRun(y, r) /\ y.key = Key(r) /\ y.machine = r.machine
      BY RunOfRow DEF SameRun
    <3>. QED  BY <1>5, <1>6, <3>1 DEF RowsOfJob, OfMachine
  <2>2. ASSUME NEW r \in runs PROVE \E y \in g : SameRun(y, r)
    <3>1. r \in jobs /\ Matches(r, NoFilter)
      BY <1>6, <1>7
    <3>2. PICK y \in Cls(NoFilter) : {z \in Cls(NoFilter) : SameRun(z, r)} = {y}
      BY <3>1, RowOfRun
    <3>3. SameRun(y, r)
      BY <3>2
    <3>4. y.key = Key(r) /\ y.machine = r.machine
      BY <3>1, <3>3, RowOfItsRun DEF SameRun
    <3>. QED  BY <1>5, <1>6, <3>3, <3>4 DEF RowsOfJob, OfMachine
  <2>. QED  BY <2>1, <2>2 DEF Stands
<1>10. g # {} /\ found # {}
  <2>1. PICK r \in runs : SameRun(x, r)
    BY <1>3, <1>8 DEF Stands
  <2>2. g # {}
    BY <1>9, <2>1 DEF Stands
  <2>. QED  BY <1>5, <2>2 DEF OfMachine
<1>11. PICK b : b = MachineEntry(g)
  OBVIOUS
<1>12. /\ b \in ByMachine(found) /\ b.machine = m /\ b.runs = Cardinality(g)
       /\ b.clicks = ClicksOf(g) /\ b.sheets = SheetsOfRows(g) /\ b.sets = SetsOf(g)
       /\ b.runtime = DurationOf(g) /\ b.firstTs = Min(StartsOf(g)) /\ b.last = Max(Days0(g))
  <2>1. g = OfMachine(found, m) /\ g # {}
    BY <1>5, <1>10
  <2>. QED  BY ONLY <1>11, <2>1, MachineEntrySays
<1>13. d.byMachine = ByMachine(found)
  <2>1. d = JobDetail(k)
    BY <1>4
  <2>. QED  BY <1>5, <1>10, <2>1, DetailSays
<1>14. Cardinality(rows) = Cardinality(g)
  BY <1>8, <1>9, CountOverRuns
<1>15. ClicksOf(rows) = ClicksOf(g)
  BY <1>8, <1>9, ClicksOverRuns DEF Stands, ClicksOf
<1>16. SheetsOfRows(rows) = SheetsOfRows(g)
  BY <1>8, <1>9, SheetsOverRuns
<1>17. SetsOf(rows) = SetsOf(g)
  BY <1>8, <1>9, SetsOverRuns
<1>18. StampsAlike(k, m) => OrZero(RuntimeOf(rows)) = DurationOf(g)
  <2>. SUFFICES ASSUME StampsAlike(k, m) PROVE OrZero(RuntimeOf(rows)) = DurationOf(g)
    OBVIOUS
  <2>1. ASSUME NEW y \in rows, NEW r \in jobs, SameRun(y, r) PROVE ReadAlike(r)
    <3>1. PICK q \in runs : SameRun(y, q)
      BY <1>8 DEF Stands
    <3>2. q = r
      BY <2>1, <3>1, RunIsOne
    <3>3. Key(r) = k /\ r.machine = m
      BY <1>6, <3>2
    <3>. QED  BY <3>3 DEF StampsAlike
  <2>2. OrZero(RuntimeOf(rows)) = DurationOf(rows)
    BY <2>1, RuntimeIsDuration
  <2>3. DurationOf(rows) = DurationOf(runs) /\ DurationOf(g) = DurationOf(runs)
    BY <1>8, <1>9, DurationOverRuns
  <2>. QED  BY <2>2, <2>3
<1>19. StartsOf(rows) = StartsOf(g) /\ Days0(rows) = Days0(g)
  BY <1>8, <1>9, DaysOverRuns
<1>. QED
  BY <1>4, <1>12, <1>13, <1>14, <1>15, <1>16, <1>17, <1>18, <1>19
     DEF SameFigures

LEMMA ListHasThePage ==
  ASSUME TablesInv
  PROVE  ListAgreesWithDetail
<1>. SUFFICES ASSUME NEW m \in Configured \cup {""},
                    NEW e \in ApiJobs([NoFilter EXCEPT !.machine = m]).jobs
     PROVE  LET d == JobDetailView(e.key) IN
            IF m = ""
            THEN /\ e.clicks = d.clicks /\ e.sets = d.sets /\ e.sheets = d.sheets
                 /\ e.bw = d.bw /\ e.colour = d.colour /\ e.proofs = d.proofs
                 /\ e.rows = Len(d.rows)
                 /\ (StampsAlike(e.key, m) => OrZero(e.runtime) = d.runtime)
                 /\ e.first = Min(d.days) /\ e.last = Max(d.days)
                 /\ e.machines = {b.machine : b \in d.byMachine}
            ELSE \E b \in d.byMachine :
                 /\ b.machine = m
                 /\ e.rows = b.runs /\ e.clicks = b.clicks /\ e.sheets = b.sheets
                 /\ e.sets = b.sets
                 /\ (StampsAlike(e.key, m) => OrZero(e.runtime) = b.runtime)
                 /\ e.firstTs = b.firstTs /\ e.last = b.last
  BY DEF ListAgreesWithDetail
<1>. DEFINE d == JobDetail(e.key)
            f == OfPress(m)
<1>1. DOMAIN f = DOMAIN NoFilter /\ f.machine = m
  BY DEF OfPress, NoFilter
<1>2. MachineParam(f) = f
  BY <1>1 DEF OfPress, MachineParam, NoFilter
<1>3. e \in JobList(f)
  BY <1>2 DEF ApiJobs, OfPress
<1>4. CASE m = ""
  <2>1. f = NoFilter
    <3>1. PICK g : g = OfPress("")
      OBVIOUS
    <3>2. g = NoFilter
      BY ONLY <3>1 DEF OfPress, NoFilter
    <3>. QED  BY <1>4, <3>1, <3>2
  <2>2. /\ e.clicks = d.clicks /\ e.sets = d.sets /\ e.sheets = d.sheets
        /\ e.bw = d.bw /\ e.colour = d.colour /\ e.proofs = d.proofs
        /\ e.rows = Len(d.rows) /\ (StampsAlike(e.key, "") => OrZero(e.runtime) = d.runtime)
        /\ e.first = Min(d.days) /\ e.last = Max(d.days)
        /\ e.machines = {b.machine : b \in d.byMachine}
    <3>. HIDE DEF f
    <3>. QED  BY <1>3, <2>1, JobOfTheList
  <2>. QED  BY <1>4, <2>2 DEF JobDetailView
<1>5. CASE m # ""
  <2>1. \E b \in d.byMachine : b.machine = m /\ SameFigures(e, b, m)
    BY <1>3, <1>5, JobOfThePress
  <2>. QED  BY <1>5, <2>1 DEF JobDetailView, SameFigures
<1>. QED  BY <1>4, <1>5

-----------------------------------------------------------------------------
(* Three promises of the pages.                                            *)

LEMMA PageHasTheSheets ==
  ASSUME TablesInv, NEW d \in Detail
  PROVE  /\ d.sheets = SheetsOfGrades(d.material)
         /\ \A i \in DOMAIN d.rows : SheetsOf(d.rows[i].media) = d.rows[i].sheets
<1>1. PICK q \in jobs : d = JobDetail(Key(q))
  BY DEF Detail
<1>2. PICK k : k = Key(q)
  OBVIOUS
<1>3. PICK found \in SUBSET Cls(NoFilter) : found = RowsOfJob(NoFilter, k)
  BY DEF RowsOfJob
<1>4. PICK P \in SUBSET jobs : P = {r \in jobs : Key(r) = k}
  OBVIOUS
<1>5. Stands(found, P)
  <2>1. ASSUME NEW x \in found PROVE \E r \in P : SameRun(x, r)
    <3>1. PICK r \in jobs : SameRun(x, r) /\ x.key = Key(r)
      BY RunOfRow
    <3>. QED  BY <1>3, <1>4, <3>1 DEF RowsOfJob
  <2>2. ASSUME NEW r \in P PROVE \E x \in found : SameRun(x, r)
    <3>1. r \in jobs /\ Matches(r, NoFilter)
      BY <1>4, NoFilterSelectsAll
    <3>2. PICK x \in Cls(NoFilter) : {z \in Cls(NoFilter) : SameRun(z, r)} = {x}
      BY <3>1, RowOfRun
    <3>3. SameRun(x, r)
      BY <3>2
    <3>4. x.key = Key(r)
      BY <3>1, <3>3, RowOfItsRun
    <3>. QED  BY <1>3, <1>4, <3>3, <3>4 DEF RowsOfJob
  <2>. QED  BY <2>1, <2>2 DEF Stands
<1>6. found # {}
  BY <1>2, <1>4, <1>5 DEF Stands
<1>7. /\ d.sheets = SheetsOfRows(found) /\ d.material = MaterialSummary(k)
      /\ DOMAIN d.rows = 1 .. Cardinality(found)
      /\ \A i \in 1 .. Cardinality(found) :
           /\ d.rows[i].media = MediaByLine(k, InOrder(found)[i])
           /\ d.rows[i].sheets = InOrder(found)[i].sheets
  <2>1. d = JobDetail(k)
    BY <1>1, <1>2
  <2>. QED  BY ONLY TablesInv, <1>3, <1>6, <2>1, DetailSays
<1>8. d.sheets = SheetsOfGrades(d.material)
  <2>1. SheetsOfGrades(MaterialSummary(k)) = SheetsOfRuns(P)
    BY <1>4, MaterialHasTheSheets
  <2>2. SheetsOfRows(found) = SheetsOfRuns(P)
    BY <1>5, SheetsOverRuns
  <2>. QED  BY <1>7, <2>1, <2>2
<1>9. ASSUME NEW i \in 1 .. Cardinality(found)
      PROVE  SheetsOf(d.rows[i].media) = d.rows[i].sheets
  <2>1. IsFiniteSet(found) /\ Stamped(found)
    BY RowsAreStamped
  <2>2. InOrder(found)[i] \in found
    BY <2>1, OrderIsListing
  <2>3. PICK x \in found : x = InOrder(found)[i]
    BY <2>2
  <2>4. x.key = k
    BY <1>3 DEF RowsOfJob
  <2>5. SheetsOf(MediaByLine(k, x)) = x.sheets
    BY <2>4, MediaOfARow
  <2>. QED  BY <1>7, <2>3, <2>5
<1>. QED  BY <1>7, <1>8, <1>9

\* The sheets of the paper page and of the material of a job are the sheets of
\* the runs they cover, and each row of a job shows the trays its sheets are
\* summed from, for any tables the imports can have built, when no counter is
\* negative: the paper page leaves out a grade without sheets.
THEOREM PaperHasTheSheetsOfTheRuns ==
  ASSUME CountersAreCounts PROVE Spec => []PaperAgreesWithRuns
<1>1. ASSUME TablesInv PROVE PaperAgreesWithRuns
  <2>1. ASSUME NEW f \in Filters, f.q = {}
        PROVE  Total(PaperUsage(f), LAMBDA g : g.sheets) = Total(Cls(f), LAMBDA r : r.sheets)
    <3>1. PICK P \in SUBSET jobs : P = {r \in jobs : Matches(r, f)}
      OBVIOUS
    <3>2. SheetsOfGrades(PaperUsage(f)) = SheetsOfRuns(P)
      BY <1>1, <2>1, <3>1, FiltersAssumption, PaperHasTheSheets
    <3>3. SheetsOfRows(Cls(f)) = SheetsOfRuns(P)
      BY <1>1, <3>1, SheetsOfAReport
    <3>. QED  BY <3>2, <3>3 DEF SheetsOfGrades, SheetsOfRows
  <2>2. ASSUME NEW d \in Detail
        PROVE  /\ d.sheets = Total(d.material, LAMBDA g : g.sheets)
               /\ \A i \in DOMAIN d.rows : SheetsOf(d.rows[i].media) = d.rows[i].sheets
    BY <1>1, PageHasTheSheets DEF SheetsOfGrades
  <2>. QED  BY <2>1, <2>2 DEF PaperAgreesWithRuns
<1>. QED  BY <1>1, TablesHoldTheLog, PTL

\* The list takes a job for unfinished exactly when the last row of its page is,
\* for any tables the imports can have built, unless presses tie for that row.
THEOREM ListFollowsTheLastRow == Spec => []LastRunDecides
<1>1. TablesInv => LastRunDecides
  BY LastRowDecides
<1>. QED  BY <1>1, TablesHoldTheLog, PTL

\* A job of the list has the figures of its page, under a press those the page
\* gives for the press, for any tables the imports can have built: SQL and Python
\* sum the same runs, and where none of their stamps is read by one of the two
\* alone they derive one runtime from each.
THEOREM JobsHaveTheirPage == Spec => []ListAgreesWithDetail
<1>1. TablesInv => ListAgreesWithDetail
  BY ListHasThePage
<1>. QED  BY <1>1, TablesHoldTheLog, PTL

=============================================================================
