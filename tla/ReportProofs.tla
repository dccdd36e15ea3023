---------------------------- MODULE ReportProofs ----------------------------
(***************************************************************************)
(* What the reports make of the tables: every run once, every click and    *)
(* every sheet once, and one runtime on both ways it is computed.          *)
(***************************************************************************)
EXTENDS Pages, TableProofs

-----------------------------------------------------------------------------
(* The runtime of a run is computed twice, in SQL for the lists and the    *)
(* month statistics and in Python for the detail page and the export.      *)

\* The order of two stamps is the same as text and as instants.
LEMMA OrderOfText ==
  ASSUME NEW c \in Dates, NEW d \in Dates, NEW s \in 1 .. LastClock, NEW t \in 1 .. LastClock
  PROVE  Text(c, s) >= Text(d, t) <=> Instant(c, s) >= Instant(d, t)
<1>. DEFINE Order == c > d \/ (c = d /\ s >= t)
<1>0. LastClock \in Nat \ {0}
  BY LastClockAssumption
<1>1. s \in Int /\ t \in Int /\ 1 <= s /\ s <= LastClock /\ 1 <= t /\ t <= LastClock
  BY <1>0
<1>2. ASSUME NEW k \in Nat, k >= LastClock
      PROVE  c * k + s >= d * k + t <=> Order
  <2>1. CASE c = d
    BY <2>1, <1>1, <1>2 DEF Dates
  <2>2. CASE c > d
    <3>1. PICK e \in Nat : c = d + 1 + e
      <4>1. c - d - 1 \in Nat
        BY <2>2 DEF Dates
      <4>. QED  BY <4>1 DEF Dates
    <3>2. c * k = d * k + k + e * k
      BY <3>1, <1>2 DEF Dates
    <3>3. e * k >= 0
      BY <3>1, <1>2
    <3>. QED  BY <3>2, <3>3, <1>1, <1>2, <2>2, <1>0 DEF Dates
  <2>3. CASE c < d
    <3>1. PICK e \in Nat : d = c + 1 + e
      <4>1. d - c - 1 \in Nat
        BY <2>3 DEF Dates
      <4>. QED  BY <4>1 DEF Dates
    <3>2. d * k = c * k + k + e * k
      BY <3>1, <1>2 DEF Dates
    <3>3. e * k >= 0
      BY <3>1, <1>2
    <3>. QED  BY <3>2, <3>3, <1>1, <1>2, <2>3, <1>0 DEF Dates
  <2>. QED  BY <2>1, <2>2, <2>3 DEF Dates
<1>3. Text(c, s) >= Text(d, t) <=> Order
  BY <1>2, <1>0 DEF Text
<1>4. Instant(c, s) >= Instant(d, t) <=> Order
  BY <1>2, <1>0 DEF Instant
<1>. QED  BY <1>3, <1>4

\* A stamp is a number to a reader, or nothing.
LEMMA StampIsInt ==
  ASSUME NEW d \in Dates, NEW t \in Fields, NEW reader \in {"sql", "py"}
  PROVE  ReadBy(reader, d, t) \in Int \cup {NoTime}
<1>1. Day(d, reader) \in Int \cup {NoTime}
  <2>1. CASE d \in DOMAIN OddDates
    BY <2>1, OddAssumption DEF Day, Readings
  <2>2. CASE d \notin DOMAIN OddDates
    BY <2>2 DEF Day, Dates
  <2>. QED  BY <2>1, <2>2
<1>2. Time(t, reader) \in Int \cup {NoTime}
  <2>1. CASE t \in DOMAIN OddClocks
    BY <2>1, OddAssumption DEF Time, Readings
  <2>2. CASE t \notin DOMAIN OddClocks
    BY <2>2, LastClockAssumption DEF Time, Fields
  <2>. QED  BY <2>1, <2>2
<1>3. PICK day, time : day = Day(d, reader) /\ time = Time(t, reader)
  OBVIOUS
<1>4. day \in Int /\ time \in Int => Instant(day, time) \in Int
  BY LastClockAssumption DEF Instant
<1>. QED  BY <1>1, <1>2, <1>3, <1>4 DEF ReadBy

\* A date and a clock field that the readers take alike are nothing to both, or
\* the instant of their own ranks.
LEMMA StampReadAlike ==
  ASSUME NEW d \in Dates, NEW t \in Fields,
         d \in DOMAIN OddDates => Unread(OddDates[d]),
         t \in DOMAIN OddClocks => Unread(OddClocks[t])
  PROVE  /\ SqlStamp(d, t) = ParseStamp(d, t)
         /\ SqlStamp(d, t) # NoTime => d # Empty /\ t \in 1 .. LastClock /\ SqlStamp(d, t) = Instant(d, t)
<1>1. /\ d \in DOMAIN OddDates => Day(d, "sql") = NoTime /\ Day(d, "py") = NoTime
      /\ d \notin DOMAIN OddDates => Day(d, "sql") = d /\ Day(d, "py") = d
  BY DEF Day, Unread
<1>2. /\ t \in DOMAIN OddClocks => Time(t, "sql") = NoTime /\ Time(t, "py") = NoTime
      /\ t \notin DOMAIN OddClocks => Time(t, "sql") = t /\ Time(t, "py") = t
  BY DEF Time, Unread
<1>3. t # Empty => t \in 1 .. LastClock
  BY LastClockAssumption DEF Fields, Empty
<1>. QED  BY <1>1, <1>2, <1>3 DEF SqlStamp, ParseStamp, ReadBy

\* _RUNTIME_S mirrors duration_s for every run whose stamps are written as the
\* press writes them, empty, or no stamp to either reader (reports.py:123, 788):
\* the list, which sums the runtime in SQL, and the detail page and the export,
\* which compute it in Python, then agree.  A run with a stamp that SQLite or
\* Python alone can read is left out: it has a runtime on one way only.
THEOREM RuntimeMirrorsDuration ==
  ASSUME NEW r \in RunStamps, ReadAlike(r)
  PROVE  RuntimeS(r) = DurationS(r)
<1>1. PICK e \in Dates : e = CompletedDate(r)
  BY DEF RunStamps, CompletedDate
<1>2. /\ r.startdate \in Dates /\ r.starttime \in Fields /\ r.readytime \in Fields
      /\ e \in {r.startdate, r.readydate}
  BY <1>1 DEF RunStamps, CompletedDate
<1>3. PICK start, end : /\ start = SqlStamp(r.startdate, r.starttime)
                        /\ end = SqlStamp(e, r.readytime)
  OBVIOUS
<1>4. /\ start = ParseStamp(r.startdate, r.starttime)
      /\ start # NoTime => /\ r.startdate # Empty /\ r.starttime \in 1 .. LastClock
                           /\ start = Instant(r.startdate, r.starttime)
  BY <1>2, <1>3, StampReadAlike DEF ReadAlike
<1>5. /\ end = ParseStamp(e, r.readytime)
      /\ end # NoTime => r.readytime \in 1 .. LastClock /\ end = Instant(e, r.readytime)
  BY <1>2, <1>3, StampReadAlike DEF ReadAlike
<1>6. CASE start # NoTime /\ end # NoTime
  <2>1. start \in Int /\ end \in Int
    BY <1>2, <1>3, <1>6, StampIsInt DEF SqlStamp
  <2>2. r.starttime # Empty /\ r.readytime # Empty
    BY <1>4, <1>5, <1>6, LastClockAssumption DEF Empty
  <2>3. Text(e, r.readytime) >= Ts(r) <=> end >= start
    BY <1>2, <1>4, <1>5, <1>6, OrderOfText DEF Ts
  <2>4. RuntimeS(r) = IF end >= start THEN end - start ELSE NoTime
    BY <1>1, <1>3, <1>4, <1>6, <2>2, <2>3 DEF RuntimeS
  <2>5. DurationS(r) = IF end < start THEN NoTime ELSE end - start
    BY <1>1, <1>4, <1>5, <1>6 DEF DurationS
  <2>. QED  BY <2>1, <2>4, <2>5
<1>7. CASE ~ (start # NoTime /\ end # NoTime)
  <2>1. RuntimeS(r) = NoTime
    BY <1>1, <1>3, <1>7 DEF RuntimeS
  <2>2. DurationS(r) = NoTime
    BY <1>1, <1>4, <1>5, <1>7 DEF DurationS
  <2>. QED  BY <2>1, <2>2
<1>. QED  BY <1>6, <1>7

-----------------------------------------------------------------------------
(* The rows of a report.                                                   *)

\* A finite set of numbers has a largest one, and Max is it.
LEMMA MaxOfFinite ==
  ASSUME NEW S \in SUBSET Int, IsFiniteSet(S), S # {}
  PROVE  Max(S) \in S /\ \A x \in S : x <= Max(S)
<1>1. PICK n \in Nat : ExistsBijection(1 .. n, S)
  BY FS_CardinalityType
<1>2. PICK f \in [1 .. n -> S] : \A x \in S : \E i \in 1 .. n : f[i] = x
  BY <1>1 DEF ExistsBijection, Bijection, Surjection
<1>. DEFINE T == {i \in 0 .. n : i = 0 \/ \E j \in 1 .. i : \A k \in 1 .. i : f[k] <= f[j]}
<1>3. 0 \in T
  OBVIOUS
<1>4. ASSUME NEW i \in 0 .. n, i # n, i \in T PROVE i + 1 \in T
  <2>1. i + 1 \in 1 .. n /\ i + 1 \in 0 .. n
    BY <1>4
  <2>2. ASSUME NEW k \in 1 .. i + 1 PROVE f[k] \in Int /\ (k \in 1 .. i \/ k = i + 1)
    <3>1. k \in 1 .. n /\ (k \in 1 .. i \/ k = i + 1)
      BY <2>1
    <3>. QED  BY <1>2, <3>1
  <2>3. CASE i = 0
    BY <2>1, <2>2, <2>3
  <2>4. CASE i # 0
    <3>1. PICK j \in 1 .. i : \A k \in 1 .. i : f[k] <= f[j]
      BY <1>4, <2>4
    <3>2. j \in 1 .. i + 1 /\ i + 1 \in 1 .. i + 1
      BY <2>1
    <3>3. CASE f[i + 1] <= f[j]
      <4>1. \A k \in 1 .. i + 1 : f[k] <= f[j]
        BY <2>2, <3>1, <3>3
      <4>. QED  BY <2>1, <3>2, <4>1
    <3>4. CASE ~ (f[i + 1] <= f[j])
      <4>1. \A k \in 1 .. i + 1 : f[k] <= f[i + 1]
        BY <2>2, <3>1, <3>2, <3>4
      <4>. QED  BY <2>1, <3>2, <4>1
    <3>. QED  BY <3>3, <3>4
  <2>. QED  BY <2>3, <2>4
<1>5. 0 .. n \subseteq T
  <2>. HIDE DEF T
  <2>. QED  BY <1>3, <1>4, UpTo
<1>6. n # 0
  <2>1. PICK x \in S : \E i \in 1 .. n : f[i] = x
    BY <1>2
  <2>. QED  BY <2>1
<1>7. PICK j \in 1 .. n : \A k \in 1 .. n : f[k] <= f[j]
  <2>1. n \in T
    <3>. HIDE DEF T
    <3>. QED  BY <1>5
  <2>. QED  BY <1>6, <2>1
<1>8. f[j] \in S /\ \A x \in S : f[j] >= x
  BY <1>2, <1>7
<1>. QED  BY <1>8 DEF Max

LEMMA ImageFinite ==
  ASSUME NEW f, IsFiniteSet(DOMAIN f)
  PROVE  IsFiniteSet({f[x] : x \in DOMAIN f})
<1>. DEFINE T == {f[x] : x \in DOMAIN f}
            g == [x \in DOMAIN f |-> f[x]]
<1>1. g \in Surjection(DOMAIN f, T)
  BY DEF Surjection
<1>. HIDE DEF g, T
<1>2. IsFiniteSet(T)
  BY <1>1, FS_Surjection
<1>. QED  BY <1>2 DEF T

LEMMA JobsFinite ==
  ASSUME TablesInv
  PROVE  IsFiniteSet(jobs)
<1>1. ASSUME NEW m \in Machines, NEW d \in Days PROVE IsFiniteSet(OfDay(jobs, m, d))
  <2>1. SourceType /\ DayIsRead(m, d)
    BY DEF TablesInv
  <2>2. IsFiniteSet({RunRow(m, d, i) : i \in 1 .. Imported(m, d)})
    BY <2>1, RowsOfADay DEF DayIsRead
  <2>. QED  BY <2>1, <2>2 DEF DayIsRead
<1>2. ASSUME NEW m \in Machines PROVE IsFiniteSet(UNION {OfDay(jobs, m, d) : d \in Days})
  <2>. DEFINE f == [d \in Days |-> OfDay(jobs, m, d)]
  <2>1. IsFiniteSet({f[d] : d \in DOMAIN f})
    <3>1. IsFiniteSet(DOMAIN f)
      BY PressesAssumption
    <3>. HIDE DEF f
    <3>. QED  BY <3>1, ImageFinite
  <2>2. \A T \in {f[d] : d \in DOMAIN f} : IsFiniteSet(T)
    BY <1>1
  <2>3. IsFiniteSet(UNION {f[d] : d \in DOMAIN f})
    <3>. HIDE DEF f
    <3>. QED  BY <2>1, <2>2, FS_UNION
  <2>4. {f[d] : d \in DOMAIN f} = {OfDay(jobs, m, d) : d \in Days}
    OBVIOUS
  <2>. QED  BY <2>3, <2>4
<1>. DEFINE g == [m \in Machines |-> UNION {OfDay(jobs, m, d) : d \in Days}]
<1>3. IsFiniteSet({g[m] : m \in DOMAIN g})
  <2>1. IsFiniteSet(DOMAIN g)
    BY PressesAssumption
  <2>. HIDE DEF g
  <2>. QED  BY <2>1, ImageFinite
<1>4. \A T \in {g[m] : m \in DOMAIN g} : IsFiniteSet(T)
  BY <1>2
<1>5. IsFiniteSet(UNION {g[m] : m \in DOMAIN g})
  <2>. HIDE DEF g
  <2>. QED  BY <1>3, <1>4, FS_UNION
<1>6. jobs \subseteq UNION {g[m] : m \in DOMAIN g}
  <2>1. \A r \in jobs : r.machine \in Machines /\ r.date \in Days /\ r \in OfDay(jobs, r.machine, r.date)
    BY DEF TablesInv, OfDay
  <2>. QED  BY <2>1
<1>. HIDE DEF g
<1>. QED  BY <1>5, <1>6, FS_Subset

LEMMA StampsAreInt ==
  ASSUME TablesTypeOK, NEW r \in jobs
  PROVE  Ts(r) \in Int
<1>1. r.startdate \in Int /\ r.starttime \in Int
  BY LastClockAssumption DEF TablesTypeOK, Dates, Fields
<1>. QED  BY <1>1, LastClockAssumption DEF Ts, Text

\* The runs of several sets, of a part of the table.
LEMMA MultiFacts ==
  ASSUME TablesInv, NEW J \in SUBSET jobs, NEW k
  PROVE  /\ MultiTs(J, k) \subseteq MultiTs(jobs, k)
         /\ MultiTs(J, k) \in SUBSET Int /\ IsFiniteSet(MultiTs(J, k))
<1>1. \A r \in jobs : Ts(r) \in Int
  BY TypesOfTables, StampsAreInt
<1>. DEFINE R == {r \in J : Key(r) = k /\ r.sets > 1}
            f == [r \in R |-> Ts(r)]
<1>2. IsFiniteSet(R)
  BY JobsFinite, FS_Subset
<1>3. IsFiniteSet({f[r] : r \in DOMAIN f})
  <2>1. IsFiniteSet(DOMAIN f)
    BY <1>2
  <2>. HIDE DEF f
  <2>. QED  BY <2>1, ImageFinite
<1>4. {f[r] : r \in DOMAIN f} = MultiTs(J, k)
  BY DEF MultiTs
<1>. QED  BY <1>1, <1>3, <1>4 DEF MultiTs

LEMMA RunTypeDemotes ==
  ASSUME TablesInv, NEW J \in SUBSET jobs, NEW r \in J
  PROVE  \/ RunType(r, J) = RunType(r, jobs)
         \/ RunType(r, J) = "Single" /\ RunType(r, jobs) = "Proof"
<1>. DEFINE part == MultiTs(J, Key(r))
            all  == MultiTs(jobs, Key(r))
<1>1. part \subseteq all /\ part \in SUBSET Int /\ all \in SUBSET Int
      /\ IsFiniteSet(part) /\ IsFiniteSet(all)
  BY MultiFacts
<1>2. Ts(r) \in Int
  BY TypesOfTables, StampsAreInt
<1>3. part # {} => /\ all # {} /\ Max(part) \in Int /\ Max(all) \in Int
                   /\ Max(part) <= Max(all)
  <2>. SUFFICES ASSUME part # {}
       PROVE  all # {} /\ Max(part) \in Int /\ Max(all) \in Int /\ Max(part) <= Max(all)
    OBVIOUS
  <2>. HIDE DEF part, all
  <2>1. Max(part) \in part
    BY <1>1, MaxOfFinite
  <2>2. all # {}
    BY <1>1
  <2>3. Max(all) \in all /\ \A x \in all : x <= Max(all)
    BY <1>1, <2>2, MaxOfFinite
  <2>. QED  BY <1>1, <2>1, <2>2, <2>3
<1>4. RunType(r, J) = IF r.sets > 1 THEN "Production"
        ELSE IF Key(r) # NoKey /\ part # {} /\ Ts(r) < Max(part) THEN "Proof" ELSE "Single"
  BY DEF RunType
<1>5. RunType(r, jobs) = IF r.sets > 1 THEN "Production"
        ELSE IF Key(r) # NoKey /\ all # {} /\ Ts(r) < Max(all) THEN "Proof" ELSE "Single"
  BY DEF RunType
<1>. HIDE DEF part, all
<1>6. part # {} /\ Ts(r) < Max(part) => all # {} /\ Ts(r) < Max(all)
  BY <1>2, <1>3
<1>. QED  BY <1>4, <1>5, <1>6

LEMMA NoFilterSelectsAll ==
  ASSUME TablesInv
  PROVE  {r \in jobs : Matches(r, NoFilter)} = jobs
<1>1. ASSUME NEW r \in jobs PROVE Matches(r, NoFilter)
  <2>1. r.startdate \in Nat
    BY TypesOfTables DEF TablesTypeOK, Dates
  <2>2. r.startdate >= Empty
    BY <2>1 DEF Empty
  <2>. QED  BY <2>2 DEF Matches, NoFilter
<1>. QED  BY <1>1

\* What a report keeps of a run, and what it adds.
Columns0 == {"machine", "date", "jobid", "seq", "jobtype", "jobname", "startdate", "starttime",
             "readydate", "readytime", "result", "sets", "bw", "colour"}

LEMMA ClassifiedRun ==
  ASSUME TablesInv, NEW r \in jobs, NEW s, NEW J
  PROVE  /\ \A c \in Columns0 : Classified(r, s, J)[c] = r[c]
         /\ SameRun(Classified(r, s, J), r)
         /\ Classified(r, s, J).key = Key(r) /\ Classified(r, s, J).sheets = s.sheets
         /\ Classified(r, s, J).runType = RunType(r, J)
<1>1. DOMAIN r = Columns0
  <2>1. PICK m \in Machines, d \in Days : \E i \in 1 .. Imported(m, d) :
               i \in 1 .. Len(log[m][d]) /\ r = RunRow(m, d, i)
    BY RowsOfTables
  <2>2. PICK i : r = RunRow(m, d, i)
    BY <2>1
  <2>3. PICK dict : dict = Dict(m, d, i)
    OBVIOUS
  <2>. QED  BY <2>2, <2>3 DEF RunRow, RowToDb, Columns0
<1>2. PICK x : x = Classified(r, s, J)
  OBVIOUS
<1>3. \A c \in Columns0 : x[c] = r[c]
  BY <1>1, <1>2 DEF Classified, With
<1>4. {"key", "sheets", "runType"} \cap Columns0 = {}
  BY DEF Columns0
<1>5. x.key = Key(r) /\ x.sheets = s.sheets /\ x.runType = RunType(r, J)
  BY <1>1, <1>2, <1>4 DEF Classified, With
<1>6. SameRun(x, r)
  BY <1>3 DEF SameRun, Columns0
<1>. QED  BY <1>2, <1>3, <1>5, <1>6

LEMMA Demotes ==
  ASSUME TablesInv
  PROVE  FilterOnlyDemotes
<1>. SUFFICES ASSUME NEW f \in Filters, NEW row \in Cls(f)
     PROVE  \E whole \in Cls(NoFilter) :
              /\ SameRun(row, whole)
              /\ row.runType = whole.runType \/ (row.runType = "Single" /\ whole.runType = "Proof")
  BY DEF FilterOnlyDemotes
<1>1. PICK J \in SUBSET jobs : J = {r \in jobs : Matches(r, f)}
  OBVIOUS
<1>2. PICK r \in J : \E s \in JoinedSheets(r) : row = Classified(r, s, J)
  BY <1>1 DEF Cls
<1>3. PICK s \in JoinedSheets(r) : row = Classified(r, s, J)
  BY <1>2
<1>4. Classified(r, s, jobs) \in Cls(NoFilter)
  BY <1>1, <1>2, NoFilterSelectsAll DEF Cls
<1>5. r \in jobs
  BY <1>1, <1>2
<1>6. SameRun(row, Classified(r, s, jobs))
  BY <1>3, <1>5, ClassifiedRun DEF SameRun, Columns0
<1>7. row.runType = RunType(r, J) /\ Classified(r, s, jobs).runType = RunType(r, jobs)
  BY <1>3, <1>5, ClassifiedRun
<1>. QED  BY <1>4, <1>6, <1>7, RunTypeDemotes

-----------------------------------------------------------------------------
(* No run is counted twice in a report.                                    *)

LEMMA JoinsOnce ==
  ASSUME NEW r
  PROVE  \E s : JoinedSheets(r) = {s}
<1>. DEFINE Row(s) == [machine |-> s.machine, date |-> s.date, jobid |-> s.jobid, seq |-> s.seq,
                       sheets  |-> SheetsOf({t \in media : SameRun(s, t)})]
            found == {s \in SheetsCte : SameRun(s, r)}
<1>1. \A s \in media : SameRun(s, r) => {t \in media : SameRun(s, t)} = {t \in media : SameRun(r, t)}
  BY DEF SameRun
<1>2. ASSUME NEW a \in found PROVE a =
        [machine |-> r.machine, date |-> r.date, jobid |-> r.jobid, seq |-> r.seq,
         sheets  |-> SheetsOf({t \in media : SameRun(r, t)})]
  <2>1. PICK s \in media : a = Row(s)
    BY DEF SheetsCte
  <2>2. /\ a.machine = s.machine /\ a.date = s.date /\ a.jobid = s.jobid /\ a.seq = s.seq
        /\ SameRun(a, r)
    BY <2>1
  <2>3. /\ s.machine = r.machine /\ s.date = r.date /\ s.jobid = r.jobid /\ s.seq = r.seq
        /\ SameRun(s, r)
    BY <2>2 DEF SameRun
  <2>4. {t \in media : SameRun(s, t)} = {t \in media : SameRun(r, t)}
    BY <1>1, <2>3
  <2>. QED  BY <2>1, <2>3, <2>4
<1>3. found # {} => \E s : found = {s}
  <2>1. PICK a : a =
        [machine |-> r.machine, date |-> r.date, jobid |-> r.jobid, seq |-> r.seq,
         sheets  |-> SheetsOf({t \in media : SameRun(r, t)})]
    OBVIOUS
  <2>2. \A b \in found : b = a
    BY <1>2, <2>1
  <2>. HIDE DEF found
  <2>. QED  BY <2>2
<1>. QED  BY <1>3 DEF JoinedSheets

\* The rows of a report and the runs it selects are in one to one correspondence.
LEMMA RunOfRow ==
  ASSUME TablesInv, NEW f, NEW x \in Cls(f)
  PROVE  \E r \in jobs : /\ Matches(r, f) /\ SameRun(x, r) /\ x.key = Key(r)
                         /\ \A c \in Columns0 : x[c] = r[c]
<1>1. PICK J \in SUBSET jobs : J = {q \in jobs : Matches(q, f)}
  OBVIOUS
<1>2. PICK q \in J : \E t \in JoinedSheets(q) : x = Classified(q, t, J)
  BY <1>1 DEF Cls
<1>3. PICK t \in JoinedSheets(q) : x = Classified(q, t, J)
  BY <1>2
<1>4. q \in jobs /\ Matches(q, f)
  BY <1>1, <1>2
<1>5. SameRun(x, q) /\ x.key = Key(q) /\ \A c \in Columns0 : x[c] = q[c]
  BY <1>3, <1>4, ClassifiedRun
<1>. QED  BY <1>4, <1>5

LEMMA RowOfRun ==
  ASSUME TablesInv, NEW f, NEW r \in jobs, Matches(r, f)
  PROVE  \E row \in Cls(f) : {x \in Cls(f) : SameRun(x, r)} = {row}
<1>1. PICK J \in SUBSET jobs : J = {q \in jobs : Matches(q, f)}
  OBVIOUS
<1>2. PICK s : JoinedSheets(r) = {s}
  BY JoinsOnce
<1>3. PICK row : row = Classified(r, s, J)
  OBVIOUS
<1>4. r \in J /\ row \in Cls(f)
  BY <1>1, <1>2, <1>3 DEF Cls
<1>5. SameRun(row, r)
  BY <1>3, ClassifiedRun
<1>6. ASSUME NEW x \in Cls(f), SameRun(x, r) PROVE x = row
  <2>1. PICK q \in J : \E t \in JoinedSheets(q) : x = Classified(q, t, J)
    BY <1>1 DEF Cls
  <2>2. PICK t \in JoinedSheets(q) : x = Classified(q, t, J)
    BY <2>1
  <2>3. SameRun(x, q) /\ q \in jobs
    BY <1>1, <2>1, <2>2, ClassifiedRun
  <2>4. q.machine = r.machine /\ q.date = r.date /\ q.seq = r.seq
    BY <1>6, <2>3 DEF SameRun
  <2>5. q = r
    BY <2>3, <2>4, MediaOfTables DEF MediaOfARun
  <2>. QED  BY <1>2, <1>3, <2>2, <2>5
<1>. QED  BY <1>4, <1>5, <1>6

\* A filter never makes a proof of a run that is none in the whole of its job.
THEOREM FiltersOnlyDemote == Spec => []FilterOnlyDemotes
<1>1. TablesInv => FilterOnlyDemotes
  BY Demotes
<1>. QED  BY <1>1, TablesHoldTheLog, PTL

\* Every report has one row for each run its filter selects, for any tables the
\* imports can have built.
THEOREM ReportsHaveEachRunOnce == Spec => []OneRowPerRun
<1>1. TablesInv => OneRowPerRun
  BY RowOfRun DEF OneRowPerRun
<1>. QED  BY <1>1, TablesHoldTheLog, PTL

-----------------------------------------------------------------------------
(* Sums.  SumFunction adds the values of a function in the order in which  *)
(* CHOOSE takes its arguments; over a finite domain the order is nothing.  *)

LEMMA SubsetInduction ==
  ASSUME NEW D, IsFiniteSet(D), NEW S, {} \in S,
         \A A \in SUBSET D : \A x \in D \ A : A \in S => A \cup {x} \in S
  PROVE  SUBSET D \subseteq S
<1>. DEFINE T == {i \in 0 .. Cardinality(D) : \A A \in SUBSET D : Cardinality(A) = i => A \in S}
<1>0. Cardinality(D) \in Nat
  BY FS_CardinalityType
<1>1. \A A \in SUBSET D : IsFiniteSet(A) /\ Cardinality(A) \in 0 .. Cardinality(D)
  BY <1>0, FS_Subset, FS_CardinalityType
<1>2. 0 \in T
  <2>1. \A A \in SUBSET D : Cardinality(A) = 0 => A = {}
    BY <1>1, FS_EmptySet
  <2>2. \A A \in SUBSET D : Cardinality(A) = 0 => A \in S
    BY <2>1
  <2>3. 0 \in 0 .. Cardinality(D)
    BY <1>0
  <2>. QED  BY <2>2, <2>3
<1>3. ASSUME NEW i \in 0 .. Cardinality(D), i # Cardinality(D), i \in T PROVE i + 1 \in T
  <2>1. ASSUME NEW A \in SUBSET D, Cardinality(A) = i + 1 PROVE A \in S
    <3>1. A # {}
      BY <1>0, <1>3, <2>1, FS_EmptySet
    <3>2. PICK x \in A : TRUE
      BY <3>1
    <3>3. Cardinality(A \ {x}) = i
      <4>1. Cardinality(A \ {x}) = Cardinality(A) - 1
        BY <1>1, FS_RemoveElement
      <4>. QED  BY <1>0, <2>1, <4>1
    <3>4. A \ {x} \in S
      BY <1>3, <3>3
    <3>5. (A \ {x}) \cup {x} \in S
      BY <3>4
    <3>. QED  BY <3>5
  <2>. QED  BY <1>0, <1>3, <2>1
<1>4. 0 .. Cardinality(D) \subseteq T
  <2>. HIDE DEF T
  <2>. QED  BY <1>0, <1>2, <1>3, UpTo
<1>. QED  BY <1>1, <1>4

First(s) == CHOOSE x \in s : TRUE

Parts(D, i) == {s \in SUBSET D : Cardinality(s) <= i}

Adds(iter, f, P) ==
  iter = [s \in P |-> IF s = {} THEN 0 ELSE f[First(s)] + iter[s \ {First(s)}]]

LEMMA AddsExists ==
  ASSUME NEW f, IsFiniteSet(DOMAIN f)
  PROVE  \E iter : Adds(iter, f, SUBSET DOMAIN f)
<1>. DEFINE n == Cardinality(DOMAIN f)
            T == {i \in 0 .. n : \E iter : Adds(iter, f, Parts(DOMAIN f, i))}
<1>0. n \in Nat
  BY FS_CardinalityType
<1>1. \A s \in SUBSET DOMAIN f : IsFiniteSet(s) /\ Cardinality(s) \in 0 .. n
  BY <1>0, FS_Subset, FS_CardinalityType
<1>2. 0 \in T
  <2>1. \A s \in Parts(DOMAIN f, 0) : s = {}
    BY <1>1, FS_EmptySet DEF Parts
  <2>2. Adds([s \in Parts(DOMAIN f, 0) |-> 0], f, Parts(DOMAIN f, 0))
    BY <2>1 DEF Adds
  <2>. QED  BY <1>0, <2>2
<1>3. ASSUME NEW i \in 0 .. n, i # n, i \in T PROVE i + 1 \in T
  <2>1. PICK iter : Adds(iter, f, Parts(DOMAIN f, i))
    BY <1>3
  <2>2. PICK more : more = [s \in Parts(DOMAIN f, i + 1) |->
                              IF s = {} THEN 0 ELSE f[First(s)] + iter[s \ {First(s)}]]
    OBVIOUS
  <2>3. ASSUME NEW s \in Parts(DOMAIN f, i + 1), s # {}
        PROVE  more[s \ {First(s)}] = iter[s \ {First(s)}]
    <3>1. PICK t : t = s \ {First(s)}
      OBVIOUS
    <3>2. First(s) \in s
      BY <2>3 DEF First
    <3>3. Cardinality(t) = Cardinality(s) - 1 /\ t \in SUBSET DOMAIN f
      BY <1>1, <3>1, <3>2, FS_RemoveElement DEF Parts
    <3>4. t \in Parts(DOMAIN f, i) /\ t \in Parts(DOMAIN f, i + 1)
      BY <1>0, <1>1, <3>3 DEF Parts
    <3>5. iter[t] = IF t = {} THEN 0 ELSE f[First(t)] + iter[t \ {First(t)}]
      BY <2>1, <3>4 DEF Adds
    <3>. QED  BY <2>2, <3>1, <3>4, <3>5
  <2>4. Adds(more, f, Parts(DOMAIN f, i + 1))
    BY <2>2, <2>3 DEF Adds
  <2>. QED  BY <1>0, <1>3, <2>4
<1>4. 0 .. n \subseteq T
  <2>. HIDE DEF T, n
  <2>. QED  BY <1>0, <1>2, <1>3, UpTo
<1>5. Parts(DOMAIN f, n) = SUBSET DOMAIN f
  BY <1>1 DEF Parts
<1>6. \E iter : Adds(iter, f, Parts(DOMAIN f, n))
  BY <1>0, <1>4
<1>. QED  BY <1>5, <1>6

\* The sum of a function over a part of its domain.
SumAt(f, s) == (CHOOSE iter : Adds(iter, f, SUBSET DOMAIN f))[s]

LEMMA SumStep ==
  ASSUME NEW f, IsFiniteSet(DOMAIN f), NEW s \in SUBSET DOMAIN f
  PROVE  SumAt(f, s) = IF s = {} THEN 0 ELSE f[First(s)] + SumAt(f, s \ {First(s)})
<1>1. PICK iter : iter = CHOOSE any : Adds(any, f, SUBSET DOMAIN f)
  OBVIOUS
<1>2. Adds(iter, f, SUBSET DOMAIN f)
  <2>1. \E any : Adds(any, f, SUBSET DOMAIN f)
    BY AddsExists
  <2>. QED  BY <1>1, <2>1
<1>3. iter[s] = IF s = {} THEN 0 ELSE f[First(s)] + iter[s \ {First(s)}]
  BY <1>2 DEF Adds
<1>. QED  BY <1>1, <1>3 DEF SumAt

LEMMA SumIsSumAt ==
  ASSUME NEW f
  PROVE  SumFunction(f) = SumAt(f, DOMAIN f)
BY DEF SumFunction, SumFunctionOnSet, FoldFunctionOnSet, MapThenFoldSet, SumAt, Adds, First

LEMMA SumAnyOrder ==
  ASSUME NEW D, IsFiniteSet(D), NEW f \in [D -> Int], NEW s \in SUBSET D
  PROVE  /\ SumAt(f, s) \in Int
         /\ \A x \in s : SumAt(f, s) = f[x] + SumAt(f, s \ {x})
<1>. DEFINE Fine(t) == /\ SumAt(f, t) \in Int
                       /\ \A x \in t : SumAt(f, t) = f[x] + SumAt(f, t \ {x})
            n == Cardinality(D)
            T == {i \in 0 .. n : \A t \in SUBSET D : Cardinality(t) <= i => Fine(t)}
<1>0. n \in Nat /\ DOMAIN f = D
  BY FS_CardinalityType
<1>1. \A t \in SUBSET D : IsFiniteSet(t) /\ Cardinality(t) \in 0 .. n
  BY <1>0, FS_Subset, FS_CardinalityType
<1>2. 0 \in T
  <2>1. SumAt(f, {}) = 0
    BY <1>0, SumStep
  <2>2. Fine({})
    BY <2>1
  <2>3. \A t \in SUBSET D : Cardinality(t) <= 0 => t = {}
    <3>1. \A t \in SUBSET D : Cardinality(t) <= 0 => Cardinality(t) = 0
      BY <1>0, <1>1
    <3>. QED  BY <1>1, <3>1, FS_EmptySet
  <2>. HIDE DEF Fine
  <2>4. \A t \in SUBSET D : Cardinality(t) <= 0 => Fine(t)
    BY <2>2, <2>3
  <2>. QED  BY <1>0, <2>4
<1>3. ASSUME NEW i \in 0 .. n, i # n, i \in T PROVE i + 1 \in T
  <2>1. ASSUME NEW t \in SUBSET D, Cardinality(t) = i + 1 PROVE Fine(t)
    <3>0. \A r \in SUBSET D : Cardinality(r) <= i => Fine(r)
      BY <1>3
    <3>1. t # {}
      BY <1>0, <2>1, FS_EmptySet
    <3>2. PICK c \in t : c = First(t)
      BY <3>1 DEF First
    <3>3. SumAt(f, t) = f[c] + SumAt(f, t \ {c})
      BY <1>0, <3>1, <3>2, SumStep
    <3>4. ASSUME NEW x \in t PROVE Fine(t \ {x})
      <4>1. Cardinality(t \ {x}) = Cardinality(t) - 1
        BY <1>1, FS_RemoveElement
      <4>2. Cardinality(t \ {x}) = i
        BY <1>0, <2>1, <4>1
      <4>3. t \ {x} \in SUBSET D /\ i <= i
        BY <1>0
      <4>. HIDE DEF Fine
      <4>. QED  BY <3>0, <4>2, <4>3
    <3>5. SumAt(f, t \ {c}) \in Int /\ f[c] \in Int
      BY <3>4
    <3>6. ASSUME NEW x \in t, x # c PROVE SumAt(f, t) = f[x] + SumAt(f, t \ {x})
      <4>1. x \in t \ {c} /\ c \in t \ {x} /\ (t \ {c}) \ {x} = (t \ {x}) \ {c}
        BY <3>6
      <4>2. SumAt(f, t \ {c}) = f[x] + SumAt(f, (t \ {c}) \ {x})
        BY <3>4, <4>1
      <4>3. SumAt(f, t \ {x}) = f[c] + SumAt(f, (t \ {c}) \ {x})
        BY <3>4, <4>1
      <4>4. PICK rest : rest = SumAt(f, (t \ {c}) \ {x})
        OBVIOUS
      <4>5. Fine((t \ {c}) \ {x})
        <5>1. Cardinality((t \ {c}) \ {x}) = Cardinality(t \ {c}) - 1
          <6>1. IsFiniteSet(t \ {c}) /\ x \in t \ {c}
            BY <1>1, <4>1
          <6>. QED  BY <6>1, FS_RemoveElement
        <5>2. Cardinality(t \ {c}) = Cardinality(t) - 1
          BY <1>1, FS_RemoveElement
        <5>3. Cardinality((t \ {c}) \ {x}) <= i /\ (t \ {c}) \ {x} \in SUBSET D
          BY <1>0, <2>1, <5>1, <5>2
        <5>. HIDE DEF Fine
        <5>. QED  BY <3>0, <5>3
      <4>6. f[x] \in Int
        OBVIOUS
      <4>. QED  BY <3>3, <3>5, <4>2, <4>3, <4>4, <4>5, <4>6
    <3>. QED  BY <3>3, <3>5, <3>6
  <2>2. ASSUME NEW t \in SUBSET D, Cardinality(t) <= i + 1 PROVE Fine(t)
    <3>1. Cardinality(t) = i + 1 \/ Cardinality(t) <= i
      BY <1>0, <1>1, <2>2
    <3>. HIDE DEF Fine
    <3>. QED  BY <1>3, <2>1, <3>1
  <2>. HIDE DEF Fine
  <2>. QED  BY <1>0, <1>3, <2>2
<1>4. 0 .. n \subseteq T
  <2>. HIDE DEF T, n
  <2>. QED  BY <1>0, <1>2, <1>3, UpTo
<1>5. Fine(s)
  <2>1. n \in T
    <3>. HIDE DEF T
    <3>. QED  BY <1>0, <1>4
  <2>2. Cardinality(s) <= n
    BY <1>0, <1>1
  <2>. HIDE DEF Fine
  <2>. QED  BY <2>1, <2>2
<1>. QED  BY <1>5

LEMMA SumEmpty ==
  ASSUME NEW D, IsFiniteSet(D), NEW f \in [D -> Int]
  PROVE  SumAt(f, {}) = 0
BY SumStep

\* Functions that agree on a set have one sum over it.
LEMMA SumAgrees ==
  ASSUME NEW D, IsFiniteSet(D), NEW f \in [D -> Int], NEW E, IsFiniteSet(E), NEW g \in [E -> Int],
         NEW A, A \subseteq D, A \subseteq E, \A x \in A : f[x] = g[x]
  PROVE  SumAt(f, A) = SumAt(g, A)
<1>. DEFINE S == {s \in SUBSET A : SumAt(f, s) = SumAt(g, s)}
<1>1. IsFiniteSet(A)
  BY FS_Subset
<1>2. {} \in S
  BY SumEmpty
<1>3. ASSUME NEW s \in SUBSET A, NEW x \in A \ s, s \in S PROVE s \cup {x} \in S
  <2>1. PICK t \in SUBSET A : t = s \cup {x}
    BY <1>3
  <2>2. t \in SUBSET D /\ t \in SUBSET E /\ x \in t /\ t \ {x} = s
    BY <1>3, <2>1
  <2>3. SumAt(f, t) = f[x] + SumAt(f, s)
    BY <2>2, SumAnyOrder
  <2>4. SumAt(g, t) = g[x] + SumAt(g, s)
    BY <2>2, SumAnyOrder
  <2>. QED  BY <1>3, <2>1, <2>3, <2>4
<1>4. SUBSET A \subseteq S
  <2>. HIDE DEF S
  <2>. QED  BY <1>1, <1>2, <1>3, SubsetInduction
<1>. QED  BY <1>4

LEMMA SumUnion ==
  ASSUME NEW D, IsFiniteSet(D), NEW f \in [D -> Int],
         NEW A \in SUBSET D, NEW B \in SUBSET D, A \cap B = {}
  PROVE  SumAt(f, A \cup B) = SumAt(f, A) + SumAt(f, B)
<1>. DEFINE S == {s \in SUBSET B : SumAt(f, A \cup s) = SumAt(f, A) + SumAt(f, s)}
<1>1. IsFiniteSet(B)
  BY FS_Subset
<1>2. {} \in S
  <2>1. A \cup {} = A /\ SumAt(f, {}) = 0 /\ SumAt(f, A) \in Int
    BY SumEmpty, SumAnyOrder
  <2>. QED  BY <2>1
<1>3. ASSUME NEW s \in SUBSET B, NEW x \in B \ s, s \in S PROVE s \cup {x} \in S
  <2>1. PICK t \in SUBSET B : t = s \cup {x}
    BY <1>3
  <2>2. PICK u \in SUBSET D : u = A \cup t
    BY <1>3
  <2>3. t \in SUBSET D /\ x \in t /\ t \ {x} = s /\ x \in u /\ u \ {x} = A \cup s
    BY <1>3, <2>1, <2>2
  <2>4. SumAt(f, t) = f[x] + SumAt(f, s)
    BY <2>3, SumAnyOrder
  <2>5. SumAt(f, u) = f[x] + SumAt(f, A \cup s)
    BY <2>3, SumAnyOrder
  <2>6. SumAt(f, A) \in Int /\ SumAt(f, s) \in Int /\ f[x] \in Int
    <3>1. s \in SUBSET D /\ x \in D
      BY <1>3
    <3>. QED  BY <3>1, SumAnyOrder
  <2>. QED  BY <1>3, <2>1, <2>2, <2>4, <2>5, <2>6
<1>4. ASSUME NEW E, NEW F, E = B, F = S PROVE SUBSET E \subseteq F
  <2>1. IsFiniteSet(E) /\ {} \in F /\ \A s \in SUBSET E : \A x \in E \ s : s \in F => s \cup {x} \in F
    <3>. HIDE DEF S
    <3>. QED  BY <1>1, <1>2, <1>3, <1>4
  <2>. QED  BY ONLY <2>1, SubsetInduction
<1>5. B \in S
  <2>. HIDE DEF S
  <2>. QED  BY <1>4
<1>. QED  BY <1>5

\* What is summed in groups is summed: phi gives each element its group.
LEMMA SumOfGroups ==
  ASSUME NEW A, IsFiniteSet(A), NEW g \in [A -> Int],
         NEW B, IsFiniteSet(B), NEW h \in [B -> Int], NEW phi \in [A -> B],
         \A b \in B : h[b] = SumAt(g, {a \in A : phi[a] = b})
  PROVE  SumFunction(h) = SumFunction(g)
<1>. DEFINE Over(s) == {a \in A : phi[a] \in s}
            S == {s \in SUBSET B : SumAt(h, s) = SumAt(g, Over(s))}
<1>1. {} \in S
  <2>1. Over({}) = {}
    OBVIOUS
  <2>2. SumAt(h, {}) = 0 /\ SumAt(g, {}) = 0
    BY SumEmpty
  <2>. QED  BY <2>1, <2>2
<1>2. ASSUME NEW s \in SUBSET B, NEW x \in B \ s, s \in S PROVE s \cup {x} \in S
  <2>1. PICK t \in SUBSET B : t = s \cup {x}
    BY <1>2
  <2>2. SumAt(h, t) = h[x] + SumAt(h, s)
    <3>1. x \in t /\ t \ {x} = s
      BY <1>2, <2>1
    <3>. QED  BY <3>1, SumAnyOrder
  <2>3. PICK own \in SUBSET A : own = {a \in A : phi[a] = x}
    OBVIOUS
  <2>4. PICK old \in SUBSET A : old = Over(s)
    OBVIOUS
  <2>5. Over(t) = old \cup own /\ old \cap own = {}
    BY <1>2, <2>1, <2>3, <2>4
  <2>6. SumAt(g, old \cup own) = SumAt(g, old) + SumAt(g, own)
    <3>. HIDE DEF Over
    <3>. QED  BY <2>5, SumUnion
  <2>7. SumAt(g, old) \in Int /\ SumAt(g, own) \in Int
    BY SumAnyOrder
  <2>8. h[x] = SumAt(g, own) /\ SumAt(h, s) = SumAt(g, old)
    BY <1>2, <2>3, <2>4
  <2>. HIDE DEF Over
  <2>9. SumAt(h, t) = SumAt(g, Over(t))
    BY <2>2, <2>5, <2>6, <2>7, <2>8
  <2>. QED  BY <2>1, <2>9
<1>3. SUBSET B \subseteq S
  <2>. HIDE DEF S
  <2>. QED  BY <1>1, <1>2, SubsetInduction
<1>4. Over(B) = A
  OBVIOUS
<1>5. SumAt(h, B) = SumAt(g, A)
  <2>1. B \in S
    BY <1>3
  <2>. QED  BY <1>4, <2>1
<1>. QED  BY <1>5, SumIsSumAt

-----------------------------------------------------------------------------
(* What is summed over the rows of a report is summed over its runs.       *)

LEMMA RunIsOne ==
  ASSUME TablesInv, NEW x, NEW r \in jobs, NEW q \in jobs, SameRun(x, r), SameRun(x, q)
  PROVE  r = q
<1>1. r.machine = q.machine /\ r.date = q.date /\ r.seq = q.seq
  BY DEF SameRun
<1>. QED  BY <1>1, MediaOfTables DEF MediaOfARun

LEMMA RowIsOne ==
  ASSUME TablesInv, NEW f, NEW x \in Cls(f), NEW y \in Cls(f), NEW r \in jobs,
         SameRun(x, r), SameRun(y, r)
  PROVE  x = y
<1>1. PICK q \in jobs : Matches(q, f) /\ SameRun(x, q)
  BY RunOfRow
<1>2. q = r
  BY <1>1, RunIsOne
<1>3. PICK row \in Cls(f) : {z \in Cls(f) : SameRun(z, r)} = {row}
  BY <1>1, <1>2, RowOfRun
<1>. QED  BY <1>3

LEMMA ClsFinite ==
  ASSUME TablesInv, NEW f
  PROVE  IsFiniteSet(Cls(f))
<1>. DEFINE phi == [x \in Cls(f) |-> CHOOSE r \in jobs : SameRun(x, r)]
<1>1. \A x \in Cls(f) : phi[x] \in jobs /\ SameRun(x, phi[x])
  BY RunOfRow
<1>2. phi \in [Cls(f) -> jobs]
  BY <1>1
<1>3. \A x, y \in Cls(f) : phi[x] = phi[y] => x = y
  <2>. HIDE DEF phi
  <2>. QED  BY <1>1, RowIsOne
<1>4. phi \in Injection(Cls(f), jobs)
  <2>. HIDE DEF phi
  <2>. QED  BY <1>2, <1>3 DEF Injection, IsInjective
<1>. HIDE DEF phi
<1>. QED  BY <1>4, JobsFinite, FS_Injection

LEMMA SumOfOne ==
  ASSUME NEW D, IsFiniteSet(D), NEW f \in [D -> Int], NEW x \in D
  PROVE  SumAt(f, {x}) = f[x]
<1>1. SumAt(f, {x}) = f[x] + SumAt(f, {x} \ {x})
  BY SumAnyOrder
<1>2. {x} \ {x} = {} /\ SumAt(f, {}) = 0
  BY SumEmpty
<1>. QED  BY <1>1, <1>2

LEMMA SumOverRuns ==
  ASSUME TablesInv, NEW f, NEW R \in SUBSET Cls(f), NEW P \in SUBSET jobs,
         \A x \in R : \E r \in P : SameRun(x, r),
         \A r \in P : \E x \in R : SameRun(x, r),
         NEW g \in [R -> Int], NEW h \in [P -> Int],
         \A x \in R, r \in P : SameRun(x, r) => g[x] = h[r]
  PROVE  SumFunction(h) = SumFunction(g)
<1>. DEFINE phi == [x \in R |-> CHOOSE r \in P : SameRun(x, r)]
<1>1. phi \in [R -> P] /\ \A x \in R : SameRun(x, phi[x])
  OBVIOUS
<1>2. IsFiniteSet(R) /\ IsFiniteSet(P)
  BY ClsFinite, JobsFinite, FS_Subset
<1>. HIDE DEF phi
<1>3. ASSUME NEW b \in P PROVE h[b] = SumAt(g, {x \in R : phi[x] = b})
  <2>1. PICK x \in R : SameRun(x, b)
    OBVIOUS
  <2>2. phi[x] = b
    BY <1>1, <2>1, RunIsOne
  <2>3. ASSUME NEW y \in R, phi[y] = b PROVE y = x
    BY <1>1, <2>1, <2>3, RowIsOne
  <2>4. {y \in R : phi[y] = b} = {x}
    BY <2>2, <2>3
  <2>5. SumAt(g, {x}) = g[x]
    BY <1>2, SumOfOne
  <2>. QED  BY <2>1, <2>4, <2>5
<1>. QED  BY <1>1, <1>2, <1>3, SumOfGroups

LEMMA ClicksOverRuns ==
  ASSUME TablesInv, NEW f, NEW R \in SUBSET Cls(f), NEW P \in SUBSET jobs,
         \A x \in R : \E r \in P : SameRun(x, r),
         \A r \in P : \E x \in R : SameRun(x, r)
  PROVE  Total(R, Clicks) = Total(P, Clicks)
<1>. DEFINE g == [x \in R |-> Clicks(x)]
            h == [r \in P |-> Clicks(r)]
<1>1. \A r \in jobs : Clicks(r) \in Int
  BY TypesOfTables DEF TablesTypeOK, Clicks
<1>2. \A x \in R, r \in P : SameRun(x, r) => Clicks(x) = Clicks(r)
  <2>. SUFFICES ASSUME NEW x \in R, NEW r \in P, SameRun(x, r) PROVE Clicks(x) = Clicks(r)
    OBVIOUS
  <2>1. PICK q \in jobs : SameRun(x, q) /\ \A c \in Columns0 : x[c] = q[c]
    BY RunOfRow
  <2>2. q = r
    BY <2>1, RunIsOne
  <2>. QED  BY <2>1, <2>2 DEF Clicks, Columns0
<1>3. g \in [R -> Int] /\ h \in [P -> Int] /\ \A x \in R, r \in P : SameRun(x, r) => g[x] = h[r]
  <2>1. \A x \in R : \E r \in P : Clicks(x) = Clicks(r)
    BY <1>2
  <2>. QED  BY <1>1, <1>2, <2>1
<1>4. SumFunction(h) = SumFunction(g)
  <2>. HIDE DEF g, h
  <2>. QED  BY <1>3, SumOverRuns
<1>. QED  BY <1>4 DEF Total

-----------------------------------------------------------------------------
(* Sheets.  A report takes them by run from job_media, the paper page and  *)
(* the material of a job take them by paper grade.                         *)

\* A sum can be taken over any set of things that stand for the summed ones.
LEMMA SumRenamed ==
  ASSUME NEW A, IsFiniteSet(A), NEW g \in [A -> Int],
         NEW B, IsFiniteSet(B), NEW h \in [B -> Int], NEW phi \in [A -> B],
         \A b \in B : \E a \in A : phi[a] = b,
         \A a, c \in A : phi[a] = phi[c] => a = c,
         \A a \in A : h[phi[a]] = g[a]
  PROVE  SumFunction(h) = SumFunction(g)
<1>1. ASSUME NEW b \in B PROVE h[b] = SumAt(g, {a \in A : phi[a] = b})
  <2>1. PICK a \in A : phi[a] = b
    OBVIOUS
  <2>2. {c \in A : phi[c] = b} = {a}
    BY <2>1
  <2>3. SumAt(g, {a}) = g[a]
    BY SumOfOne
  <2>. QED  BY <2>1, <2>2, <2>3
<1>. QED  BY <1>1, SumOfGroups

\* A tray row is known by its run and its tray.
LEMMA TrayIsOne ==
  ASSUME TablesInv, NEW s \in media, NEW t \in media, SameRun(s, t), s.tray = t.tray
  PROVE  s = t
<1>0. SourceType
  BY DEF TablesInv
<1>1. PICK m \in Machines, d \in Days : \E i \in 1 .. Imported(m, d) :
             i \in 1 .. Len(log[m][d]) /\ s \in TrayRows(m, d, i)
  BY RowsOfTables
<1>2. PICK i \in 1 .. Len(log[m][d]) : s \in TrayRows(m, d, i)
  BY <1>1
<1>3. PICK n \in Machines, e \in Days : \E j \in 1 .. Imported(n, e) :
             j \in 1 .. Len(log[n][e]) /\ t \in TrayRows(n, e, j)
  BY RowsOfTables
<1>4. PICK j \in 1 .. Len(log[n][e]) : t \in TrayRows(n, e, j)
  BY <1>3
<1>5. /\ s = TrayRow(m, d, i, s.tray) /\ s.machine = m /\ s.date = d /\ s.seq = i - 1
      /\ t = TrayRow(n, e, j, t.tray) /\ t.machine = n /\ t.date = e /\ t.seq = j - 1
  BY <1>0, <1>2, <1>4, TrayRowSays
<1>6. m = n /\ d = e /\ i - 1 = j - 1
  BY <1>5 DEF SameRun
<1>7. i = j
  BY <1>2, <1>4, <1>6
<1>. QED  BY <1>5, <1>6, <1>7

LEMMA MediaFinite ==
  ASSUME TablesInv
  PROVE  IsFiniteSet(media)
<1>. DEFINE phi == [s \in media |-> <<CHOOSE r \in jobs : SameRun(s, r), s.tray>>]
<1>1. \A s \in media : /\ phi[s][1] \in jobs /\ SameRun(s, phi[s][1])
                       /\ phi[s][2] = s.tray /\ phi[s] \in jobs \X Slots
  BY MediaOfTables, TypesOfTables DEF MediaOfARun, TablesTypeOK
<1>2. \A s, t \in media : phi[s] = phi[t] => s = t
  <2>. SUFFICES ASSUME NEW s \in media, NEW t \in media, phi[s] = phi[t] PROVE s = t
    OBVIOUS
  <2>. HIDE DEF phi
  <2>1. SameRun(s, phi[s][1]) /\ SameRun(t, phi[s][1]) /\ s.tray = t.tray
    BY <1>1
  <2>2. SameRun(s, t)
    BY <2>1 DEF SameRun
  <2>. QED  BY <2>1, <2>2, TrayIsOne
<1>3. DOMAIN phi = media
  OBVIOUS
<1>4. phi \in Injection(media, jobs \X Slots)
  <2>1. phi \in [media -> jobs \X Slots]
    BY <1>1
  <2>. HIDE DEF phi
  <2>. QED  BY <1>2, <2>1 DEF Injection, IsInjective
<1>5. IsFiniteSet(Slots)
  <2>1. DOMAIN FormatCols = 1 .. 2
    BY DEF FormatCols
  <2>2. PICK a \in Int, b \in Int : a = 1 /\ b = 2
    OBVIOUS
  <2>3. IsFiniteSet(a .. b)
    BY FS_Interval
  <2>4. Slots \in SUBSET (a .. b)
    BY <2>1, <2>2, SlotsAssumption
  <2>. QED  BY <2>2, <2>3, <2>4, FS_Subset
<1>6. IsFiniteSet(jobs \X Slots)
  BY <1>5, JobsFinite, FS_Product
<1>. HIDE DEF phi
<1>. QED  BY <1>4, <1>6, FS_Injection

\* The sheets of a row are those of the trays of its run.
LEMMA RowHasTheSheets ==
  ASSUME TablesInv, NEW f, NEW x \in Cls(f), NEW r \in jobs, SameRun(x, r)
  PROVE  x.sheets = SheetsOf({t \in media : SameRun(t, r)})
<1>1. PICK J \in SUBSET jobs : J = {q \in jobs : Matches(q, f)}
  OBVIOUS
<1>2. PICK q \in J : \E s \in JoinedSheets(q) : x = Classified(q, s, J)
  BY <1>1 DEF Cls
<1>3. PICK s \in JoinedSheets(q) : x = Classified(q, s, J)
  BY <1>2
<1>4. x.sheets = s.sheets /\ SameRun(x, q)
  BY <1>2, <1>3, ClassifiedRun
<1>5. q = r
  BY <1>2, <1>4, RunIsOne
<1>6. PICK trays \in SUBSET media : trays = {t \in media : SameRun(t, r)}
  OBVIOUS
<1>7. CASE \E c \in SheetsCte : SameRun(c, r)
  <2>1. s \in SheetsCte /\ SameRun(s, r)
    BY <1>3, <1>5, <1>7 DEF JoinedSheets
  <2>2. PICK t \in media : /\ s.sheets = SheetsOf({u \in media : SameRun(t, u)})
                           /\ SameRun(s, t)
    <3>1. PICK t \in media : s =
            [machine |-> t.machine, date |-> t.date, jobid |-> t.jobid, seq |-> t.seq,
             sheets  |-> SheetsOf({u \in media : SameRun(t, u)})]
      BY <2>1 DEF SheetsCte
    <3>. QED  BY <3>1 DEF SameRun
  <2>3. {u \in media : SameRun(t, u)} = trays
    BY <1>6, <2>1, <2>2 DEF SameRun
  <2>. QED  BY <1>4, <1>6, <2>2, <2>3
<1>8. CASE ~ \E c \in SheetsCte : SameRun(c, r)
  <2>1. s.sheets = 0
    BY <1>3, <1>5, <1>8 DEF JoinedSheets
  <2>2. trays = {}
    <3>. SUFFICES ASSUME NEW t \in trays PROVE FALSE
      OBVIOUS
    <3>1. PICK c : c =
            [machine |-> t.machine, date |-> t.date, jobid |-> t.jobid, seq |-> t.seq,
             sheets  |-> SheetsOf({u \in media : SameRun(t, u)})]
      OBVIOUS
    <3>2. c \in SheetsCte
      BY <1>6, <3>1 DEF SheetsCte
    <3>3. SameRun(c, r)
      BY <1>6, <3>1 DEF SameRun
    <3>. QED  BY <1>8, <3>2, <3>3
  <2>3. PICK e : e = [t \in trays |-> Sheets(t)]
    OBVIOUS
  <2>4. e \in [{} -> Int] /\ DOMAIN e = {} /\ IsFiniteSet({})
    BY <2>2, <2>3, FS_EmptySet
  <2>5. SumAt(e, {}) = 0
    BY <2>4, SumEmpty
  <2>6. SheetsOf(trays) = 0
    BY <2>3, <2>4, <2>5, SumIsSumAt DEF SheetsOf, Total
  <2>. QED  BY <1>4, <1>6, <2>1, <2>6
<1>. QED  BY <1>7, <1>8

-----------------------------------------------------------------------------
(* The figures of a set of rows.                                           *)

ClicksOf(rows)     == Total(rows, Clicks)
SetsOf(rows)       == Total(rows, LAMBDA r : r.sets)
SheetsOfRows(rows) == Total(rows, LAMBDA r : r.sheets)
BwOf(rows)         == Total(rows, LAMBDA r : r.bw)
ColourOf(rows)     == Total(rows, LAMBDA r : r.colour)
RuntimeOf(rows)    == NullableTotal(rows, RuntimeS)
DurationOf(rows)   == Total(rows, LAMBDA r : OrZero(DurationS(r)))
ProofsOf(rows)     == Cardinality({r \in rows : r.runType = "Proof"})
NotDone(r)         == ~Finished(r)
UnfinishedOf(rows) == {NotDone(l) : l \in UNION {r.last : r \in rows}}
MachinesOf(rows)   == {r.machine : r \in rows}
StartsOf(rows)     == {Ts(r) : r \in rows}

Stamped(rows) == \A r \in rows : {r.startdate, r.starttime, r.seq} \subseteq Int

\* Rows of a report are finitely many, and their stamps are numbers.
LEMMA RowsAreStamped ==
  ASSUME TablesInv, NEW f, NEW R \in SUBSET Cls(f)
  PROVE  IsFiniteSet(R) /\ Stamped(R)
<1>1. IsFiniteSet(R)
  BY ClsFinite, FS_Subset
<1>2. ASSUME NEW x \in R PROVE {x.startdate, x.starttime, x.seq} \subseteq Int
  <2>1. PICK r \in jobs : \A c \in Columns0 : x[c] = r[c]
    BY RunOfRow
  <2>2. x.startdate = r.startdate /\ x.starttime = r.starttime /\ x.seq = r.seq
    BY <2>1 DEF Columns0
  <2>3. r.startdate \in Int /\ r.starttime \in Int /\ r.seq \in Int
    BY TypesOfTables, LastClockAssumption DEF TablesTypeOK, Dates, Fields
  <2>. QED  BY <2>2, <2>3
<1>. QED  BY <1>1, <1>2 DEF Stamped

-----------------------------------------------------------------------------
(* Two sets of rows that stand for the same runs have the same figures.    *)

LEMMA RowOfItsRun ==
  ASSUME TablesInv, NEW f, NEW x \in Cls(f), NEW r \in jobs, SameRun(x, r)
  PROVE  x.key = Key(r) /\ \A c \in Columns0 : x[c] = r[c]
<1>1. PICK q \in jobs : SameRun(x, q) /\ x.key = Key(q) /\ \A c \in Columns0 : x[c] = q[c]
  BY RunOfRow
<1>2. q = r
  BY <1>1, RunIsOne
<1>. QED  BY <1>1, <1>2

LEMMA SheetsAreInt ==
  ASSUME TablesInv, NEW trays \in SUBSET media
  PROVE  /\ SheetsOf(trays) \in Int /\ \A t \in trays : Sheets(t) \in Int
<1>1. ASSUME NEW t \in trays PROVE Sheets(t) \in Int
  <2>1. PICK a \in Int, b \in Int : a = t.simplex /\ b = t.duplex + 1
    BY TypesOfTables DEF TablesTypeOK
  <2>2. b \div 2 \in Int
    OBVIOUS
  <2>. QED  BY <2>1, <2>2 DEF Sheets
<1>2. PICK g : g = [t \in trays |-> Sheets(t)]
  OBVIOUS
<1>3. g \in [trays -> Int] /\ IsFiniteSet(trays) /\ DOMAIN g = trays
  BY <1>1, <1>2, MediaFinite, FS_Subset
<1>4. SumAt(g, trays) \in Int
  BY <1>3, SumAnyOrder
<1>5. SheetsOf(trays) = SumAt(g, trays)
  BY <1>2, <1>3, SumIsSumAt DEF SheetsOf, Total
<1>. QED  BY <1>1, <1>4, <1>5

\* The duration of a run counts as a number, and depends on its stamps alone.
LEMMA DurationIsInt ==
  ASSUME TablesInv, NEW f, NEW x \in Cls(f), NEW r \in jobs, SameRun(x, r)
  PROVE  /\ DurationS(x) = DurationS(r) /\ (ReadAlike(r) => RuntimeS(x) = DurationS(x))
         /\ DurationS(x) \in Int \cup {NoTime} /\ OrZero(DurationS(x)) \in Int
<1>1. /\ x.startdate = r.startdate /\ x.starttime = r.starttime
      /\ x.readydate = r.readydate /\ x.readytime = r.readytime
  BY RowOfItsRun DEF Columns0
<1>2. PICK s : s = [startdate |-> x.startdate, starttime |-> x.starttime,
                    readydate |-> x.readydate, readytime |-> x.readytime]
  OBVIOUS
<1>3. s \in RunStamps
  BY <1>1, <1>2, TypesOfTables DEF TablesTypeOK, RunStamps
<1>4. /\ s.startdate = x.startdate /\ s.starttime = x.starttime
      /\ s.readydate = x.readydate /\ s.readytime = x.readytime
  BY <1>2
<1>5. RuntimeS(x) = RuntimeS(s) /\ DurationS(x) = DurationS(s) /\ DurationS(r) = DurationS(s)
  BY <1>1, <1>4 DEF RuntimeS, DurationS, CompletedDate, Ts
<1>6. \A d \in Dates, t \in Fields : ParseStamp(d, t) = NoTime \/ ParseStamp(d, t) \in Int
  BY StampIsInt DEF ParseStamp
<1>7. DurationS(s) \in Int \cup {NoTime}
  <2>1. /\ s.startdate \in Dates /\ CompletedDate(s) \in Dates
        /\ s.starttime \in Fields /\ s.readytime \in Fields
    BY <1>3 DEF RunStamps, CompletedDate
  <2>2. PICK a, b : /\ a = ParseStamp(s.startdate, s.starttime)
                    /\ b = ParseStamp(CompletedDate(s), s.readytime)
    OBVIOUS
  <2>3. (a = NoTime \/ a \in Int) /\ (b = NoTime \/ b \in Int)
    BY <1>6, <2>1, <2>2
  <2>4. DurationS(s) = IF a = NoTime \/ b = NoTime THEN NoTime
                       ELSE IF b < a THEN NoTime ELSE b - a
    BY <2>2 DEF DurationS
  <2>. QED  BY <2>3, <2>4
<1>8. ReadAlike(r) => RuntimeS(s) = DurationS(s)
  <2>1. ReadAlike(r) => ReadAlike(s)
    BY <1>1, <1>4 DEF ReadAlike
  <2>. QED  BY <1>3, <2>1, RuntimeMirrorsDuration
<1>. QED  BY <1>5, <1>7, <1>8 DEF OrZero

\* R are rows of the runs P, and of all of them.
Stands(R, P) ==
  /\ \A x \in R : \E r \in P : SameRun(x, r)
  /\ \A r \in P : \E x \in R : SameRun(x, r)

TraysOf(r) == {t \in media : SameRun(t, r)}

SheetsOfRuns(P) == Total(P, LAMBDA r : SheetsOf(TraysOf(r)))

LEMMA SetsOverRuns ==
  ASSUME TablesInv, NEW f, NEW R \in SUBSET Cls(f), NEW P \in SUBSET jobs, Stands(R, P)
  PROVE  SetsOf(R) = SetsOf(P)
<1>. DEFINE g == [x \in R |-> x.sets]
            h == [r \in P |-> r.sets]
<1>1. \A r \in P : r.sets \in Int
  BY TypesOfTables DEF TablesTypeOK
<1>2. \A x \in R, r \in P : SameRun(x, r) => x.sets = r.sets
  BY RowOfItsRun DEF Columns0
<1>3. g \in [R -> Int] /\ h \in [P -> Int]
  BY <1>1, <1>2 DEF Stands
<1>4. SumFunction(h) = SumFunction(g)
  <2>1. \A x \in R, r \in P : SameRun(x, r) => g[x] = h[r]
    BY <1>2
  <2>. HIDE DEF g, h
  <2>. QED  BY <1>3, <2>1, SumOverRuns DEF Stands
<1>. QED  BY <1>4 DEF SetsOf, Total

LEMMA DurationOverRuns ==
  ASSUME TablesInv, NEW f, NEW R \in SUBSET Cls(f), NEW P \in SUBSET jobs, Stands(R, P)
  PROVE  DurationOf(R) = DurationOf(P)
<1>. DEFINE g == [x \in R |-> OrZero(DurationS(x))]
            h == [r \in P |-> OrZero(DurationS(r))]
<1>1. \A x \in R, r \in P : SameRun(x, r) =>
        OrZero(DurationS(x)) = OrZero(DurationS(r)) /\ OrZero(DurationS(x)) \in Int
  BY DurationIsInt
<1>2. g \in [R -> Int] /\ h \in [P -> Int]
  BY <1>1 DEF Stands
<1>3. SumFunction(h) = SumFunction(g)
  <2>1. \A x \in R, r \in P : SameRun(x, r) => g[x] = h[r]
    BY <1>1
  <2>. HIDE DEF g, h
  <2>. QED  BY <1>2, <2>1, SumOverRuns DEF Stands
<1>. QED  BY <1>3 DEF DurationOf, Total

LEMMA SheetsOverRuns ==
  ASSUME TablesInv, NEW f, NEW R \in SUBSET Cls(f), NEW P \in SUBSET jobs, Stands(R, P)
  PROVE  SheetsOfRows(R) = SheetsOfRuns(P)
<1>. DEFINE g == [x \in R |-> x.sheets]
            h == [r \in P |-> SheetsOf(TraysOf(r))]
<1>1. \A r \in P : SheetsOf(TraysOf(r)) \in Int
  BY SheetsAreInt DEF TraysOf
<1>2. \A x \in R, r \in P : SameRun(x, r) => x.sheets = SheetsOf(TraysOf(r))
  BY RowHasTheSheets DEF TraysOf
<1>3. g \in [R -> Int] /\ h \in [P -> Int]
  BY <1>1, <1>2 DEF Stands
<1>4. SumFunction(h) = SumFunction(g)
  <2>1. \A x \in R, r \in P : SameRun(x, r) => g[x] = h[r]
    BY <1>2
  <2>. HIDE DEF g, h
  <2>. QED  BY <1>3, <2>1, SumOverRuns DEF Stands
<1>. QED  BY <1>4 DEF SheetsOfRows, SheetsOfRuns, Total

LEMMA CountOverRuns ==
  ASSUME TablesInv, NEW f, NEW R \in SUBSET Cls(f), NEW P \in SUBSET jobs, Stands(R, P)
  PROVE  Cardinality(R) = Cardinality(P)
<1>. DEFINE phi == [x \in R |-> CHOOSE r \in P : SameRun(x, r)]
<1>1. phi \in [R -> P] /\ \A x \in R : SameRun(x, phi[x])
  BY DEF Stands
<1>. HIDE DEF phi
<1>2. \A x, y \in R : phi[x] = phi[y] => x = y
  BY <1>1, RowIsOne
<1>3. ASSUME NEW r \in P PROVE \E x \in R : phi[x] = r
  <2>1. PICK x \in R : SameRun(x, r)
    BY DEF Stands
  <2>2. phi[x] = r
    BY <1>1, <2>1, RunIsOne
  <2>. QED  BY <2>2
<1>4. phi \in Bijection(R, P)
  BY <1>1, <1>2, <1>3 DEF Bijection, Injection, Surjection, IsInjective
<1>5. ExistsBijection(R, P)
  BY <1>4 DEF ExistsBijection
<1>6. IsFiniteSet(R)
  BY RowsAreStamped
<1>. QED  BY <1>5, <1>6, FS_Bijection

LEMMA DaysOverRuns ==
  ASSUME TablesInv, NEW f, NEW R \in SUBSET Cls(f), NEW P \in SUBSET jobs, Stands(R, P)
  PROVE  Days0(R) = Days0(P) /\ StartsOf(R) = StartsOf(P)
<1>1. \A x \in R, r \in P : SameRun(x, r) => x.startdate = r.startdate /\ Ts(x) = Ts(r)
  BY RowOfItsRun DEF Columns0, Ts
<1>2. Days0(R) = Days0(P)
  BY <1>1 DEF Days0, Stands
<1>3. StartsOf(R) = StartsOf(P)
  <2>1. \A x \in R : \E r \in P : Ts(x) = Ts(r)
    BY <1>1 DEF Stands
  <2>2. \A r \in P : \E x \in R : Ts(x) = Ts(r)
    BY <1>1 DEF Stands
  <2>. QED  BY <2>1, <2>2 DEF StartsOf
<1>. QED  BY <1>2, <1>3

\* What is nothing on a part of the domain adds nothing.
LEMMA SumOfNothing ==
  ASSUME NEW D, IsFiniteSet(D), NEW f \in [D -> Int], NEW A \in SUBSET D, \A x \in A : f[x] = 0
  PROVE  SumAt(f, A) = 0
<1>. DEFINE S == {s \in SUBSET A : SumAt(f, s) = 0}
<1>1. IsFiniteSet(A)
  BY FS_Subset
<1>2. {} \in S
  BY SumEmpty
<1>3. ASSUME NEW s \in SUBSET A, NEW x \in A \ s, s \in S PROVE s \cup {x} \in S
  <2>1. PICK t \in SUBSET A : t = s \cup {x}
    BY <1>3
  <2>2. t \in SUBSET D /\ x \in t /\ t \ {x} = s
    BY <1>3, <2>1
  <2>3. SumAt(f, t) = f[x] + SumAt(f, s)
    BY <2>2, SumAnyOrder
  <2>. QED  BY <1>3, <2>1, <2>3
<1>4. SUBSET A \subseteq S
  <2>. HIDE DEF S
  <2>. QED  BY <1>1, <1>2, <1>3, SubsetInduction
<1>5. A \in S
  BY <1>4
<1>. QED  BY <1>5

\* The runtime SQL sums over the runs that have one is what Python sums over all,
\* where both take the stamps alike.
LEMMA RuntimeIsDuration ==
  ASSUME TablesInv, NEW f, NEW R \in SUBSET Cls(f),
         \A x \in R : \A r \in jobs : SameRun(x, r) => ReadAlike(r)
  PROVE  OrZero(RuntimeOf(R)) = DurationOf(R)
<1>1. ASSUME NEW x \in R
      PROVE  RuntimeS(x) = DurationS(x) /\ DurationS(x) \in Int \cup {NoTime}
             /\ OrZero(DurationS(x)) \in Int
  <2>1. PICK r \in jobs : SameRun(x, r)
    BY RunOfRow
  <2>. QED  BY <2>1, DurationIsInt
<1>2. PICK some \in SUBSET R : some = {x \in R : RuntimeS(x) # NoTime}
  OBVIOUS
<1>3. PICK g, h : g = [x \in R |-> OrZero(DurationS(x))] /\ h = [x \in some |-> RuntimeS(x)]
  OBVIOUS
<1>4. /\ g \in [R -> Int] /\ h \in [some -> Int] /\ DOMAIN g = R /\ DOMAIN h = some
      /\ IsFiniteSet(R) /\ IsFiniteSet(some)
  <2>1. g \in [R -> Int] /\ h \in [some -> Int]
    BY <1>1, <1>2, <1>3
  <2>2. IsFiniteSet(R) /\ IsFiniteSet(some)
    BY RowsAreStamped, FS_Subset
  <2>. QED  BY <2>1, <2>2
<1>5. \A x \in some : g[x] = h[x]
  BY <1>1, <1>2, <1>3 DEF OrZero
<1>6. SumAt(g, R \ some) = 0
  <2>1. PICK rest \in SUBSET R : rest = R \ some
    OBVIOUS
  <2>2. \A x \in rest : g[x] = 0
    BY <1>1, <1>2, <1>3, <2>1 DEF OrZero
  <2>3. SumAt(g, rest) = 0
    BY <1>4, <2>2, SumOfNothing
  <2>. QED  BY <2>1, <2>3
<1>7. SumAt(g, R) = SumAt(g, some)
  <2>1. PICK rest \in SUBSET R : rest = R \ some
    OBVIOUS
  <2>2. some \cap rest = {} /\ some \cup rest = R
    BY <2>1
  <2>3. SumAt(g, some \cup rest) = SumAt(g, some) + SumAt(g, rest)
    BY <1>4, <2>2, SumUnion
  <2>4. SumAt(g, some) \in Int
    BY <1>4, SumAnyOrder
  <2>. QED  BY <1>6, <2>1, <2>2, <2>3, <2>4
<1>8. SumAt(g, some) = SumAt(h, some)
  BY <1>4, <1>5, SumAgrees
<1>9. DurationOf(R) = SumAt(g, R)
  BY <1>3, <1>4, SumIsSumAt DEF DurationOf, Total
<1>10. RuntimeOf(R) = IF some = {} THEN NoTime ELSE SumAt(h, some)
  <2>1. Total(some, RuntimeS) = SumAt(h, some)
    BY <1>3, <1>4, SumIsSumAt DEF Total
  <2>. QED  BY <1>2, <2>1 DEF RuntimeOf, NullableTotal
<1>11. SumAt(h, some) \in Int
  BY <1>4, SumAnyOrder
<1>12. some = {} => SumAt(h, some) = 0
  BY <1>4, SumEmpty
<1>. QED  BY <1>7, <1>8, <1>9, <1>10, <1>11, <1>12, NoTimeAssumption DEF OrZero

-----------------------------------------------------------------------------
(* Counters.                                                               *)

\* The counters of a press count up from zero.
CountersAreCounts ==
  \A m \in Machines, d \in Days : \A l \in Logs[m][d] : \A i \in DOMAIN l, c \in CounterCols :
    l[i][c] \in Int => l[i][c] >= 0

LEMMA SaidIsCount ==
  ASSUME SourceType, CountersAreCounts, NEW m \in Machines, NEW d \in Days,
         NEW i \in 1 .. Len(log[m][d]), NEW c \in CounterCols
  PROVE  Number(Said(m, d, i, c)) \in Nat
<1>1. PICK l \in Logs[m][d] : l = log[m][d]
  BY DEF SourceType
<1>2. i \in DOMAIN l
  <2>1. l \in Seq({l[j] : j \in DOMAIN l})
    BY LogsAssumption
  <2>2. DOMAIN l = 1 .. Len(l)
    BY <2>1, LenProperties
  <2>. QED  BY <1>1, <2>2
<1>3. l[i][c] \in Int => l[i][c] >= 0
  BY <1>2 DEF CountersAreCounts
<1>4. EmptyCell(c) = Blank \/ EmptyCell(c) = Empty
  BY DEF EmptyCell
<1>5. Number(Blank) = 0 /\ Number(Empty) = 0
  BY BlankAssumption DEF Number, Empty
<1>6. Said(m, d, i, c) = l[i][c] \/ Said(m, d, i, c) = EmptyCell(c)
  BY <1>1 DEF Said
<1>. QED  BY <1>3, <1>4, <1>5, <1>6 DEF Number

LEMMA ClicksAreCounts ==
  ASSUME TablesInv, CountersAreCounts, NEW r \in jobs
  PROVE  Clicks(r) \in Nat
<1>1. PICK m \in Machines, d \in Days : \E i \in 1 .. Imported(m, d) :
             i \in 1 .. Len(log[m][d]) /\ r = RunRow(m, d, i)
  BY RowsOfTables
<1>2. PICK i \in 1 .. Len(log[m][d]) : r = RunRow(m, d, i)
  BY <1>1
<1>3. SourceType
  BY DEF TablesInv
<1>4. {"nofprintedbw", "nofprintedc"} \subseteq CounterCols
  BY DEF CounterCols
<1>5. r.bw = Number(Said(m, d, i, "nofprintedbw")) /\ r.colour = Number(Said(m, d, i, "nofprintedc"))
  BY <1>2, <1>3, RunRowSays
<1>6. r.bw \in Nat /\ r.colour \in Nat
  BY <1>3, <1>4, <1>5, SaidIsCount
<1>. QED  BY <1>6 DEF Clicks

LEMMA SheetsAreCounts ==
  ASSUME TablesInv, CountersAreCounts, NEW s \in media
  PROVE  Sheets(s) \in Nat
<1>0. SourceType
  BY DEF TablesInv
<1>1. PICK m \in Machines, d \in Days : \E i \in 1 .. Imported(m, d) :
             i \in 1 .. Len(log[m][d]) /\ s \in TrayRows(m, d, i)
  BY RowsOfTables
<1>2. PICK i \in 1 .. Len(log[m][d]) : s \in TrayRows(m, d, i)
  BY <1>1
<1>3. s.tray \in Slots /\ s = TrayRow(m, d, i, s.tray)
  BY <1>0, <1>2, TrayRowSays
<1>4. PICK t \in Slots : t = s.tray
  BY <1>3
<1>5. s.simplex = Number(Said(m, d, i, SimplexCols[t])) /\ s.duplex = Number(Said(m, d, i, DuplexCols[t]))
  BY <1>3, <1>4 DEF TrayRow, SaidOf
<1>6. SimplexCols[t] \in CounterCols /\ DuplexCols[t] \in CounterCols
  BY SlotColumns
<1>7. PICK a \in Nat, b \in Nat : a = s.simplex /\ b = s.duplex + 1
  <2>1. s.simplex \in Nat /\ s.duplex \in Nat
    BY <1>0, <1>5, <1>6, SaidIsCount
  <2>. QED  BY <2>1
<1>8. b \div 2 \in Nat
  OBVIOUS
<1>. QED  BY <1>7, <1>8 DEF Sheets

LEMMA SumOfCounts ==
  ASSUME NEW D, IsFiniteSet(D), NEW f \in [D -> Int], NEW A \in SUBSET D, \A x \in A : f[x] \in Nat
  PROVE  SumAt(f, A) \in Nat
<1>. DEFINE S == {s \in SUBSET A : SumAt(f, s) \in Nat}
<1>1. IsFiniteSet(A)
  BY FS_Subset
<1>2. {} \in S
  BY SumEmpty
<1>3. ASSUME NEW s \in SUBSET A, NEW x \in A \ s, s \in S PROVE s \cup {x} \in S
  <2>1. PICK t \in SUBSET A : t = s \cup {x}
    BY <1>3
  <2>2. t \in SUBSET D /\ x \in t /\ t \ {x} = s
    BY <1>3, <2>1
  <2>3. SumAt(f, t) = f[x] + SumAt(f, s)
    BY <2>2, SumAnyOrder
  <2>. QED  BY <1>3, <2>1, <2>3
<1>4. SUBSET A \subseteq S
  <2>. HIDE DEF S
  <2>. QED  BY <1>1, <1>2, <1>3, SubsetInduction
<1>5. A \in S
  BY <1>4
<1>. QED  BY <1>5

LEMMA ClicksOfRunsAreCounts ==
  ASSUME TablesInv, CountersAreCounts, NEW P \in SUBSET jobs
  PROVE  ClicksOf(P) \in Nat
<1>1. PICK g : g = [r \in P |-> Clicks(r)]
  OBVIOUS
<1>2. IsFiniteSet(P) /\ g \in [P -> Int] /\ DOMAIN g = P /\ \A r \in P : g[r] \in Nat
  BY <1>1, JobsFinite, ClicksAreCounts, FS_Subset
<1>3. SumAt(g, P) \in Nat
  BY <1>2, SumOfCounts
<1>. QED  BY <1>1, <1>2, <1>3, SumIsSumAt DEF ClicksOf, Total

-----------------------------------------------------------------------------
(* The paper of the runs.                                                  *)

SheetsOfDrawn(D) == Total(D, LAMBDA p : Sheets(p[1]))

\* job_media joined with the runs P.
DrawnOf(P) == {p \in Drawn : p[2] \in P}

LEMMA DrawnIsFinite ==
  ASSUME TablesInv, NEW D \in SUBSET Drawn
  PROVE  IsFiniteSet(D) /\ \A p \in D : p[1] \in media /\ p[2] \in jobs /\ Sheets(p[1]) \in Int
<1>1. IsFiniteSet(media \X jobs)
  BY MediaFinite, JobsFinite, FS_Product
<1>2. D \in SUBSET (media \X jobs)
  BY DEF Drawn
<1>3. \A s \in media : Sheets(s) \in Int
  BY SheetsAreInt
<1>. QED  BY <1>1, <1>2, <1>3, FS_Subset

\* Every tray row belongs to one run, so the join has the sheets of the runs.
LEMMA DrawnHasTheSheets ==
  ASSUME TablesInv, NEW P \in SUBSET jobs, NEW D, D = DrawnOf(P)
  PROVE  SheetsOfDrawn(D) = SheetsOfRuns(P)
<1>. DEFINE g == [p \in D |-> Sheets(p[1])]
            h == [r \in P |-> SheetsOf(TraysOf(r))]
            phi == [p \in D |-> p[2]]
<1>0. D \in SUBSET Drawn
  BY DEF DrawnOf
<1>1. IsFiniteSet(D) /\ IsFiniteSet(P) /\ \A p \in D : p[1] \in media /\ p[2] \in P /\ Sheets(p[1]) \in Int
  <2>1. \A p \in D : p[2] \in P
    BY DEF DrawnOf
  <2>. QED  BY <1>0, <2>1, DrawnIsFinite, JobsFinite, FS_Subset
<1>2. g \in [D -> Int] /\ phi \in [D -> P]
  BY <1>1
<1>3. h \in [P -> Int]
  BY SheetsAreInt DEF TraysOf
<1>4. ASSUME NEW r \in P PROVE h[r] = SumAt(g, {p \in D : phi[p] = r})
  <2>1. PICK own \in SUBSET D : own = {p \in D : p[2] = r}
    OBVIOUS
  <2>2. PICK trays \in SUBSET media : trays = TraysOf(r)
    BY DEF TraysOf
  <2>3. PICK a, c, link : /\ a = [t \in trays |-> Sheets(t)] /\ c = [p \in own |-> Sheets(p[1])]
                          /\ link = [t \in trays |-> <<t, r>>]
    OBVIOUS
  <2>4. IsFiniteSet(trays) /\ IsFiniteSet(own)
    BY <1>1, MediaFinite, FS_Subset
  <2>5. a \in [trays -> Int] /\ DOMAIN a = trays /\ c \in [own -> Int] /\ DOMAIN c = own
    BY <1>1, <2>3, SheetsAreInt
  <2>6. link \in [trays -> own]
    <3>1. ASSUME NEW t \in trays PROVE <<t, r>> \in own
      BY <2>1, <2>2 DEF TraysOf, DrawnOf, Drawn
    <3>. QED  BY <2>3, <3>1
  <2>7. \A p \in own : \E t \in trays : link[t] = p
    <3>1. ASSUME NEW p \in own PROVE p[1] \in trays /\ p = <<p[1], r>>
      BY <2>1, <2>2 DEF TraysOf, DrawnOf, Drawn
    <3>. QED  BY <2>3, <3>1
  <2>8. \A s, t \in trays : link[s] = link[t] => s = t
    BY <2>3
  <2>9. \A t \in trays : c[link[t]] = a[t]
    <3>1. \A t \in trays : link[t] \in own /\ link[t][1] = t
      BY <2>3, <2>6
    <3>. QED  BY <2>3, <3>1
  <2>10. SumFunction(c) = SumFunction(a)
    BY <2>4, <2>5, <2>6, <2>7, <2>8, <2>9, SumRenamed
  <2>11. SheetsOf(trays) = SumFunction(a)
    BY <2>3 DEF SheetsOf, Total
  <2>12. SumFunction(c) = SumAt(c, own)
    BY <2>5, SumIsSumAt
  <2>13. SumAt(c, own) = SumAt(g, own)
    <3>1. \A p \in own : c[p] = g[p]
      BY <2>3
    <3>. HIDE DEF g
    <3>. QED  BY <1>1, <1>2, <2>4, <2>5, <3>1, SumAgrees
  <2>14. {p \in D : phi[p] = r} = own
    BY <2>1
  <2>15. h[r] = SheetsOf(trays)
    BY <2>2
  <2>. HIDE DEF g, h, phi
  <2>. QED  BY <2>10, <2>11, <2>12, <2>13, <2>14, <2>15
<1>5. SumFunction(h) = SumFunction(g)
  <2>. HIDE DEF g, h, phi
  <2>. QED  BY <1>1, <1>2, <1>3, <1>4, SumOfGroups
<1>. QED  BY <1>5 DEF SheetsOfDrawn, SheetsOfRuns, Total

-----------------------------------------------------------------------------
(* The paper of a set of runs by grade.                                    *)

Grade(p) == <<p[1].name, p[1].format>>

OfGrade(D, p) == {q \in D : Grade(q) = Grade(p)}

SheetsOfGrades(E) == Total(E, LAMBDA g : g.sheets)

\* Entries by grade have the sheets of what is joined.
LEMMA GradesHaveTheSheets ==
  ASSUME TablesInv, NEW D \in SUBSET Drawn, NEW E, NEW phi \in [D -> E],
         \A e \in E : \E p \in D : phi[p] = e,
         \A p, q \in D : phi[p] = phi[q] <=> Grade(p) = Grade(q),
         \A p \in D : phi[p].sheets = SheetsOfDrawn(OfGrade(D, p))
  PROVE  /\ IsFiniteSet(E) /\ \A e \in E : e.sheets \in Int
         /\ SheetsOfGrades(E) = SheetsOfDrawn(D)
<1>1. PICK g, h : g = [p \in D |-> Sheets(p[1])] /\ h = [e \in E |-> e.sheets]
  OBVIOUS
<1>2. IsFiniteSet(D) /\ g \in [D -> Int]
  BY <1>1, DrawnIsFinite
<1>3. IsFiniteSet(E)
  <2>1. IsFiniteSet({phi[p] : p \in DOMAIN phi})
    BY <1>2, ImageFinite
  <2>2. {phi[p] : p \in DOMAIN phi} = E
    OBVIOUS
  <2>. QED  BY <2>1, <2>2
<1>4. ASSUME NEW e \in E
      PROVE  h[e] = SumAt(g, {p \in D : phi[p] = e}) /\ h[e] \in Int
  <2>1. PICK p \in D : phi[p] = e
    OBVIOUS
  <2>2. PICK own \in SUBSET D : own = OfGrade(D, p)
    BY DEF OfGrade
  <2>3. {q \in D : phi[q] = e} = own
    BY <2>1, <2>2 DEF OfGrade
  <2>4. h[e] = SheetsOfDrawn(own)
    BY <1>1, <2>1, <2>2
  <2>5. PICK c : c = [q \in own |-> Sheets(q[1])]
    OBVIOUS
  <2>6. IsFiniteSet(own) /\ c \in [own -> Int] /\ DOMAIN c = own /\ \A q \in own : c[q] = g[q]
    BY <1>1, <1>2, <2>5, FS_Subset
  <2>7. SheetsOfDrawn(own) = SumAt(c, own)
    BY <2>5, <2>6, SumIsSumAt DEF SheetsOfDrawn, Total
  <2>8. SumAt(c, own) = SumAt(g, own)
    BY <1>2, <2>6, SumAgrees
  <2>9. SumAt(g, own) \in Int
    BY <1>2, SumAnyOrder
  <2>. QED  BY <2>3, <2>4, <2>7, <2>8, <2>9
<1>5. h \in [E -> Int] /\ \A e \in E : e.sheets \in Int
  BY <1>1, <1>4
<1>6. SumFunction(h) = SumFunction(g)
  BY <1>2, <1>3, <1>4, <1>5, SumOfGroups
<1>. QED  BY <1>1, <1>3, <1>5, <1>6 DEF SheetsOfGrades, SheetsOfDrawn, Total

MaterialEntry(g) ==
   [name    |-> (CHOOSE p \in g : TRUE)[1].name,
    format  |-> (CHOOSE p \in g : TRUE)[1].format,
    simplex |-> Total(g, LAMBDA p : p[1].simplex),
    duplex  |-> Total(g, LAMBDA p : p[1].duplex),
    sheets  |-> Total(g, LAMBDA p : Sheets(p[1]))]

GradeEntry(g) ==
   [grade   |-> <<(CHOOSE p \in g : TRUE)[1].name, (CHOOSE p \in g : TRUE)[1].format>>,
    simplex |-> Total(g, LAMBDA p : p[1].simplex),
    duplex  |-> Total(g, LAMBDA p : p[1].duplex),
    sheets  |-> Total(g, LAMBDA p : Sheets(p[1])),
    rows    |-> Cardinality(g),
    jobs    |-> Cardinality({Key(p[2]) : p \in g} \ {NoKey}),
    first   |-> Min({p[2].startdate : p \in g}),
    last    |-> Max({p[2].startdate : p \in g})]

LEMMA EntriesSay ==
  ASSUME NEW D, NEW p \in D, NEW g, g = OfGrade(D, p)
  PROVE  /\ <<MaterialEntry(g).name, MaterialEntry(g).format>> = Grade(p)
         /\ MaterialEntry(g).sheets = SheetsOfDrawn(g)
         /\ GradeEntry(g).grade = Grade(p) /\ GradeEntry(g).sheets = SheetsOfDrawn(g)
<1>1. PICK q \in g : q = CHOOSE any \in g : TRUE
  BY DEF OfGrade
<1>2. Grade(q) = Grade(p)
  BY <1>1 DEF OfGrade
<1>3. PICK m, e : m = MaterialEntry(g) /\ e = GradeEntry(g)
  OBVIOUS
<1>4. m.name = q[1].name /\ m.format = q[1].format /\ m.sheets = SheetsOfDrawn(g)
  BY <1>1, <1>3 DEF MaterialEntry, SheetsOfDrawn
<1>5. e.grade = Grade(q) /\ e.sheets = SheetsOfDrawn(g)
  BY <1>1, <1>3 DEF GradeEntry, SheetsOfDrawn, Grade
<1>. QED  BY <1>2, <1>3, <1>4, <1>5 DEF Grade

LEMMA MaterialHasTheSheets ==
  ASSUME TablesInv, NEW k, NEW P \in SUBSET jobs, P = {r \in jobs : Key(r) = k}
  PROVE  SheetsOfGrades(MaterialSummary(k)) = SheetsOfRuns(P)
<1>1. PICK D \in SUBSET Drawn : D = DrawnOf(P)
  BY DEF DrawnOf
<1>2. D = {p \in Drawn : Key(p[2]) = k}
  BY <1>1 DEF DrawnOf, Drawn
<1>3. MaterialSummary(k) = {MaterialEntry(OfGrade(D, p)) : p \in D}
  <2>1. MaterialSummary(k) = {MaterialEntry(g) : g \in Groups(D, LAMBDA p : <<p[1].name, p[1].format>>)}
    BY <1>2 DEF MaterialSummary, MaterialEntry
  <2>2. Groups(D, LAMBDA p : <<p[1].name, p[1].format>>) = {OfGrade(D, p) : p \in D}
    BY DEF Groups, OfGrade, Grade
  <2>. QED  BY <2>1, <2>2
<1>4. PICK E, phi : E = MaterialSummary(k) /\ phi = [p \in D |-> MaterialEntry(OfGrade(D, p))]
  OBVIOUS
<1>5. phi \in [D -> E] /\ \A e \in E : \E p \in D : phi[p] = e
  BY <1>3, <1>4
<1>6. ASSUME NEW p \in D
      PROVE  /\ <<phi[p].name, phi[p].format>> = Grade(p)
             /\ phi[p].sheets = SheetsOfDrawn(OfGrade(D, p))
  BY <1>4, EntriesSay
<1>7. \A p, q \in D : phi[p] = phi[q] <=> Grade(p) = Grade(q)
  <2>1. \A p, q \in D : Grade(p) = Grade(q) => OfGrade(D, p) = OfGrade(D, q)
    BY DEF OfGrade
  <2>2. \A p, q \in D : Grade(p) = Grade(q) => phi[p] = phi[q]
    BY <1>4, <2>1
  <2>. QED  BY <1>6, <2>2
<1>8. SheetsOfGrades(E) = SheetsOfDrawn(D)
  BY <1>5, <1>6, <1>7, GradesHaveTheSheets
<1>9. SheetsOfDrawn(D) = SheetsOfRuns(P)
  BY <1>1, DrawnHasTheSheets
<1>. QED  BY <1>4, <1>8, <1>9

LEMMA PaperHasTheSheets ==
  ASSUME TablesInv, CountersAreCounts, NEW f, DOMAIN f = DOMAIN NoFilter, f.q = {},
         NEW P \in SUBSET jobs, P = {r \in jobs : Matches(r, f)}
  PROVE  SheetsOfGrades(PaperUsage(f)) = SheetsOfRuns(P)
<1>1. PICK D \in SUBSET Drawn : D = DrawnOf(P)
  BY DEF DrawnOf
<1>2. D = {p \in Drawn : Matches(p[2], [f EXCEPT !.q = {}])
                         /\ (f.q = {} \/ {<<p[1].name>>, <<p[1].format>>} \cap f.q # {})}
  <2>1. PICK h : h = [f EXCEPT !.q = {}]
    OBVIOUS
  <2>2. /\ h.machine = f.machine /\ h.from = f.from /\ h.to = f.to /\ h.jobtype = f.jobtype
        /\ h.exclude = f.exclude /\ h.result = f.result /\ h.q = f.q
    BY <2>1 DEF NoFilter
  <2>3. \A r : Matches(r, h) <=> Matches(r, f)
    BY <2>2 DEF Matches
  <2>. QED  BY <1>1, <2>1, <2>3 DEF DrawnOf, Drawn
<1>3. PICK E : E = {GradeEntry(OfGrade(D, p)) : p \in D}
  OBVIOUS
<1>4. PaperUsage(f) = {e \in E : e.sheets > 0}
  <2>1. PaperUsage(f) = {e \in {GradeEntry(g) : g \in Groups(D, LAMBDA p : <<p[1].name, p[1].format>>)} :
                          e.sheets > 0}
    BY <1>2 DEF PaperUsage, GradeEntry
  <2>2. Groups(D, LAMBDA p : <<p[1].name, p[1].format>>) = {OfGrade(D, p) : p \in D}
    BY DEF Groups, OfGrade, Grade
  <2>3. E = {GradeEntry(g) : g \in {OfGrade(D, p) : p \in D}}
    BY <1>3
  <2>. QED  BY <2>1, <2>2, <2>3
<1>5. PICK phi : phi = [p \in D |-> GradeEntry(OfGrade(D, p))]
  OBVIOUS
<1>6. phi \in [D -> E] /\ \A e \in E : \E p \in D : phi[p] = e
  BY <1>3, <1>5
<1>7. ASSUME NEW p \in D
      PROVE  phi[p].grade = Grade(p) /\ phi[p].sheets = SheetsOfDrawn(OfGrade(D, p))
  BY <1>5, EntriesSay
<1>8. \A p, q \in D : phi[p] = phi[q] <=> Grade(p) = Grade(q)
  <2>1. \A p, q \in D : Grade(p) = Grade(q) => OfGrade(D, p) = OfGrade(D, q)
    BY DEF OfGrade
  <2>2. \A p, q \in D : Grade(p) = Grade(q) => phi[p] = phi[q]
    BY <1>5, <2>1
  <2>. QED  BY <1>7, <2>2
<1>9. IsFiniteSet(E) /\ (\A e \in E : e.sheets \in Int) /\ SheetsOfGrades(E) = SheetsOfDrawn(D)
  <2>1. \A p \in D : phi[p].sheets = SheetsOfDrawn(OfGrade(D, p))
    BY <1>7
  <2>. QED  BY ONLY TablesInv, D \in SUBSET Drawn, <1>6, <1>8, <2>1, GradesHaveTheSheets
<1>10. ASSUME NEW e \in E PROVE e.sheets \in Nat
  <2>1. PICK p \in D : phi[p] = e
    BY <1>6
  <2>2. PICK own \in SUBSET Drawn : own = OfGrade(D, p)
    BY DEF OfGrade
  <2>3. PICK g : g = [q \in own |-> Sheets(q[1])]
    OBVIOUS
  <2>4. IsFiniteSet(own) /\ g \in [own -> Int] /\ DOMAIN g = own /\ \A q \in own : g[q] \in Nat
    BY <2>3, DrawnIsFinite, SheetsAreCounts
  <2>5. SumAt(g, own) \in Nat
    BY <2>4, SumOfCounts
  <2>. QED  BY <1>7, <2>1, <2>2, <2>3, <2>4, <2>5, SumIsSumAt DEF SheetsOfDrawn, Total
<1>11. PICK shown \in SUBSET E, blank \in SUBSET E :
         shown = {e \in E : e.sheets > 0} /\ blank = {e \in E : ~ (e.sheets > 0)}
  OBVIOUS
<1>12. PICK a, b : a = [e \in E |-> e.sheets] /\ b = [e \in shown |-> e.sheets]
  OBVIOUS
<1>13. /\ a \in [E -> Int] /\ DOMAIN a = E /\ b \in [shown -> Int] /\ DOMAIN b = shown
       /\ IsFiniteSet(shown) /\ \A e \in shown : a[e] = b[e]
  <2>1. IsFiniteSet(shown)
    BY <1>9, FS_Subset
  <2>. QED  BY <1>9, <1>12, <2>1
<1>14. SumAt(a, blank) = 0
  <2>1. \A e \in blank : a[e] = 0
    BY <1>10, <1>11, <1>12
  <2>. QED  BY <1>9, <1>13, <2>1, SumOfNothing
<1>15. SumAt(a, E) = SumAt(a, shown)
  <2>1. shown \cap blank = {} /\ shown \cup blank = E
    BY <1>11
  <2>2. SumAt(a, shown \cup blank) = SumAt(a, shown) + SumAt(a, blank)
    BY <1>9, <1>13, <2>1, SumUnion
  <2>3. SumAt(a, shown) \in Int
    BY <1>9, <1>13, SumAnyOrder
  <2>4. SumAt(a, E) = SumAt(a, shown \cup blank)
    BY <2>1
  <2>. QED  BY <1>14, <2>2, <2>3, <2>4
<1>16. SumAt(a, shown) = SumAt(b, shown)
  BY <1>9, <1>13, SumAgrees
<1>17. SheetsOfGrades(E) = SumAt(a, E) /\ SheetsOfGrades(shown) = SumAt(b, shown)
  BY <1>12, <1>13, SumIsSumAt DEF SheetsOfGrades, Total
<1>18. SheetsOfDrawn(D) = SheetsOfRuns(P)
  BY <1>1, DrawnHasTheSheets
<1>. QED  BY <1>4, <1>9, <1>11, <1>15, <1>16, <1>17, <1>18

\* The trays shown at a row are those of its run.
LEMMA MediaOfARow ==
  ASSUME TablesInv, NEW f, NEW x \in Cls(f)
  PROVE  SheetsOf(MediaByLine(x.key, x)) = x.sheets
<1>1. PICK r \in jobs : SameRun(x, r) /\ x.key = Key(r)
  BY RunOfRow
<1>2. MediaByLine(x.key, x) = TraysOf(r)
  <2>1. ASSUME NEW s \in media, SameRun(s, x) PROVE SameRun(s, r)
    BY <1>1, <2>1 DEF SameRun
  <2>2. ASSUME NEW s \in media, SameRun(s, r) PROVE SameRun(s, x)
    BY <1>1, <2>2 DEF SameRun
  <2>. QED  BY <1>1, <2>1, <2>2 DEF MediaByLine, TraysOf
<1>. QED  BY <1>1, <1>2, RowHasTheSheets DEF TraysOf

LEMMA SheetsOfAReport ==
  ASSUME TablesInv, NEW f, NEW P \in SUBSET jobs, P = {r \in jobs : Matches(r, f)}
  PROVE  SheetsOfRows(Cls(f)) = SheetsOfRuns(P)
<1>1. Stands(Cls(f), P)
  <2>1. \A x \in Cls(f) : \E r \in P : SameRun(x, r)
    BY RunOfRow
  <2>2. ASSUME NEW r \in P PROVE \E x \in Cls(f) : SameRun(x, r)
    <3>1. PICK x \in Cls(f) : {z \in Cls(f) : SameRun(z, r)} = {x}
      BY RowOfRun
    <3>. QED  BY <3>1
  <2>. QED  BY <2>1, <2>2 DEF Stands
<1>. QED  BY <1>1, SheetsOverRuns

=============================================================================
