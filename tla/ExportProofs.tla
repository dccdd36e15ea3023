---------------------------- MODULE ExportProofs ----------------------------
(***************************************************************************)
(* What reaches the downstream system is true, complete and comes once,    *)
(* for any presses, days, logs, cuts, pages and windows, and any number of *)
(* imports, reimports, rebuilds and failures.                              *)
(***************************************************************************)
EXTENDS Export, TLAPS, FiniteSetTheorems, WellFoundedInduction,
        FunctionTheorems, SequenceTheorems

-----------------------------------------------------------------------------
(* The invariant.                                                          *)

Entry == [kind : {"none", "ACL", "CSV"}, runs : Seq(Runs)]

DbType == db \in [Machines -> [Days -> Entry]]

Locals == {"pc", "from", "to", "days", "after", "page", "next", "got", "served", "todo"}

ClientType ==
  /\ client = [f \in Locals |-> client[f]]
  /\ client.pc = "days" => client.got = {} /\ client.page = {}

\* A final day is the beginning of its closed log, up to where its CSV was cut.
BeginsClosed(m, d, runs) ==
  \E n \in 0 .. Len(Closed[m][d]) : runs = SubSeq(Closed[m][d], 1, n)

FinalIsCut ==
  \A m \in Machines, d \in Days : db[m][d].kind = "CSV" => BeginsClosed(m, d, db[m][d].runs)

\* A row as far as a record is made of it.
OfClosedLog(r) == \E c \in ClosedRows : r.id = c.id /\ r.run = c.run

\* Whatever the client holds was final when it was read, and stays what it was.
HandsTrue == \A r \in client.page \cup client.todo : OfClosedLog(r)

DayOf(r) == <<r.id[1], r.id[2]>>

\* The page whose media is still to come stands in the tables, but for the days
\* that were imported again or dropped.
PageStands == \A r \in client.page : DayOf(r) \notin redone => r \in Rows /\ r.final

RecordsTrue == \A rec \in target : \E c \in ClosedRows : rec = ToRecord(c)

ExportInv ==
  DbType /\ ClientType /\ FinalIsCut /\ HandsTrue /\ PageStands /\ NoTornRow /\ RecordsTrue

-----------------------------------------------------------------------------
(* Rows.                                                                   *)

Line(m, d, i) ==
  [id  |-> <<m, d, db[m][d].runs[i].jobid, i - 1>>,
   run |-> db[m][d].runs[i], final |-> db[m][d].kind = "CSV"]

ClosedLine(m, d, i) ==
  [id |-> <<m, d, Closed[m][d][i].jobid, i - 1>>, run |-> Closed[m][d][i]]

\* A row stands for one line of the day it is identified by.
LEMMA RowIsALine ==
  ASSUME DbType, NEW r \in Rows
  PROVE  \E m \in Machines, d \in Days, i \in Nat :
           i \in DOMAIN db[m][d].runs /\ r = Line(m, d, i)
<1>1. PICK m \in Machines, d \in Days : \E i \in DOMAIN db[m][d].runs : r = Line(m, d, i)
  BY DEF Rows, Line
<1>2. PICK i \in DOMAIN db[m][d].runs : r = Line(m, d, i)
  BY <1>1
<1>3. i \in Nat
  BY DEF DbType, Entry
<1>. QED  BY <1>2, <1>3

LEMMA LineIsARow ==
  ASSUME NEW m \in Machines, NEW d \in Days, NEW i \in DOMAIN db[m][d].runs
  PROVE  Line(m, d, i) \in Rows
BY DEF Rows, Line

LEMMA ClosedRowIsALine ==
  ASSUME NEW r \in ClosedRows
  PROVE  \E m \in Machines, d \in Days, i \in Nat :
           i \in DOMAIN Closed[m][d] /\ r = ClosedLine(m, d, i)
<1>1. PICK m \in Machines, d \in Days : \E i \in DOMAIN Closed[m][d] : r = ClosedLine(m, d, i)
  BY DEF ClosedRows, ClosedLine
<1>2. PICK i \in DOMAIN Closed[m][d] : r = ClosedLine(m, d, i)
  BY <1>1
<1>3. i \in Nat
  BY LogsAssumption
<1>. QED  BY <1>2, <1>3

LEMMA ClosedLineIsARow ==
  ASSUME NEW m \in Machines, NEW d \in Days, NEW i \in DOMAIN Closed[m][d]
  PROVE  ClosedLine(m, d, i) \in ClosedRows
BY DEF ClosedRows, ClosedLine

\* The identity of a line names it.
LEMMA OneRowPerId ==
  ASSUME DbType, NEW r \in Rows, NEW s \in Rows, r.id = s.id
  PROVE  r = s
<1>1. PICK m \in Machines, d \in Days, i \in Nat : r = Line(m, d, i)
  BY RowIsALine
<1>2. PICK n \in Machines, e \in Days, j \in Nat : s = Line(n, e, j)
  BY RowIsALine
<1>3. m = n /\ d = e /\ i - 1 = j - 1
  BY <1>1, <1>2 DEF Line
<1>. QED  BY <1>1, <1>2, <1>3

LEMMA OneClosedRowPerId ==
  ASSUME NEW r \in ClosedRows, NEW s \in ClosedRows,
         r.id[1] = s.id[1], r.id[2] = s.id[2], r.id[4] = s.id[4]
  PROVE  r = s
<1>1. PICK m \in Machines, d \in Days, i \in Nat : r = ClosedLine(m, d, i)
  BY ClosedRowIsALine
<1>2. PICK n \in Machines, e \in Days, j \in Nat : s = ClosedLine(n, e, j)
  BY ClosedRowIsALine
<1>3. m = n /\ d = e /\ i - 1 = j - 1
  BY <1>1, <1>2 DEF ClosedLine
<1>. QED  BY <1>1, <1>2, <1>3

\* What was read of a closed log are the lines of it up to the cut.
LEMMA CutLine ==
  ASSUME NEW m \in Machines, NEW d \in Days, NEW n \in 0 .. Len(Closed[m][d]),
         NEW i \in DOMAIN SubSeq(Closed[m][d], 1, n)
  PROVE  i \in DOMAIN Closed[m][d] /\ SubSeq(Closed[m][d], 1, n)[i] = Closed[m][d][i]
<1>. PICK s : s = Closed[m][d]
  OBVIOUS
<1>1. s \in Seq(Runs) /\ n \in Nat /\ n <= Len(s) /\ DOMAIN s = 1 .. Len(s)
  BY LogsAssumption
<1>2. \A j \in 1 .. n : s[j] \in Runs
  BY <1>1
<1>3. /\ SubSeq(s, 1, n) \in Seq(Runs)
      /\ Len(SubSeq(s, 1, n)) = IF 1 <= n THEN n - 1 + 1 ELSE 0
      /\ \A j \in 1 .. n - 1 + 1 : SubSeq(s, 1, n)[j] = s[1 + j - 1]
  BY <1>1, <1>2, SubSeqProperties
<1>4. i \in 1 .. n
  BY <1>1, <1>3
<1>5. SubSeq(s, 1, n)[i] = s[1 + i - 1] /\ 1 + i - 1 = i
  BY <1>1, <1>3, <1>4
<1>. QED  BY <1>1, <1>4, <1>5

\* Whatever is imported of a day is a log of the press.
LEMMA SnapshotIsALog ==
  ASSUME NEW m \in Machines, NEW d \in Days, NEW kind, NEW runs \in Snapshots(m, d, kind)
  PROVE  /\ runs \in Seq(Runs)
         /\ kind = "CSV" => BeginsClosed(m, d, runs)
<1>. PICK s : s = Closed[m][d]
  OBVIOUS
<1>1. s \in Seq(Runs) /\ Len(s) \in Nat /\ DOMAIN s = 1 .. Len(s)
  BY LogsAssumption
<1>2. CASE kind = "CSV"
  <2>1. PICK n \in Cuts[m][d] \cup {Len(s)} : runs = SubSeq(s, 1, n)
    BY <1>2 DEF Snapshots
  <2>2. n \in 0 .. Len(s)
    BY <1>1, CutsAssumption
  <2>3. \A j \in 1 .. n : s[j] \in Runs
    BY <1>1, <2>2
  <2>4. SubSeq(s, 1, n) \in Seq(Runs)
    BY <2>2, <2>3, SubSeqProperties
  <2>. QED  BY <2>1, <2>2, <2>4 DEF BeginsClosed
<1>3. CASE kind # "CSV"
  BY <1>3, LogsAssumption DEF Snapshots
<1>. QED  BY <1>2, <1>3

\* A final row of the tables is a line of a closed log.
LEMMA FinalRowIsClosed ==
  ASSUME DbType, FinalIsCut, NEW r \in Rows, r.final
  PROVE  OfClosedLog(r)
<1>1. PICK m \in Machines, d \in Days, i \in Nat :
        i \in DOMAIN db[m][d].runs /\ r = Line(m, d, i)
  BY RowIsALine
<1>2. BeginsClosed(m, d, db[m][d].runs)
  BY <1>1 DEF FinalIsCut, Line
<1>3. i \in DOMAIN Closed[m][d] /\ db[m][d].runs[i] = Closed[m][d][i]
  <2>. PICK n \in 0 .. Len(Closed[m][d]) : db[m][d].runs = SubSeq(Closed[m][d], 1, n)
    BY <1>2 DEF BeginsClosed
  <2>. QED  BY <1>1, CutLine
<1>4. ClosedLine(m, d, i) \in ClosedRows
  BY <1>3, ClosedLineIsARow
<1>5. r.id = ClosedLine(m, d, i).id /\ r.run = ClosedLine(m, d, i).run
  BY <1>1, <1>3 DEF Line, ClosedLine
<1>. QED  BY <1>4, <1>5 DEF OfClosedLog

\* A record is made of the identity and the run alone.
LEMMA RecordOfClosed ==
  ASSUME NEW r, NEW c, r.id = c.id, r.run = c.run
  PROVE  ToRecord(r) = ToRecord(c) /\ RecordKey(r) = RecordKey(c)
BY DEF ToRecord, RecordKey

\* An import of one day leaves the rows of the others alone.
LEMMA OtherRowStays ==
  ASSUME DbType, NEW m \in Machines, NEW d \in Days, NEW kind, ImportDate(m, d, kind),
         NEW r \in Rows, DayOf(r) # <<m, d>>
  PROVE  r \in Rows'
<1>1. PICK n \in Machines, e \in Days, i \in Nat :
        i \in DOMAIN db[n][e].runs /\ r = Line(n, e, i)
  BY RowIsALine
<1>2. n # m \/ e # d
  BY <1>1 DEF DayOf, Line
<1>3. db'[n][e] = db[n][e]
  BY <1>2 DEF ImportDate, DbType
<1>4. r = Line(n, e, i)'
  BY <1>1, <1>3 DEF Line
<1>5. i \in DOMAIN db'[n][e].runs
  BY <1>1, <1>3
<1>6. Line(n, e, i)' \in Rows'
  <2>. DEFINE lines(x, y) == {Line(x, y, j)' : j \in DOMAIN db'[x][y].runs}
  <2>1. Line(n, e, i)' \in lines(n, e)
    BY <1>5
  <2>2. Rows' = UNION {UNION {lines(x, y) : y \in Days} : x \in Machines}
    BY DEF Rows, Line
  <2>. HIDE DEF lines
  <2>3. lines(n, e) \subseteq UNION {lines(n, y) : y \in Days}
    OBVIOUS
  <2>. QED  BY <2>1, <2>2, <2>3
<1>. QED  BY <1>4, <1>6

-----------------------------------------------------------------------------
(* The steps.                                                              *)

LEMMA IdleKeeps ==
  ASSUME ExportInv, client' = Idle, db' = db, target' = target
  PROVE  ExportInv'
<1>1. DbType' /\ FinalIsCut'
  BY DEF ExportInv, DbType, FinalIsCut
<1>2. ClientType'
  BY DEF ExportInv, ClientType, Idle, Locals
<1>3. client'.page = {} /\ client'.todo = {} /\ client'.got = {}
  BY DEF Idle
<1>4. HandsTrue' /\ PageStands' /\ NoTornRow'
  BY <1>3 DEF HandsTrue, PageStands, NoTornRow
<1>5. RecordsTrue'
  BY DEF ExportInv, RecordsTrue
<1>. QED  BY <1>1, <1>2, <1>4, <1>5 DEF ExportInv

LEMMA InitEstablishes == Init => ExportInv
<1>. SUFFICES ASSUME Init PROVE ExportInv
  OBVIOUS
<1>1. DbType /\ FinalIsCut
  BY DEF Init, DbType, FinalIsCut, Entry, NoDay
<1>2. ClientType
  BY DEF Init, ClientType, Idle, Locals
<1>3. HandsTrue /\ PageStands /\ NoTornRow /\ RecordsTrue
  BY DEF Init, Idle, HandsTrue, PageStands, NoTornRow, RecordsTrue
<1>. QED  BY <1>1, <1>2, <1>3 DEF ExportInv

LEMMA ImportDateKeeps ==
  ASSUME ExportInv, NEW m \in Machines, NEW d \in Days, NEW kind \in {"ACL", "CSV"},
         ImportDate(m, d, kind), UNCHANGED <<client, target>>,
         db[m][d].kind = "CSV" => <<m, d>> \in redone', redone \subseteq redone'
  PROVE  ExportInv'
<1>. USE DEF ExportInv
<1>1. PICK runs \in Snapshots(m, d, kind) :
        db' = [db EXCEPT ![m][d] = [kind |-> kind, runs |-> runs]]
  BY DEF ImportDate
<1>2. runs \in Seq(Runs) /\ (kind = "CSV" => BeginsClosed(m, d, runs))
  BY SnapshotIsALog
<1>3. DbType'
  <2>1. [kind |-> kind, runs |-> runs] \in Entry
    BY <1>2 DEF Entry
  <2>. QED  BY <1>1, <2>1 DEF DbType
<1>4. FinalIsCut'
  <2>. SUFFICES ASSUME NEW n \in Machines, NEW e \in Days, db'[n][e].kind = "CSV"
                PROVE  BeginsClosed(n, e, db'[n][e].runs)
    BY DEF FinalIsCut, BeginsClosed
  <2>1. CASE n = m /\ e = d
    BY <1>1, <1>2, <2>1 DEF DbType
  <2>2. CASE n # m \/ e # d
    <3>1. db'[n][e] = db[n][e]
      BY <1>1, <2>2 DEF DbType
    <3>. QED  BY <3>1 DEF FinalIsCut
  <2>. QED  BY <2>1, <2>2
<1>5. ClientType' /\ HandsTrue' /\ RecordsTrue' /\ NoTornRow'
  BY DEF ClientType, HandsTrue, OfClosedLog, RecordsTrue, NoTornRow
<1>6. PageStands'
  <2>. SUFFICES ASSUME NEW r \in client.page, DayOf(r) \notin redone'
                PROVE  r \in Rows' /\ r.final
    BY DEF PageStands, DayOf
  <2>1. r \in Rows /\ r.final
    BY DEF PageStands
  <2>2. DayOf(r) # <<m, d>>
    <3>1. PICK n \in Machines, e \in Days, i \in Nat : r = Line(n, e, i)
      BY <2>1, RowIsALine
    <3>2. DayOf(r) = <<n, e>> /\ db[n][e].kind = "CSV"
      BY <2>1, <3>1 DEF DayOf, Line
    <3>. QED  BY <3>2
  <2>. QED  BY <2>1, <2>2, OtherRowStays
<1>. QED  BY <1>3, <1>4, <1>5, <1>6

LEMMA ImportKeeps ==
  ASSUME ExportInv, NEW m \in Machines, NEW d \in Days, NEW kind \in {"ACL", "CSV"},
         Import(m, d, kind) \/ ImportOverFinal(m, d, kind)
  PROVE  ExportInv'
BY ImportDateKeeps DEF Import, ImportOverFinal, Redo

LEMMA RebuildKeeps ==
  ASSUME ExportInv, Rebuild
  PROVE  ExportInv'
<1>. USE DEF ExportInv
<1>1. DbType' /\ FinalIsCut'
  BY DEF Rebuild, DbType, FinalIsCut, Entry, NoDay
<1>2. ClientType' /\ HandsTrue' /\ RecordsTrue'
  BY DEF Rebuild, Redo, ClientType, HandsTrue, OfClosedLog, RecordsTrue
<1>3. PageStands'
  <2>1. ASSUME NEW r \in client.page PROVE DayOf(r) \in redone'
    <3>1. PICK c \in ClosedRows : r.id = c.id
      BY DEF HandsTrue, OfClosedLog
    <3>2. PICK m \in Machines, d \in Days, i \in Nat : c = ClosedLine(m, d, i)
      BY ClosedRowIsALine
    <3>3. DayOf(r) = <<m, d>>
      BY <3>1, <3>2 DEF DayOf, ClosedLine
    <3>. QED  BY <3>3 DEF Rebuild, Redo
  <2>. QED  BY <2>1 DEF Rebuild, Redo, PageStands, DayOf
<1>4. NoTornRow'
  BY DEF Rebuild, Redo, NoTornRow
<1>. QED  BY <1>1, <1>2, <1>3, <1>4

\* The rows of a page are selected rows, and a client asks for final ones only.
LEMMA PageIsFinal ==
  ASSUME NEW r \in RunPage(Query(client)).rows
  PROVE  r \in Rows /\ r.final
BY DEF RunPage, FirstOf, Selected, Query

\* The second query finds the media of the row that is still there.
LEMMA MediaOfStandingRow ==
  ASSUME DbType, NEW r \in Rows
  PROVE  MediaOf(r.id) = r.run.media
<1>1. {s \in Rows : s.id = r.id} = {r}
  BY OneRowPerId
<1>. QED  BY <1>1 DEF MediaOf

LEMMA ClientKeeps ==
  ASSUME ExportInv, ClientStep
  PROVE  ExportInv'
<1>. USE DEF ExportInv
<1>1. CASE Start
  <2>1. ClientType'
    <3>1. Idle = [f \in Locals |-> Idle[f]]
      BY DEF Idle, Locals
    <3>2. client' = [f \in Locals |-> client'[f]]
      <4>. HIDE DEF ExportInv
      <4>. QED  BY <1>1, <3>1 DEF Start, Locals
    <3>3. client'.got = {} /\ client'.page = {}
      BY <1>1 DEF Start, Idle
    <3>. QED  BY <3>2, <3>3 DEF ClientType
  <2>2. client'.page = {} /\ client'.todo = {} /\ client'.got = {}
    BY <1>1 DEF Start, Idle
  <2>3. HandsTrue' /\ PageStands' /\ NoTornRow'
    BY <2>2 DEF HandsTrue, PageStands, NoTornRow
  <2>. QED
    BY <1>1, <2>1, <2>3 DEF Start, DbType, FinalIsCut, RecordsTrue
<1>2. CASE ListDays
  <2>1. CASE FinalDays(client.from, client.to) = {}
    BY <1>2, <2>1, IdleKeeps DEF ListDays
  <2>2. CASE FinalDays(client.from, client.to) # {}
    <3>1. client' = [client EXCEPT !.pc = "runs", !.days = FinalDays(client.from, client.to)]
      BY <1>2, <2>2 DEF ListDays
    <3>2. ClientType'
      BY <1>2, <3>1 DEF ListDays, ClientType, Locals
    <3>3. client'.todo = client.todo /\ client'.page = {} /\ client'.got = {}
      BY <1>2, <3>1 DEF ListDays, ClientType, Locals
    <3>4. HandsTrue'
      BY <3>3 DEF HandsTrue, OfClosedLog
    <3>5. PageStands' /\ NoTornRow'
      BY <3>3 DEF PageStands, NoTornRow
    <3>. QED
      BY <1>2, <3>2, <3>4, <3>5 DEF ListDays, DbType, FinalIsCut, RecordsTrue
  <2>. QED  BY <2>1, <2>2
<1>3. CASE QueryRuns
  <2>1. client' = [client EXCEPT !.pc = "media", !.page = RunPage(Query(client)).rows,
                                 !.next = RunPage(Query(client)).next]
    BY <1>3 DEF QueryRuns
  <2>2. ClientType'
    BY <1>3, <2>1 DEF QueryRuns, ClientType, Locals
  <2>3. client'.page = RunPage(Query(client)).rows
    BY <2>1 DEF ClientType, Locals
  <2>4. \A f \in {"todo", "got"} : client'[f] = client[f]
    BY <2>1 DEF ClientType, Locals
  <2>5. \A r \in client'.page : r \in Rows /\ r.final
    BY <2>3, PageIsFinal
  <2>6. HandsTrue'
    BY <2>4, <2>5, FinalRowIsClosed DEF HandsTrue, OfClosedLog
  <2>7. PageStands' /\ NoTornRow'
    BY <1>3, <2>4, <2>5 DEF QueryRuns, PageStands, NoTornRow, DayOf, Rows
  <2>. QED
    BY <1>3, <2>2, <2>6, <2>7 DEF QueryRuns, DbType, FinalIsCut, RecordsTrue
<1>4. CASE QueryMedia
  <2>1. client' = [client EXCEPT
          !.pc     = IF client.next = NoCursor THEN "insert" ELSE "runs",
          !.after  = client.next,
          !.got    = client.got \cup AttachMedia(client.page),
          !.todo   = client.todo \cup client.page,
          !.served = client.served + Cardinality(client.page),
          !.page   = {}]
    BY <1>4 DEF QueryMedia
  <2>2. ClientType'
    BY <1>4, <2>1 DEF QueryMedia, ClientType, Locals
  <2>3. /\ client'.page = {} /\ client'.todo = client.todo \cup client.page
        /\ client'.got = client.got \cup AttachMedia(client.page)
    BY <2>1 DEF ClientType, Locals
  <2>4. HandsTrue' /\ PageStands'
    BY <2>3 DEF HandsTrue, PageStands, OfClosedLog
  <2>5. NoTornRow'
    <3>. SUFFICES ASSUME NEW g \in AttachMedia(client.page),
                         <<g.id[1], g.id[2]>> \notin redone
                  PROVE  g.media = g.run.media
      BY <1>4, <2>3 DEF QueryMedia, NoTornRow
    <3>1. PICK r \in client.page :
            g = [id |-> r.id, run |-> r.run, final |-> r.final, media |-> MediaOf(r.id)]
      BY DEF AttachMedia
    <3>2. r \in Rows
      BY <3>1 DEF PageStands, DayOf
    <3>. QED  BY <3>1, <3>2, MediaOfStandingRow
  <2>. QED
    BY <1>4, <2>2, <2>4, <2>5 DEF QueryMedia, DbType, FinalIsCut, RecordsTrue
<1>5. CASE InsertNext
  <2>1. CASE client.todo = {}
    BY <1>5, <2>1, IdleKeeps DEF InsertNext
  <2>2. CASE client.todo # {}
    <3>1. PICK r \in client.todo :
            /\ client' = [client EXCEPT !.todo = client.todo \ {r}]
            /\ target' = IF \E rec \in target : rec.key = RecordKey(r) THEN target
                         ELSE target \cup {ToRecord(r)}
      BY <1>5, <2>2 DEF InsertNext
    <3>2. ClientType'
      BY <1>5, <3>1 DEF InsertNext, ClientType, Locals
    <3>3. /\ \A f \in {"page", "got"} : client'[f] = client[f]
          /\ client'.todo = client.todo \ {r}
      BY <3>1 DEF ClientType, Locals
    <3>4. HandsTrue' /\ PageStands' /\ NoTornRow'
      BY <1>5, <3>3 DEF InsertNext, HandsTrue, PageStands, NoTornRow, OfClosedLog, DayOf, Rows
    <3>5. PICK c \in ClosedRows : r.id = c.id /\ r.run = c.run
      BY DEF HandsTrue, OfClosedLog
    <3>6. ToRecord(r) = ToRecord(c)
      BY <3>5, RecordOfClosed
    <3>7. RecordsTrue'
      BY <3>1, <3>6 DEF RecordsTrue
    <3>. QED
      BY <1>5, <3>2, <3>4, <3>7 DEF InsertNext, DbType, FinalIsCut
  <2>. QED  BY <2>1, <2>2
<1>. QED  BY <1>1, <1>2, <1>3, <1>4, <1>5 DEF ClientStep

LEMMA StepKeeps == ExportInv /\ [Next]_vars => ExportInv'
<1>. SUFFICES ASSUME ExportInv, [Next]_vars PROVE ExportInv'
  OBVIOUS
<1>1. ASSUME NEW m \in Machines, NEW d \in Days, NEW kind \in {"ACL", "CSV"},
             Import(m, d, kind) \/ ImportOverFinal(m, d, kind)
      PROVE  ExportInv'
  BY <1>1, ImportKeeps
<1>2. CASE Rebuild
  BY <1>2, RebuildKeeps
<1>3. CASE NextDay \/ UNCHANGED vars
  <2>1. UNCHANGED <<db, client, target, redone>>
    BY <1>3 DEF NextDay, vars
  <2>2. DbType' /\ ClientType' /\ FinalIsCut'
    BY <2>1 DEF ExportInv, DbType, ClientType, FinalIsCut
  <2>3. HandsTrue' /\ PageStands' /\ NoTornRow' /\ RecordsTrue'
    BY <2>1 DEF ExportInv, HandsTrue, OfClosedLog, PageStands, NoTornRow, RecordsTrue, DayOf, Rows
  <2>. QED  BY <2>2, <2>3 DEF ExportInv
<1>4. CASE ClientStep
  BY <1>4, ClientKeeps
<1>5. CASE GiveUp
  BY <1>5, IdleKeeps DEF GiveUp
<1>. QED  BY <1>1, <1>2, <1>3, <1>4, <1>5 DEF Next

LEMMA ExportInvariant == Spec => []ExportInv
BY InitEstablishes, StepKeeps, PTL DEF Spec

-----------------------------------------------------------------------------
(* The theorems.                                                           *)

\* A page and its media are two queries; unless the final day of a row is itself
\* imported again or dropped between them, both are of one version of that day,
\* whatever is imported beside (_attach_media).
THEOREM MediaOfTheirRun == Spec => []NoTornRow
<1>1. ExportInv => NoTornRow
  BY DEF ExportInv
<1>. QED  BY <1>1, ExportInvariant, PTL

\* Nothing interim and nothing twice: every record downstream is a run of a
\* closed log, and each run has one (record_key, process).
THEOREM RecordsOfClosedLogs == Spec => []TargetTrue
<1>1. ASSUME RecordsTrue PROVE TargetTrue
  <2>1. ASSUME NEW a \in target, NEW b \in target,
               a.key[1] = b.key[1], a.key[2] = b.key[2], a.key[3] = b.key[3],
               a.key[4] = b.key[4]
        PROVE  a = b
    <3>1. PICK r \in ClosedRows : a = ToRecord(r)
      BY <1>1 DEF RecordsTrue
    <3>2. PICK s \in ClosedRows : b = ToRecord(s)
      BY <1>1 DEF RecordsTrue
    <3>3. a.key = RecordKey(r) /\ b.key = RecordKey(s)
      BY <3>1, <3>2 DEF ToRecord
    <3>4. r.id[1] = s.id[1] /\ r.id[2] = s.id[2] /\ r.id[4] = s.id[4]
      BY <2>1, <3>3 DEF RecordKey
    <3>. QED  BY <3>1, <3>2, <3>4, OneClosedRowPerId
  <2>. QED  BY <1>1, <2>1 DEF TargetTrue, RecordsTrue
<1>2. ExportInv => TargetTrue
  BY <1>1 DEF ExportInv
<1>. QED  BY <1>2, ExportInvariant, PTL

-----------------------------------------------------------------------------
(* The pages and the cursor: the invariant.                                *)

IsId(a) ==
  a = <<a[1], a[2], a[3], a[4]>> /\ \A k \in 1 .. 4 : a[k] \in Nat

Ids(rows) == {r.id : r \in rows}

\* A finite set of rows, with one row for each identity.
Keyed(rows) ==
  /\ IsFiniteSet(rows)
  /\ \A r \in rows : IsId(r.id)
  /\ \A r, s \in rows : r.id = s.id => r = s

Counted ==
  /\ {client.from, client.to, today, redos, failures} \subseteq Nat
  /\ client.pc \in {"idle", "days", "runs", "media", "insert"}
  /\ client.days \subseteq Machines \X Days /\ redone \subseteq Machines \X Days

\* Rows are of the days so far, so there are finitely many.
NoRowAhead == \A m \in Machines, d \in Days : db[m][d].runs # <<>> => d <= today

HandsKeyed ==
  /\ IsId(client.after) /\ IsId(client.next)
  /\ Keyed(client.page)
  /\ IsFiniteSet(client.got) /\ \A g \in client.got : IsId(g.id)

\* What was got lies up to the cursor, the page in hand behind it.
CursorBetween ==
  /\ client.pc = "days" => client.got = {} /\ client.page = {} /\ client.after = NoCursor
  /\ client.pc \in {"runs", "media"} => \A g \in client.got : ~Before(client.after, g.id)
  /\ client.pc = "media" => \A r \in client.page : Before(client.after, r.id)
  /\ client.pc = "media" /\ client.next # NoCursor =>
       /\ Before(client.after, client.next)
       /\ \A r \in client.page : ~Before(client.next, r.id)

PagesInv == Counted /\ NoRowAhead /\ HandsKeyed /\ CursorBetween /\ NoRowTwice

\* The days of the list stay final, but for those imported again or dropped.
ListStands == \A p \in client.days \ redone : db[p[1]][p[2]].kind = "CSV"

Listed(r) == DayOf(r) \in client.days \ redone

Fetched(r) == \E g \in client.got : g.id = r.id /\ g.run = r.run

\* What was not fetched yet still lies ahead.
RestIsAhead ==
  \A r \in Wanted : Listed(r) =>
    /\ client.pc = "runs" => Fetched(r) \/ Before(client.after, r.id)
    /\ client.pc = "media" =>
         \/ Fetched(r) \/ r \in client.page
         \/ client.next # NoCursor /\ Before(client.next, r.id)
    /\ client.pc = "insert" => Fetched(r)

FetchInv == ListStands /\ RestIsAhead

-----------------------------------------------------------------------------
(* The order of the rows.                                                  *)

LEMMA BeforeIrreflexive ==
  ASSUME NEW a, IsId(a) PROVE ~Before(a, a)
BY DEF IsId, Before

LEMMA BeforeTransitive ==
  ASSUME NEW a, NEW b, NEW c, IsId(a), IsId(b), IsId(c), Before(a, b), Before(b, c)
  PROVE  Before(a, c)
<1>1. \A k \in 1 .. 4 : a[k] \in Nat /\ b[k] \in Nat /\ c[k] \in Nat
  BY DEF IsId
<1>2. /\ {a[1], a[2], a[3], a[4]} \subseteq Int /\ {b[1], b[2], b[3], b[4]} \subseteq Int
      /\ {c[1], c[2], c[3], c[4]} \subseteq Int
  BY <1>1
<1>. QED  BY <1>2 DEF Before

LEMMA BeforeTotal ==
  ASSUME NEW a, NEW b, IsId(a), IsId(b), a # b
  PROVE  Before(a, b) \/ Before(b, a)
<1>1. \A k \in 1 .. 4 : a[k] \in Nat /\ b[k] \in Nat
  BY DEF IsId
<1>2. {a[1], a[2], a[3], a[4]} \subseteq Int /\ {b[1], b[2], b[3], b[4]} \subseteq Int
  BY <1>1
<1>3. a[1] # b[1] \/ a[2] # b[2] \/ a[3] # b[3] \/ a[4] # b[4]
  BY DEF IsId
<1>. QED  BY <1>2, <1>3 DEF Before

\* The sets of rows before or behind a row grow strictly with it.
LEMMA LastExists ==
  ASSUME NEW rows, IsFiniteSet(rows), rows # {}, \A r \in rows : IsId(r.id)
  PROVE  LastOf(rows) \in rows /\ \A s \in rows : ~Before(LastOf(rows).id, s.id)
<1>. DEFINE Behind(r) == {s \in rows : Before(r.id, s.id)}
            Tails     == {Behind(r) : r \in rows}
<1>1. Tails \subseteq FiniteSubsetsOf(rows) /\ Tails # {}
  <2>1. \A r \in rows : Behind(r) \in SUBSET rows /\ IsFiniteSet(Behind(r))
    BY FS_Subset
  <2>2. PICK r \in rows : TRUE
    OBVIOUS
  <2>. QED  BY <2>1, <2>2 DEF FiniteSubsetsOf
<1>2. PICK t \in Tails : \A u \in Tails : <<u, t>> \notin StrictSubsetOrdering(rows)
  BY <1>1, FS_StrictSubsetOrderingWellFounded, WFMin
<1>3. PICK r \in rows : t = Behind(r)
  OBVIOUS
<1>4. ASSUME NEW s \in rows, Before(r.id, s.id) PROVE FALSE
  <2>1. s \in Behind(r) /\ s \notin Behind(s)
    BY <1>4, BeforeIrreflexive
  <2>2. Behind(s) \subseteq Behind(r)
    BY <1>4, BeforeTransitive
  <2>3. <<Behind(s), Behind(r)>> \in StrictSubsetOrdering(rows)
    BY <2>1, <2>2 DEF StrictSubsetOrdering
  <2>. QED  BY <2>3, <1>2, <1>3
<1>. QED  BY <1>4 DEF LastOf

LEMMA FirstExists ==
  ASSUME NEW rows, IsFiniteSet(rows), rows # {}, \A r \in rows : IsId(r.id)
  PROVE  \E r \in rows : \A s \in rows : ~Before(s.id, r.id)
<1>. DEFINE Ahead(r) == {s \in rows : Before(s.id, r.id)}
            Heads    == {Ahead(r) : r \in rows}
<1>1. Heads \subseteq FiniteSubsetsOf(rows) /\ Heads # {}
  <2>1. \A r \in rows : Ahead(r) \in SUBSET rows /\ IsFiniteSet(Ahead(r))
    BY FS_Subset
  <2>2. PICK r \in rows : TRUE
    OBVIOUS
  <2>. QED  BY <2>1, <2>2 DEF FiniteSubsetsOf
<1>2. PICK t \in Heads : \A u \in Heads : <<u, t>> \notin StrictSubsetOrdering(rows)
  BY <1>1, FS_StrictSubsetOrderingWellFounded, WFMin
<1>3. PICK r \in rows : t = Ahead(r)
  OBVIOUS
<1>4. ASSUME NEW s \in rows, Before(s.id, r.id) PROVE FALSE
  <2>1. s \in Ahead(r) /\ s \notin Ahead(s)
    BY <1>4, BeforeIrreflexive
  <2>2. Ahead(s) \subseteq Ahead(r)
    BY <1>4, BeforeTransitive
  <2>3. <<Ahead(s), Ahead(r)>> \in StrictSubsetOrdering(rows)
    BY <2>1, <2>2 DEF StrictSubsetOrdering
  <2>. QED  BY <2>3, <1>2, <1>3
<1>. QED  BY <1>4

\* A page is the first rows, and the rest lies behind its last row.
LEMMA PageCuts ==
  ASSUME NEW found, Keyed(found), NEW n \in Nat \ {0}, FirstOf(found, n) # found
  PROVE  LET page == FirstOf(found, n)
         IN  /\ LastOf(page) \in page
             /\ \A r \in page : ~Before(LastOf(page).id, r.id)
             /\ \A r \in found \ page : Before(LastOf(page).id, r.id)
<1>. DEFINE page     == FirstOf(found, n)
            Ahead(r) == {s \in found : Before(s.id, r.id)}
            l        == LastOf(page)
<1>1. /\ page \subseteq found
      /\ \A r \in found : r \in page <=> Cardinality(Ahead(r)) < n
  BY DEF FirstOf
<1>2. PICK f \in found : \A s \in found : ~Before(s.id, f.id)
  BY <1>1, FirstExists DEF Keyed
<1>3. Ahead(f) = {}
  BY <1>2
<1>4. Cardinality(Ahead(f)) = 0
  BY <1>3, FS_EmptySet
<1>5. f \in page
  BY <1>1, <1>4
<1>6. IsFiniteSet(page)
  BY <1>1, FS_Subset DEF Keyed
<1>7. l \in page /\ \A s \in page : ~Before(l.id, s.id)
  BY <1>1, <1>5, <1>6, LastExists DEF Keyed
<1>8. ASSUME NEW r \in found \ page PROVE Before(l.id, r.id)
  <2>1. ASSUME Before(r.id, l.id) PROVE FALSE
    <3>1. Ahead(r) \subseteq Ahead(l)
      BY <1>1, <1>7, <2>1, BeforeTransitive DEF Keyed
    <3>2. IsFiniteSet(Ahead(l)) /\ IsFiniteSet(Ahead(r))
      BY FS_Subset DEF Keyed
    <3>3. Cardinality(Ahead(r)) <= Cardinality(Ahead(l))
      BY <3>1, <3>2, FS_Subset
    <3>4. Cardinality(Ahead(l)) < n
      BY <1>1, <1>7
    <3>5. Cardinality(Ahead(r)) \in Nat /\ Cardinality(Ahead(l)) \in Nat
      BY <3>2, FS_CardinalityType
    <3>6. Cardinality(Ahead(r)) < n
      BY <3>3, <3>4, <3>5
    <3>. QED  BY <1>1, <3>6
  <2>2. r.id # l.id
    BY <1>1, <1>7 DEF Keyed
  <2>. QED  BY <1>1, <1>7, <2>1, <2>2, BeforeTotal DEF Keyed
<1>. QED  BY <1>7, <1>8

-----------------------------------------------------------------------------
(* Finitely many rows, each with an identity of its own.                   *)

LEMMA ImageIsFinite ==
  ASSUME NEW S, IsFiniteSet(S), NEW f, f = [x \in S |-> f[x]]
  PROVE  IsFiniteSet({f[x] : x \in S})
<1>1. f \in Surjection(S, {f[x] : x \in S})
  BY Fun_IsSurj
<1>. QED  BY <1>1, FS_Surjection

LEMMA IdsAreFinite ==
  ASSUME NEW rows, IsFiniteSet(rows)
  PROVE  IsFiniteSet(Ids(rows))
<1>. DEFINE f == [r \in rows |-> r.id]
<1>1. f \in Surjection(rows, Ids(rows))
  BY Fun_IsSurj DEF Ids
<1>. QED  BY <1>1, FS_Surjection

LEMMA KeyedCount ==
  ASSUME NEW rows, Keyed(rows)
  PROVE  IsFiniteSet(Ids(rows)) /\ Cardinality(Ids(rows)) = Cardinality(rows)
<1>. DEFINE f == [r \in rows |-> r.id]
<1>1. f \in Surjection(rows, Ids(rows))
  BY Fun_IsSurj DEF Ids
<1>2. f \in Injection(rows, Ids(rows))
  BY Fun_IsInj DEF Keyed, Ids
<1>. HIDE DEF f
<1>. QED  BY <1>1, <1>2, FS_Surjection DEF Keyed

LEMMA NoCursorIsId ==
  /\ IsId(NoCursor)
  /\ \A a : IsId(a) /\ a[1] # 0 => a # NoCursor /\ Before(NoCursor, a)
  /\ \A a : IsId(a) => ~Before(a, NoCursor)
BY DEF IsId, NoCursor, Before

LEMMA RowHasId ==
  ASSUME DbType, NEW r \in Rows
  PROVE  IsId(r.id) /\ r.id[1] # 0 /\ r.id[2] \in Days /\ r.run \in Runs
<1>1. PICK m \in Machines, d \in Days, i \in Nat :
        i \in DOMAIN db[m][d].runs /\ r = Line(m, d, i)
  BY RowIsALine
<1>2. db[m][d].runs \in Seq(Runs)
  BY DEF DbType, Entry
<1>3. db[m][d].runs[i] \in Runs /\ i - 1 \in Nat
  BY <1>1, <1>2
<1>4. db[m][d].runs[i].jobid \in Nat
  BY <1>3, RunsAssumption
<1>5. m \in Nat /\ m # 0 /\ d \in Nat
  BY MachinesAssumption, DaysAssumption
<1>6. r.id = <<m, d, db[m][d].runs[i].jobid, i - 1>> /\ r.run = db[m][d].runs[i]
  BY <1>1 DEF Line
<1>. QED  BY <1>3, <1>4, <1>5, <1>6 DEF IsId

LEMMA RowsAreFinite ==
  ASSUME DbType, NoRowAhead, today \in Nat
  PROVE  IsFiniteSet(Rows)
<1>. DEFINE Past     == {d \in Days : d <= today}
            Lines(m) == [d \in Past |-> {Line(m, d, i) : i \in DOMAIN db[m][d].runs}]
            OfDays   == [m \in Machines |-> UNION {Lines(m)[d] : d \in Past}]
<1>1. IsFiniteSet(Past)
  BY DaysAssumption, FS_BoundedSetOfNaturals
<1>2. ASSUME NEW m \in Machines, NEW d \in Days
      PROVE  IsFiniteSet({Line(m, d, i) : i \in DOMAIN db[m][d].runs})
  <2>. DEFINE f == [i \in DOMAIN db[m][d].runs |-> Line(m, d, i)]
  <2>1. db[m][d].runs \in Seq(Runs)
    BY DEF DbType, Entry
  <2>2. IsFiniteSet(DOMAIN db[m][d].runs)
    BY <2>1, FS_Interval
  <2>3. f = [i \in DOMAIN db[m][d].runs |-> f[i]]
    OBVIOUS
  <2>4. IsFiniteSet({f[i] : i \in DOMAIN db[m][d].runs})
    <3>. HIDE DEF f
    <3>. QED  BY <2>2, <2>3, ImageIsFinite
  <2>. QED  BY <2>4
<1>3. ASSUME NEW m \in Machines PROVE IsFiniteSet(OfDays[m])
  <2>. DEFINE f == Lines(m)
  <2>1. f = [d \in Past |-> f[d]] /\ \A d \in Past : IsFiniteSet(f[d])
    BY <1>2
  <2>2. IsFiniteSet({f[d] : d \in Past})
    <3>. HIDE DEF f
    <3>. QED  BY <1>1, <2>1, ImageIsFinite
  <2>3. IsFiniteSet(UNION {f[d] : d \in Past})
    <3>. HIDE DEF f
    <3>. QED  BY <2>1, <2>2, FS_UNION
  <2>. QED  BY <2>3
<1>4. OfDays = [m \in Machines |-> OfDays[m]]
  OBVIOUS
<1>5. IsFiniteSet(UNION {OfDays[m] : m \in Machines})
  <2>. HIDE DEF OfDays
  <2>1. IsFiniteSet({OfDays[m] : m \in Machines})
    BY <1>4, MachinesAssumption, ImageIsFinite
  <2>. QED  BY <1>3, <2>1, FS_UNION
<1>6. ASSUME NEW r \in Rows PROVE r \in UNION {OfDays[m] : m \in Machines}
  <2>1. PICK m \in Machines, d \in Days, i \in Nat :
          i \in DOMAIN db[m][d].runs /\ r = Line(m, d, i)
    BY RowIsALine
  <2>2. d \in Past
    BY <2>1 DEF NoRowAhead
  <2>3. r \in Lines(m)[d]
    BY <2>1, <2>2
  <2>4. r \in OfDays[m]
    BY <2>2, <2>3
  <2>. QED  BY <2>4
<1>. QED  BY <1>5, <1>6, FS_Subset

LEMMA RowsAreKeyed ==
  ASSUME DbType, NoRowAhead, today \in Nat
  PROVE  Keyed(Rows)
BY RowsAreFinite, RowHasId, OneRowPerId DEF Keyed

\* What one request of the client is answered.
LEMMA PageOfRequest ==
  ASSUME DbType, NoRowAhead, today \in Nat, NEW q, q.limit = PageLimit
  PROVE  LET found == {r \in Rows : Selected(r, q)}
             page  == RunPage(q).rows
             next  == RunPage(q).next
         IN  /\ page \subseteq found /\ Keyed(page) /\ IsId(next)
             /\ next = NoCursor => page = found
             /\ next # NoCursor =>
                  /\ \E l \in page : next = l.id
                  /\ \A r \in page : ~Before(next, r.id)
                  /\ \A r \in found \ page : Before(next, r.id)
<1>. DEFINE found == {r \in Rows : Selected(r, q)}
            n     == ClampLimit(PageLimit)
            page  == FirstOf(found, n)
            next  == RunPage(q).next
<1>1. n \in Nat \ {0}
  BY LimitAssumption DEF ClampLimit
<1>2. Keyed(found)
  BY RowsAreKeyed, FS_Subset DEF Keyed
<1>3. RunPage(q).rows = page /\ next = IF page = found THEN NoCursor ELSE LastOf(page).id
  BY DEF RunPage
<1>4. page \subseteq found
  BY DEF FirstOf
<1>5. Keyed(page)
  BY <1>2, <1>4, FS_Subset DEF Keyed
<1>6. CASE page = found
  BY <1>3, <1>4, <1>5, <1>6, NoCursorIsId
<1>7. CASE page # found
  <2>1. /\ LastOf(page) \in page
        /\ \A r \in page : ~Before(LastOf(page).id, r.id)
        /\ \A r \in found \ page : Before(LastOf(page).id, r.id)
    <3>. HIDE DEF found, n
    <3>. QED  BY <1>1, <1>2, <1>7, PageCuts
  <2>2. IsId(LastOf(page).id) /\ LastOf(page).id # NoCursor
    BY <2>1, <1>4, RowHasId, NoCursorIsId
  <2>. QED  BY <1>3, <1>4, <1>5, <1>7, <2>1, <2>2
<1>. QED  BY <1>6, <1>7

-----------------------------------------------------------------------------
(* The steps: what the client holds.                                       *)

\* A client that has asked for no page yet.
NothingAsked ==
  /\ client.pc \in {"idle", "days"}
  /\ client.got = {} /\ client.page = {} /\ client.served = 0
  /\ client.after = NoCursor /\ client.next = NoCursor

LEMMA NothingInHand ==
  ASSUME NothingAsked
  PROVE  HandsKeyed /\ CursorBetween /\ NoRowTwice
<1>1. HandsKeyed
  BY NoCursorIsId, FS_EmptySet DEF NothingAsked, HandsKeyed, Keyed
<1>2. CursorBetween
  BY DEF NothingAsked, CursorBetween
<1>3. {g.id : g \in client.got} = {}
  BY DEF NothingAsked
<1>4. NoRowTwice
  BY <1>3, FS_EmptySet DEF NothingAsked, NoRowTwice
<1>. QED  BY <1>1, <1>2, <1>4

LEMMA PagesInit == Init => PagesInv
<1>. SUFFICES ASSUME Init PROVE PagesInv
  OBVIOUS
<1>1. NothingAsked
  BY DEF Init, Idle, NothingAsked
<1>2. Counted
  BY DEF Init, Idle, Empty, Counted
<1>3. NoRowAhead
  BY DEF Init, NoDay, NoRowAhead
<1>. QED  BY <1>1, <1>2, <1>3, NothingInHand DEF PagesInv

LEMMA PagesGiveUp ==
  ASSUME PagesInv, client' = Idle, UNCHANGED <<db, today>>,
         redos' \in Nat, failures' \in Nat, redone' \in {redone, {}}
  PROVE  PagesInv'
<1>1. NothingAsked'
  BY DEF Idle, NothingAsked
<1>2. HandsKeyed' /\ CursorBetween' /\ NoRowTwice'
  BY <1>1, NothingInHand, PTL
<1>3. Counted' /\ NoRowAhead'
  BY DEF PagesInv, Counted, NoRowAhead, Idle, Empty
<1>. QED  BY <1>2, <1>3 DEF PagesInv

\* The steps of the tables and of the calendar.
Imported == \E m \in Machines, d \in Days, kind \in {"ACL", "CSV"} :
              Import(m, d, kind) \/ ImportOverFinal(m, d, kind)

TablesStep == Imported \/ Rebuild \/ NextDay \/ UNCHANGED vars

LEMMA PagesElsewhere ==
  ASSUME ExportInv, PagesInv, TablesStep
  PROVE  PagesInv'
<1>1. today \in Nat /\ redos \in Nat /\ failures \in Nat /\ redone \subseteq Machines \X Days
  BY DEF PagesInv, Counted
<1>2. /\ today' \in Nat /\ today' >= today /\ redos' \in Nat /\ failures' = failures
      /\ redone' \subseteq Machines \X Days /\ UNCHANGED client
  BY <1>1 DEF TablesStep, Imported, Import, ImportOverFinal, Redo, Rebuild, NextDay, vars
<1>3. Counted' /\ HandsKeyed' /\ CursorBetween' /\ NoRowTwice'
  BY <1>1, <1>2 DEF PagesInv, Counted, HandsKeyed, CursorBetween, NoRowTwice
<1>4. NoRowAhead'
  <2>1. CASE Imported
    <3>1. PICK m \in Machines, d \in Days, kind \in {"ACL", "CSV"} :
            Import(m, d, kind) \/ ImportOverFinal(m, d, kind)
      BY <2>1 DEF Imported
    <3>2. ImportDate(m, d, kind) /\ d <= today /\ today' = today
      BY <3>1 DEF Import, ImportOverFinal, ImportDate, Redo
    <3>3. ASSUME NEW n \in Machines, NEW e \in Days, n # m \/ e # d
          PROVE  db'[n][e] = db[n][e]
      BY <3>2, <3>3 DEF ImportDate, ExportInv, DbType
    <3>. QED  BY <3>2, <3>3 DEF PagesInv, NoRowAhead
  <2>2. CASE Rebuild
    BY <2>2 DEF Rebuild, NoDay, NoRowAhead
  <2>3. CASE NextDay \/ UNCHANGED vars
    <3>1. db' = db
      BY <2>3 DEF NextDay, vars
    <3>2. \A d \in Days : d <= today => d <= today'
      BY <1>1, <1>2, DaysAssumption
    <3>. QED  BY <3>1, <3>2 DEF PagesInv, NoRowAhead
  <2>. QED  BY <2>1, <2>2, <2>3 DEF TablesStep
<1>. QED  BY <1>3, <1>4 DEF PagesInv

\* The rows of the page are new to the client, and counted one by one.
LEMMA PageIsNew ==
  ASSUME ExportInv, PagesInv, QueryMedia
  PROVE  /\ {g.id : g \in client'.got} = {g.id : g \in client.got} \cup Ids(client.page)
         /\ {g.id : g \in client.got} \cap Ids(client.page) = {}
         /\ IsFiniteSet(client'.got)
<1>. DEFINE f == [r \in client.page |->
                    [id |-> r.id, run |-> r.run, final |-> r.final, media |-> MediaOf(r.id)]]
<1>1. client.pc = "media" /\ client'.got = client.got \cup AttachMedia(client.page)
  BY DEF QueryMedia, ExportInv, ClientType, Locals
<1>2. {g.id : g \in AttachMedia(client.page)} = Ids(client.page)
  <2>1. ASSUME NEW r \in client.page PROVE \E g \in AttachMedia(client.page) : g.id = r.id
    <3>1. f[r] \in AttachMedia(client.page)
      BY DEF AttachMedia
    <3>. QED  BY <3>1
  <2>2. ASSUME NEW g \in AttachMedia(client.page) PROVE g.id \in Ids(client.page)
    BY DEF AttachMedia, Ids
  <2>. QED  BY <2>1, <2>2 DEF Ids
<1>3. IsFiniteSet({f[r] : r \in client.page})
  <2>1. f = [r \in client.page |-> f[r]]
    OBVIOUS
  <2>. HIDE DEF f
  <2>. QED  BY <2>1, ImageIsFinite DEF PagesInv, HandsKeyed, Keyed
<1>4. {f[r] : r \in client.page} = AttachMedia(client.page)
  BY DEF AttachMedia
<1>5. IsFiniteSet(client'.got)
  <2>1. IsFiniteSet(client.got) /\ IsFiniteSet(AttachMedia(client.page))
    BY <1>3, <1>4 DEF PagesInv, HandsKeyed
  <2>. QED  BY <1>1, <2>1, FS_Union
<1>6. \A g \in client.got, r \in client.page : g.id # r.id
  BY <1>1 DEF PagesInv, CursorBetween
<1>. QED  BY <1>1, <1>2, <1>5, <1>6 DEF Ids

LEMMA PagesMedia ==
  ASSUME ExportInv, PagesInv, QueryMedia
  PROVE  PagesInv'
<1>1. /\ client.pc = "media"
      /\ client'.pc = IF client.next = NoCursor THEN "insert" ELSE "runs"
      /\ client'.after = client.next /\ client'.next = client.next
      /\ client'.served = client.served + Cardinality(client.page)
      /\ client'.page = {}
      /\ \A l \in {"from", "to", "days"} : client'[l] = client[l]
      /\ UNCHANGED <<db, today, redone, redos, failures>>
  BY DEF QueryMedia, ExportInv, ClientType, Locals
<1>2. Counted' /\ NoRowAhead'
  BY <1>1 DEF PagesInv, Counted, NoRowAhead
<1>3. ASSUME NEW g \in client'.got
      PROVE  IsId(g.id) /\ (client.next # NoCursor => ~Before(client.next, g.id))
  <2>1. g.id \in {h.id : h \in client.got} \/ g.id \in Ids(client.page)
    BY PageIsNew
  <2>2. CASE g.id \in {h.id : h \in client.got}
    <3>1. PICK h \in client.got : h.id = g.id
      BY <2>2
    <3>2. IsId(h.id) /\ ~Before(client.after, h.id)
      BY <1>1 DEF PagesInv, HandsKeyed, CursorBetween
    <3>3. client.next # NoCursor => Before(client.after, client.next)
      BY <1>1 DEF PagesInv, CursorBetween
    <3>4. IsId(client.after) /\ IsId(client.next)
      BY DEF PagesInv, HandsKeyed
    <3>. QED  BY <3>1, <3>2, <3>3, <3>4, BeforeTransitive
  <2>3. CASE g.id \in Ids(client.page)
    BY <1>1, <2>3 DEF Ids, PagesInv, HandsKeyed, Keyed, CursorBetween
  <2>. QED  BY <2>1, <2>2, <2>3
<1>4. HandsKeyed'
  BY <1>1, <1>3, PageIsNew, FS_EmptySet DEF PagesInv, HandsKeyed, Keyed
<1>5. CursorBetween'
  BY <1>1, <1>3 DEF CursorBetween
<1>6. NoRowTwice'
  <2>. DEFINE old == {g.id : g \in client.got}
              new == Ids(client.page)
  <2>1. /\ IsFiniteSet(new) /\ Cardinality(new) = Cardinality(client.page)
    BY KeyedCount DEF PagesInv, HandsKeyed
  <2>2. IsFiniteSet(old)
    BY IdsAreFinite DEF PagesInv, HandsKeyed, Ids
  <2>3. old \cap new = {} /\ {g.id : g \in client'.got} = old \cup new
    BY PageIsNew
  <2>4. Cardinality(old \cap new) = 0
    BY <2>3, FS_EmptySet
  <2>5. Cardinality(old \cup new) = Cardinality(old) + Cardinality(new) - Cardinality(old \cap new)
    <3>. HIDE DEF old, new
    <3>. QED  BY <2>1, <2>2, FS_Union
  <2>6. Cardinality(old) \in Nat /\ Cardinality(new) \in Nat
    <3>. HIDE DEF old, new
    <3>. QED  BY <2>1, <2>2, FS_CardinalityType
  <2>7. client.served = Cardinality(old)
    BY DEF PagesInv, NoRowTwice
  <2>8. client'.served = Cardinality(old \cup new)
    <3>. HIDE DEF old, new
    <3>. QED  BY <1>1, <2>1, <2>4, <2>5, <2>6, <2>7
  <2>. QED  BY <2>3, <2>8 DEF NoRowTwice
<1>. QED  BY <1>2, <1>4, <1>5, <1>6 DEF PagesInv

LEMMA PagesClient ==
  ASSUME ExportInv, PagesInv, ClientStep
  PROVE  PagesInv'
<1>0. ClientType /\ DbType /\ today \in Nat
  BY DEF ExportInv, PagesInv, Counted
<1>1. CASE Start
  <2>1. client' = [Idle EXCEPT !.pc = "days", !.to = today,
                               !.from = IF today > Lookback THEN today - Lookback ELSE 1]
        /\ UNCHANGED <<db, today, redone, redos, failures>>
    BY <1>1 DEF Start
  <2>2. /\ client'.pc = "days" /\ client'.to = today /\ client'.days = {}
        /\ client'.from = IF today > Lookback THEN today - Lookback ELSE 1
    BY <2>1 DEF Idle
  <2>3. NothingAsked'
    BY <2>1 DEF Idle, NothingAsked
  <2>4. HandsKeyed' /\ CursorBetween' /\ NoRowTwice'
    BY <2>3, NothingInHand, PTL
  <2>5. client'.from \in Nat
    BY <1>0, <2>2, LookbackAssumption
  <2>6. Counted' /\ NoRowAhead'
    BY <2>1, <2>2, <2>5 DEF PagesInv, Counted, NoRowAhead
  <2>. QED  BY <2>4, <2>6 DEF PagesInv
<1>2. CASE ListDays
  <2>1. UNCHANGED <<db, today, redos, failures>> /\ redone' = {} /\ client.pc = "days"
    BY <1>2 DEF ListDays
  <2>2. CASE FinalDays(client.from, client.to) = {}
    <3>1. client' = Idle
      BY <1>2, <2>2 DEF ListDays
    <3>. QED  BY <2>1, <3>1, PagesGiveUp DEF PagesInv, Counted
  <2>3. CASE FinalDays(client.from, client.to) # {}
    <3>1. client' = [client EXCEPT !.pc = "runs", !.days = FinalDays(client.from, client.to)]
      BY <1>2, <2>3 DEF ListDays
    <3>2. /\ client'.pc = "runs" /\ client'.days = FinalDays(client.from, client.to)
          /\ \A l \in Locals \ {"pc", "days"} : client'[l] = client[l]
      BY <1>0, <3>1 DEF ClientType, Locals
    <3>3. Counted' /\ NoRowAhead'
      BY <2>1, <3>2 DEF PagesInv, Counted, NoRowAhead, FinalDays, Locals
    <3>4. HandsKeyed' /\ NoRowTwice'
      BY <3>2 DEF PagesInv, HandsKeyed, NoRowTwice, Locals
    <3>5. CursorBetween'
      BY <2>1, <3>2 DEF PagesInv, CursorBetween, Locals
    <3>. QED  BY <3>3, <3>4, <3>5 DEF PagesInv
  <2>. QED  BY <2>2, <2>3
<1>3. CASE QueryRuns
  <2>. DEFINE q == Query(client)
  <2>1. UNCHANGED <<db, today, redone, redos, failures>> /\ client.pc = "runs"
    BY <1>3 DEF QueryRuns
  <2>2. /\ client'.pc = "media" /\ client'.page = RunPage(q).rows /\ client'.next = RunPage(q).next
        /\ \A l \in Locals \ {"pc", "page", "next"} : client'[l] = client[l]
    BY <1>0, <1>3 DEF QueryRuns, ClientType, Locals
  <2>3. q.limit = PageLimit /\ q.after = client.after
    BY DEF Query
  <2>4. /\ Keyed(client'.page) /\ IsId(client'.next)
        /\ \A r \in client'.page : Selected(r, q)
        /\ client'.next # NoCursor =>
             /\ \E l \in client'.page : client'.next = l.id
             /\ \A r \in client'.page : ~Before(client'.next, r.id)
    <3>. HIDE DEF q
    <3>. QED  BY <1>0, <2>2, <2>3, PageOfRequest DEF PagesInv
  <2>5. \A r \in client'.page : Before(client.after, r.id)
    BY <2>3, <2>4 DEF Selected
  <2>6. Counted' /\ NoRowAhead'
    BY <2>1, <2>2 DEF PagesInv, Counted, NoRowAhead, Locals
  <2>7. HandsKeyed' /\ NoRowTwice'
    BY <2>2, <2>4 DEF PagesInv, HandsKeyed, NoRowTwice, Locals
  <2>8. CursorBetween'
    BY <2>1, <2>2, <2>4, <2>5 DEF PagesInv, CursorBetween, Locals
  <2>. QED  BY <2>6, <2>7, <2>8 DEF PagesInv
<1>4. CASE QueryMedia
  BY <1>4, PagesMedia
<1>5. CASE InsertNext
  <2>1. UNCHANGED <<db, today, redone, redos, failures>> /\ client.pc = "insert"
    BY <1>5 DEF InsertNext
  <2>2. CASE client.todo = {}
    <3>1. client' = Idle
      BY <1>5, <2>2 DEF InsertNext
    <3>. QED  BY <2>1, <3>1, PagesGiveUp DEF PagesInv, Counted
  <2>3. CASE client.todo # {}
    <3>1. PICK r \in client.todo : client' = [client EXCEPT !.todo = client.todo \ {r}]
      BY <1>5, <2>3 DEF InsertNext
    <3>2. \A l \in Locals \ {"todo"} : client'[l] = client[l]
      BY <1>0, <3>1 DEF ClientType, Locals
    <3>3. Counted' /\ NoRowAhead'
      BY <2>1, <3>2 DEF PagesInv, Counted, NoRowAhead, Locals
    <3>4. HandsKeyed' /\ NoRowTwice'
      BY <3>2 DEF PagesInv, HandsKeyed, NoRowTwice, Locals
    <3>5. CursorBetween'
      BY <2>1, <3>2 DEF PagesInv, CursorBetween, Locals
    <3>. QED  BY <3>3, <3>4, <3>5 DEF PagesInv
  <2>. QED  BY <2>2, <2>3
<1>. QED  BY <1>1, <1>2, <1>3, <1>4, <1>5 DEF ClientStep

LEMMA PagesNext == ExportInv /\ PagesInv /\ [Next]_vars => PagesInv'
<1>. SUFFICES ASSUME ExportInv, PagesInv, [Next]_vars PROVE PagesInv'
  OBVIOUS
<1>1. CASE TablesStep
  BY <1>1, PagesElsewhere
<1>2. CASE ClientStep
  BY <1>2, PagesClient
<1>3. CASE GiveUp
  <2>1. client' = Idle /\ UNCHANGED <<db, today, redone, redos>> /\ redos \in Nat /\ failures' \in Nat
    BY <1>3 DEF GiveUp, PagesInv, Counted
  <2>. QED  BY <2>1, PagesGiveUp
<1>. QED  BY <1>1, <1>2, <1>3 DEF Next, TablesStep, Imported

LEMMA PagesInvariant == Spec => []PagesInv
BY PagesInit, PagesNext, ExportInvariant, PTL DEF Spec

-----------------------------------------------------------------------------
(* The steps: what the client has still to fetch.                          *)

\* What a request asks for, apart from the cursor, depends on the window alone.
InWindowOf(r, from, to) ==
  /\ FieldDate(r, "completed_date") >= from
  /\ to = Empty \/ FieldDate(r, "completed_date") <= to
  /\ r.run.jobtype = "IP" /\ r.final

WantedByWindow == Wanted = {r \in Rows : InWindowOf(r, client.from, client.to)}

LEMMA WantedRows ==
  ASSUME DbType
  PROVE  WantedByWindow
<1>1. \A r \in Rows : Before(NoCursor, r.id)
  BY RowHasId, NoCursorIsId
<1>. QED  BY <1>1 DEF Wanted, Selected, Query, InWindowOf, NoMachine, WantedByWindow

LEMMA AskedRows ==
  ASSUME NEW r
  PROVE  Selected(r, Query(client)) <=>
           InWindowOf(r, client.from, client.to) /\ Before(client.after, r.id)
BY DEF Selected, Query, InWindowOf, NoMachine

LEMMA WantedNext ==
  ASSUME DbType', client'.from = client.from, client'.to = client.to, NEW r \in Wanted'
  PROVE  r \in Rows' /\ InWindowOf(r, client.from, client.to)
<1>1. WantedByWindow'
  BY WantedRows, PTL
<1>. QED  BY <1>1 DEF WantedByWindow, InWindowOf, FieldDate

\* An import adds nothing to another day.
LEMMA NoNewRowOfAnotherDay ==
  ASSUME DbType, NEW m \in Machines, NEW d \in Days, NEW kind, ImportDate(m, d, kind),
         NEW r \in Rows', DayOf(r) # <<m, d>>
  PROVE  r \in Rows
<1>1. PICK n \in Machines, e \in Days : \E i \in DOMAIN db'[n][e].runs : r = Line(n, e, i)'
  BY DEF Rows, Line
<1>2. PICK i \in DOMAIN db'[n][e].runs : r = Line(n, e, i)'
  BY <1>1
<1>3. n # m \/ e # d
  BY <1>2 DEF Line, DayOf
<1>4. db'[n][e] = db[n][e]
  BY <1>3 DEF ImportDate, DbType
<1>5. r = Line(n, e, i) /\ i \in DOMAIN db[n][e].runs
  BY <1>2, <1>4 DEF Line
<1>. QED  BY <1>5, LineIsARow

\* The days of the list that stand are not the one that is imported.
LEMMA FetchImport ==
  ASSUME ExportInv, ExportInv', PagesInv, FetchInv,
         NEW m \in Machines, NEW d \in Days, NEW kind, ImportDate(m, d, kind),
         db[m][d].kind = "CSV" => <<m, d>> \in redone', redone \subseteq redone',
         UNCHANGED client
  PROVE  FetchInv'
<1>0. DbType /\ DbType' /\ client.days \subseteq Machines \X Days
  BY DEF ExportInv, PagesInv, Counted
<1>1. ASSUME NEW p \in client.days \ redone' PROVE p # <<m, d>> /\ db[p[1]][p[2]].kind = "CSV"
  BY <1>1 DEF FetchInv, ListStands
<1>2. ListStands'
  <2>. SUFFICES ASSUME NEW p \in client.days \ redone' PROVE db'[p[1]][p[2]].kind = "CSV"
    BY DEF ListStands
  <2>1. p[1] \in Machines /\ p[2] \in Days /\ p = <<p[1], p[2]>>
    BY <1>0
  <2>2. p[1] # m \/ p[2] # d
    BY <1>1, <2>1
  <2>. QED  BY <1>0, <1>1, <2>1, <2>2 DEF ImportDate, DbType
<1>3. ASSUME NEW r \in Wanted', Listed(r)' PROVE r \in Wanted /\ Listed(r)
  <2>1. r \in Rows' /\ InWindowOf(r, client.from, client.to)
    BY <1>0, WantedNext
  <2>2. DayOf(r) \in client.days \ redone'
    BY <1>3 DEF Listed, DayOf
  <2>3. r \in Rows
    BY <1>0, <1>1, <2>1, <2>2, NoNewRowOfAnotherDay
  <2>4. r \in Wanted
    BY <1>0, <2>1, <2>3, WantedRows DEF WantedByWindow
  <2>. QED  BY <2>2, <2>4 DEF Listed
<1>4. RestIsAhead'
  BY <1>3 DEF FetchInv, RestIsAhead, Fetched
<1>. QED  BY <1>2, <1>4 DEF FetchInv

LEMMA FetchElsewhere ==
  ASSUME ExportInv, ExportInv', PagesInv, FetchInv, TablesStep
  PROVE  FetchInv'
<1>1. CASE Imported
  <2>1. PICK m \in Machines, d \in Days, kind \in {"ACL", "CSV"} :
          Import(m, d, kind) \/ ImportOverFinal(m, d, kind)
    BY <1>1 DEF Imported
  <2>. QED  BY <2>1, FetchImport DEF Import, ImportOverFinal, Redo
<1>2. CASE Rebuild
  <2>1. client.days \subseteq redone' /\ UNCHANGED client
    BY <1>2 DEF Rebuild, Redo, PagesInv, Counted
  <2>. QED  BY <2>1 DEF FetchInv, ListStands, RestIsAhead, Listed
<1>3. CASE NextDay \/ UNCHANGED vars
  <2>1. UNCHANGED <<db, client, redone>>
    BY <1>3 DEF NextDay, vars
  <2>2. Wanted' = Wanted
    BY <2>1 DEF Rows, Wanted, Selected, Query, FieldDate
  <2>. QED  BY <2>1, <2>2 DEF FetchInv, ListStands, RestIsAhead, Listed, DayOf, Fetched
<1>. QED  BY <1>1, <1>2, <1>3 DEF TablesStep

LEMMA FetchGiveUp ==
  ASSUME client' = Idle
  PROVE  FetchInv'
BY DEF Idle, FetchInv, ListStands, RestIsAhead, Listed

LEMMA FetchClient ==
  ASSUME ExportInv, ExportInv', PagesInv, FetchInv, ClientStep
  PROVE  FetchInv'
<1>0. ClientType /\ DbType /\ DbType' /\ today \in Nat
  BY DEF ExportInv, PagesInv, Counted
<1>1. CASE Start
  <2>1. client'.days = {}
    BY <1>1 DEF Start, Idle
  <2>. QED  BY <2>1 DEF FetchInv, ListStands, RestIsAhead, Listed
<1>2. CASE ListDays
  <2>1. UNCHANGED db /\ client.pc = "days"
    BY <1>2 DEF ListDays
  <2>2. CASE FinalDays(client.from, client.to) = {}
    BY <1>2, <2>2, FetchGiveUp DEF ListDays
  <2>3. CASE FinalDays(client.from, client.to) # {}
    <3>1. client' = [client EXCEPT !.pc = "runs", !.days = FinalDays(client.from, client.to)]
      BY <1>2, <2>3 DEF ListDays
    <3>2. /\ client'.pc = "runs" /\ client'.days = FinalDays(client.from, client.to)
          /\ \A l \in Locals \ {"pc", "days"} : client'[l] = client[l]
      BY <1>0, <3>1 DEF ClientType, Locals
    <3>3. ListStands'
      BY <2>1, <3>2 DEF ListStands, FinalDays
    <3>4. client'.after = NoCursor
      BY <2>1, <3>2 DEF PagesInv, CursorBetween, Locals
    <3>5. \A r \in Wanted' : Before(NoCursor, r.id)
      <4>1. \A r \in Wanted' : r \in Rows
        BY <2>1 DEF Wanted, Rows
      <4>. QED  BY <1>0, <4>1, RowHasId, NoCursorIsId
    <3>6. RestIsAhead'
      BY <3>2, <3>4, <3>5 DEF RestIsAhead
    <3>. QED  BY <3>3, <3>6 DEF FetchInv
  <2>. QED  BY <2>2, <2>3
<1>3. CASE QueryRuns
  <2>. DEFINE q == Query(client)
  <2>1. UNCHANGED <<db, redone>> /\ client.pc = "runs"
    BY <1>3 DEF QueryRuns
  <2>2. /\ client'.pc = "media" /\ client'.page = RunPage(q).rows /\ client'.next = RunPage(q).next
        /\ \A l \in Locals \ {"pc", "page", "next"} : client'[l] = client[l]
    BY <1>0, <1>3 DEF QueryRuns, ClientType, Locals
  <2>3. \A r \in Rows : Selected(r, q) =>
          r \in client'.page \/ (client'.next # NoCursor /\ Before(client'.next, r.id))
    <3>. SUFFICES ASSUME NEW r \in Rows, Selected(r, q), r \notin client'.page
                  PROVE  client'.next # NoCursor /\ Before(client'.next, r.id)
      OBVIOUS
    <3>1. q.limit = PageLimit /\ r \in {s \in Rows : Selected(s, q)}
      BY DEF Query
    <3>. HIDE DEF q
    <3>2. NoRowAhead
      BY DEF PagesInv
    <3>3. client'.page # {s \in Rows : Selected(s, q)}
      BY <3>1
    <3>4. /\ client'.next = NoCursor => client'.page = {s \in Rows : Selected(s, q)}
          /\ client'.next # NoCursor =>
               \A s \in {t \in Rows : Selected(t, q)} \ client'.page : Before(client'.next, s.id)
      BY <1>0, <2>2, <3>1, <3>2, PageOfRequest
    <3>. QED  BY <3>1, <3>3, <3>4
  <2>4. ListStands'
    BY <2>1, <2>2 DEF FetchInv, ListStands, Locals
  <2>5. RestIsAhead'
    <3>. SUFFICES ASSUME NEW r \in Wanted', Listed(r)
                  PROVE  \/ Fetched(r) \/ r \in client'.page
                         \/ client'.next # NoCursor /\ Before(client'.next, r.id)
      BY <2>1, <2>2 DEF RestIsAhead, Listed, DayOf, Fetched, Locals
    <3>1. r \in Rows /\ InWindowOf(r, client.from, client.to)
      <4>1. Rows' = Rows
        BY <2>1 DEF Rows
      <4>. QED  BY <1>0, <2>2, <4>1, WantedNext DEF Locals
    <3>2. r \in Wanted
      BY <1>0, <3>1, WantedRows DEF WantedByWindow
    <3>3. Fetched(r) \/ Before(client.after, r.id)
      BY <2>1, <3>2 DEF FetchInv, RestIsAhead
    <3>4. CASE Before(client.after, r.id)
      BY <2>3, <3>1, <3>4, AskedRows
    <3>. QED  BY <3>3, <3>4
  <2>. QED  BY <2>4, <2>5 DEF FetchInv
<1>4. CASE QueryMedia
  <2>1. /\ client.pc = "media" /\ UNCHANGED <<db, redone>>
        /\ client'.pc = IF client.next = NoCursor THEN "insert" ELSE "runs"
        /\ client'.after = client.next
        /\ client'.got = client.got \cup AttachMedia(client.page)
        /\ \A l \in {"from", "to", "days"} : client'[l] = client[l]
    BY <1>0, <1>4 DEF QueryMedia, ClientType, Locals
  <2>2. ListStands'
    BY <2>1 DEF FetchInv, ListStands
  <2>3. ASSUME NEW r, Fetched(r) \/ r \in client.page PROVE Fetched(r)'
    <3>1. CASE Fetched(r)
      BY <2>1, <3>1 DEF Fetched
    <3>2. CASE r \in client.page
      <4>. DEFINE g == [id |-> r.id, run |-> r.run, final |-> r.final, media |-> MediaOf(r.id)]
      <4>1. g \in AttachMedia(client.page) /\ g.id = r.id /\ g.run = r.run
        BY <3>2 DEF AttachMedia
      <4>2. g \in client'.got
        BY <2>1, <4>1
      <4>. HIDE DEF g
      <4>. QED  BY <4>1, <4>2 DEF Fetched
    <3>. QED  BY <2>3, <3>1, <3>2
  <2>4. RestIsAhead'
    <3>. SUFFICES ASSUME NEW r \in Wanted', Listed(r)
                  PROVE  \/ Fetched(r)'
                         \/ client.next # NoCursor /\ Before(client.next, r.id)
      BY <2>1 DEF RestIsAhead, Listed, DayOf
    <3>1. r \in Wanted
      <4>1. Rows' = Rows
        BY <2>1 DEF Rows
      <4>. QED  BY <1>0, <2>1, <4>1, WantedNext, WantedRows DEF WantedByWindow
    <3>2. \/ Fetched(r) \/ r \in client.page
          \/ client.next # NoCursor /\ Before(client.next, r.id)
      BY <2>1, <3>1 DEF FetchInv, RestIsAhead
    <3>. QED  BY <2>3, <3>2
  <2>. QED  BY <2>2, <2>4 DEF FetchInv
<1>5. CASE InsertNext
  <2>1. UNCHANGED <<db, redone>> /\ client.pc = "insert"
    BY <1>5 DEF InsertNext
  <2>2. CASE client.todo = {}
    BY <1>5, <2>2, FetchGiveUp DEF InsertNext
  <2>3. CASE client.todo # {}
    <3>1. PICK r \in client.todo : client' = [client EXCEPT !.todo = client.todo \ {r}]
      BY <1>5, <2>3 DEF InsertNext
    <3>2. \A l \in Locals \ {"todo"} : client'[l] = client[l]
      BY <1>0, <3>1 DEF ClientType, Locals
    <3>3. ListStands'
      BY <2>1, <3>2 DEF FetchInv, ListStands, Locals
    <3>4. \A s \in Wanted' : s \in Wanted
      <4>1. Rows' = Rows
        BY <2>1 DEF Rows
      <4>. QED  BY <1>0, <3>2, <4>1, WantedNext, WantedRows DEF WantedByWindow, Locals
    <3>5. RestIsAhead'
      BY <2>1, <3>2, <3>4 DEF FetchInv, RestIsAhead, Listed, DayOf, Fetched, Locals
    <3>. QED  BY <3>3, <3>5 DEF FetchInv
  <2>. QED  BY <2>2, <2>3
<1>. QED  BY <1>1, <1>2, <1>3, <1>4, <1>5 DEF ClientStep

LEMMA FetchNext ==
  ExportInv /\ ExportInv' /\ PagesInv /\ FetchInv /\ [Next]_vars => FetchInv'
<1>. SUFFICES ASSUME ExportInv, ExportInv', PagesInv, FetchInv, [Next]_vars PROVE FetchInv'
  OBVIOUS
<1>1. CASE TablesStep
  BY <1>1, FetchElsewhere
<1>2. CASE ClientStep
  BY <1>2, FetchClient
<1>3. CASE GiveUp
  BY <1>3, FetchGiveUp DEF GiveUp
<1>. QED  BY <1>1, <1>2, <1>3 DEF Next, TablesStep, Imported

LEMMA FetchInvariant == Spec => []FetchInv
<1>1. Init => FetchInv
  BY DEF Init, Idle, FetchInv, ListStands, RestIsAhead, Listed
<1>. QED  BY <1>1, FetchNext, ExportInvariant, PagesInvariant, PTL DEF Spec

-----------------------------------------------------------------------------
(* The theorems.                                                           *)

\* No row is served twice within a run of the client, whatever is imported or
\* rebuilt between two pages (run_page: the keyset cursor).
THEOREM PagesNeverRepeat == Spec => []NoRowTwice
<1>1. PagesInv => NoRowTwice
  BY DEF PagesInv
<1>. QED  BY <1>1, PagesInvariant, PTL

\* A stamp is an instant or none, however odd its texts.
LEMMA StampIsInt ==
  ASSUME NEW d \in Dates, NEW t \in Fields
  PROVE  ParseStamp(d, t) \in Int \cup {NoTime}
<1>1. Day(d, "py") \in Int \cup {NoTime}
  <2>1. CASE d \in DOMAIN OddDates
    BY <2>1, OddAssumption DEF Day, Readings
  <2>2. CASE d \notin DOMAIN OddDates
    BY <2>2 DEF Day, Dates
  <2>. QED  BY <2>1, <2>2
<1>2. Time(t, "py") \in Int \cup {NoTime}
  <2>1. CASE t \in DOMAIN OddClocks
    BY <2>1, OddAssumption DEF Time, Readings
  <2>2. CASE t \notin DOMAIN OddClocks
    BY <2>2, LastClockAssumption DEF Time, Fields
  <2>. QED  BY <2>1, <2>2
<1>3. PICK day, time : day = Day(d, "py") /\ time = Time(t, "py")
  OBVIOUS
<1>4. day \in Int /\ time \in Int => Instant(day, time) \in Int
  BY LastClockAssumption DEF Instant
<1>. QED  BY <1>1, <1>2, <1>3, <1>4 DEF ParseStamp, ReadBy

LEMMA RuntimeOfARun ==
  ASSUME NEW r \in Runs
  PROVE  CompletedDate(r) \in Nat /\ DurationS(r) \in Nat \cup {NoTime}
<1>1. /\ r.startdate \in Nat /\ CompletedDate(r) \in Nat
      /\ r.starttime \in Fields /\ r.readytime \in Fields
  BY RunsAssumption DEF CompletedDate
<1>2. PICK a, b : /\ a = ParseStamp(r.startdate, r.starttime)
                  /\ b = ParseStamp(CompletedDate(r), r.readytime)
  OBVIOUS
<1>3. a \in Int \cup {NoTime} /\ b \in Int \cup {NoTime}
  BY <1>1, <1>2, StampIsInt DEF Dates
<1>4. DurationS(r) = IF a = NoTime \/ b = NoTime THEN NoTime
                     ELSE IF b < a THEN NoTime ELSE b - a
  BY <1>2 DEF DurationS
<1>5. ASSUME a \in Int, b \in Int, ~ b < a PROVE b - a \in Nat
  BY <1>5
<1>. QED  BY <1>1, <1>3, <1>4, <1>5

\* In every state the tables, the client and the target are typed, and no record
\* says a negative runtime (duration_s).
THEOREM ExportTypes == Spec => []TypeOK
<1>1. ExportInv /\ PagesInv => TypeOK
  <2>. SUFFICES ASSUME ExportInv, PagesInv PROVE TypeOK
    OBVIOUS
  <2>1. \A m \in Machines, d \in Days :
          db[m][d].kind \in {"none", "ACL", "CSV"} /\ db[m][d].runs \in Seq(Runs)
    BY DEF ExportInv, DbType, Entry
  <2>2. client.served \in Nat
    <3>1. IsFiniteSet(Ids(client.got))
      BY IdsAreFinite DEF PagesInv, HandsKeyed
    <3>. QED  BY <3>1, FS_CardinalityType DEF PagesInv, NoRowTwice, Ids
  <2>3. {client.from, client.to, client.served, today, redos, failures} \subseteq Nat
    BY <2>2 DEF PagesInv, Counted
  <2>4. ASSUME NEW rec \in target
        PROVE  rec.date \in Nat /\ rec.runtime \in Nat \cup {NoTime}
    <3>1. PICK c \in ClosedRows : rec = ToRecord(c)
      BY DEF ExportInv, RecordsTrue
    <3>2. PICK m \in Machines, d \in Days, i \in Nat :
            i \in DOMAIN Closed[m][d] /\ c = ClosedLine(m, d, i)
      BY ClosedRowIsALine
    <3>3. Closed[m][d] \in Seq(Runs)
      BY LogsAssumption
    <3>4. c.run \in Runs
      BY <3>2, <3>3 DEF ClosedLine
    <3>. QED  BY <3>1, <3>4, RuntimeOfARun DEF ToRecord
  <2>. QED  BY <2>1, <2>3, <2>4 DEF PagesInv, Counted, TypeOK
<1>. QED  BY <1>1, ExportInvariant, PagesInvariant, PTL

\* When the last page is read, every row of a day that was listed as final has
\* been fetched, unless that day was imported again or dropped meanwhile, however
\* many imports are committed between two pages and whatever they add behind the
\* cursor (run_page, export_client.py).
THEOREM PagesMissNothing == Spec => []FetchComplete
<1>1. FetchInv => FetchComplete
  BY DEF FetchInv, RestIsAhead, FetchComplete, Listed, DayOf, Fetched
<1>. QED  BY <1>1, FetchInvariant, PTL
=============================================================================
