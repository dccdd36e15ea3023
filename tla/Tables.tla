------------------------------- MODULE Tables -------------------------------
(***************************************************************************)
(* The rows behind the day of Sync.tla: pressledger/parser.py reads a log  *)
(* file of a press, _import_date of sync.py replaces the day's rows in the *)
(* tables jobs and job_media.                                              *)
(*                                                                         *)
(* A record of the log maps columns to cells.  Text is a string, a date or *)
(* a clock field its rank (Stamps.tla), a counter an integer, Blank or     *)
(* Garbled.  Of the six click columns two are kept, of the eleven media    *)
(* fields of a slot four, of the finishing columns none.                   *)
(***************************************************************************)
EXTENDS Stamps, SequencesExt

CONSTANTS Machines, Days,   \* presses with data, log days
          Slots,            \* media slots of a record, 1 .. 16
          Logs,             \* Logs[m][d]: the candidates for what a press writes on a day
          Layouts,          \* candidates for the headers of a press, see log and layout
          Blank, Garbled    \* an empty counter cell, and one that is no number

ASSUME PressesAssumption == IsFiniteSet(Machines) /\ IsFiniteSet(Days)
ASSUME BlankAssumption   == {Blank, Garbled} \cap Int = {}

\* A header names at least one column, and may come to differ within a day.
ASSUME LayoutsAssumption ==
  \A l \in Layouts : l \in Seq(Seq(STRING)) /\ l # <<>> /\ \A i \in DOMAIN l : l[i] # <<>>

VARIABLES log,      \* log[m][d]: the records of the closed day
          layout,   \* layout[m]: the header its i-th record of a day stands under
          jobs,     \* rows of the table jobs
          media,    \* rows of the table job_media
          syncLog   \* syncLog[m][d]: source_type, "none" without a row

tables == <<jobs, media, syncLog>>
source == <<log, layout>>

FormatCols  == <<"mediaformat1", "mediaformat2">>
NameCols    == <<"medianame1", "medianame2">>
SimplexCols == <<"nofsimplex1", "nofsimplex2">>
DuplexCols  == <<"nofduplex1", "nofduplex2">>

StampCols   == {"startdate", "starttime", "readydate", "readytime"}
CounterCols == {"jobid", "noffinishedsets", "nofprintedbw", "nofprintedc"}
                 \cup Range(SimplexCols) \cup Range(DuplexCols)

EmptyCell(c) ==
  IF c \in StampCols THEN Empty ELSE IF c \in CounterCols THEN Blank ELSE ""

\* The press logs a run under the day it starts on, so a start date is a day of
\* the calendar; the other stamps may be odd.
IsRecord(rec) ==
  /\ \A c \in CounterCols : rec[c] \in Int \cup {Blank, Garbled}
  /\ rec["startdate"] \in Dates \ DOMAIN OddDates
  /\ rec["readydate"] \in Dates
  /\ \A c \in {"starttime", "readytime"} : rec[c] \in Fields

ASSUME SlotsAssumption == Slots \subseteq DOMAIN FormatCols
ASSUME LogsAssumption  ==
  \A m \in Machines, d \in Days : \A l \in Logs[m][d] :
    l \in Seq({l[i] : i \in DOMAIN l}) /\ \A i \in DOMAIN l : IsRecord(l[i])

-----------------------------------------------------------------------------
(* The file a press offers (external).  Line = marker and cells; trailing  *)
(* empty cells are left out, and the header is repeated when it changes.   *)

HeaderAt(m, i) == layout[m][IF i > Len(layout[m]) THEN Len(layout[m]) ELSE i]

HeaderLine(m, i) == [mark |-> "4302", cells |-> HeaderAt(m, i)]

DataLine(header, rec) ==
  LET last == Max({0} \cup {i \in DOMAIN header : rec[header[i]] # EmptyCell(header[i])})
  IN [mark |-> "4303", cells |-> [i \in 1 .. last |-> rec[header[i]]]]

\* The lines of the i-th record.
Written(m, d, i) ==
  LET data == <<DataLine(HeaderAt(m, i), log[m][d][i])>>
  IN IF i > 1 /\ HeaderAt(m, i) # HeaderAt(m, i - 1)
     THEN <<HeaderLine(m, i)>> \o data ELSE data

\* The first n records of a day as a file.
File(m, d, n) ==
  LET upTo[i \in 0 .. n] ==
        IF i = 0 THEN <<HeaderLine(m, 1)>> ELSE upTo[i - 1] \o Written(m, d, i)
  IN upTo[n]

-----------------------------------------------------------------------------
(* parser.py.                                                              *)

\* dict(zip(header, row, strict=False)): the shorter of the two ends it, and
\* the last of two columns of one name stands.
DictZip(header, cells) ==
  LET n == Min({Len(header), Len(cells)})
  IN [c \in {header[i] : i \in 1 .. n} |->
        cells[Max({i \in 1 .. n : header[i] = c})]]

\* Mutant: a header within the file starts the day anew.
MutParseLineStartsAnew(acc, line) ==
  IF line.mark = "4302" THEN [header |-> line.cells, rows |-> <<>>]
  ELSE IF line.mark = "4303" /\ acc.header # <<>>
  THEN [acc EXCEPT !.rows = Append(@, DictZip(acc.header, line.cells))]
  ELSE acc

ParseLine(acc, line) ==
  IF line.mark = "4302" THEN [acc EXCEPT !.header = line.cells]
  ELSE IF line.mark = "4303" /\ acc.header # <<>>
  THEN [acc EXCEPT !.rows = Append(@, DictZip(acc.header, line.cells))]
  ELSE acc

ParseCsv(lines) ==
  LET read[k \in 0 .. Len(lines)] ==
        IF k = 0 THEN [header |-> <<>>, rows |-> <<>>] ELSE ParseLine(read[k - 1], lines[k])
  IN read[Len(lines)].rows

Get(dict, c) == IF c \in DOMAIN dict THEN dict[c] ELSE EmptyCell(c)

\* Mutant: what is no number is kept.
MutIntValKeepsGarbled(dict, c) == IF Get(dict, c) = Blank THEN 0 ELSE Get(dict, c)

IntVal(dict, c) == IF Get(dict, c) \in {Blank, Garbled} THEN 0 ELSE Get(dict, c)

RowToDb(dict, m, d, seq) ==
  [machine   |-> m, date |-> d, jobid |-> IntVal(dict, "jobid"), seq |-> seq,
   jobtype   |-> Get(dict, "jobtype"),
   startdate |-> Get(dict, "startdate"), starttime |-> Get(dict, "starttime"),
   readydate |-> Get(dict, "readydate"), readytime |-> Get(dict, "readytime"),
   result    |-> Get(dict, "result"),
   jobname   |-> Get(dict, "jobname"),
   sets      |-> IntVal(dict, "noffinishedsets"),
   bw        |-> IntVal(dict, "nofprintedbw"),
   colour    |-> IntVal(dict, "nofprintedc")]

\* A slot is used when it names a format or sheets were drawn from it.
ExtractMedia(dict, m, d, jobid, seq) ==
  {[machine |-> m, date |-> d, jobid |-> jobid, seq |-> seq, tray |-> s,
    format  |-> Get(dict, FormatCols[s]), name |-> Get(dict, NameCols[s]),
    simplex |-> IntVal(dict, SimplexCols[s]), duplex |-> IntVal(dict, DuplexCols[s])] :
   s \in {s \in Slots : \/ Get(dict, FormatCols[s]) # ""
                        \/ IntVal(dict, SimplexCols[s]) # 0
                        \/ IntVal(dict, DuplexCols[s]) # 0}}

-----------------------------------------------------------------------------
OfDay(table, m, d) == {r \in table : r.machine = m /\ r.date = d}

\* Mutants: the media rows are numbered from one; lines are numbered from the
\* newest record.
MutReplaceDayMediaFromOne(m, d, parsed) ==
  LET new == {RowToDb(parsed[i], m, d, i - 1) : i \in DOMAIN parsed} IN
  /\ jobs' = (jobs \ OfDay(jobs, m, d)) \cup new
  /\ media' = (media \ OfDay(media, m, d)) \cup
       UNION {ExtractMedia(parsed[i], m, d, IntVal(parsed[i], "jobid"), i) :
              i \in DOMAIN parsed}
MutReplaceDayNewestFirst(m, d, parsed) ==
  LET seq(i) == Len(parsed) - i
      new    == {RowToDb(parsed[i], m, d, seq(i)) : i \in DOMAIN parsed} IN
  /\ jobs' = (jobs \ OfDay(jobs, m, d)) \cup new
  /\ media' = (media \ OfDay(media, m, d)) \cup
       UNION {ExtractMedia(parsed[i], m, d, IntVal(parsed[i], "jobid"), seq(i)) :
              i \in DOMAIN parsed}

ReplaceDay(m, d, parsed) ==
  LET new == {RowToDb(parsed[i], m, d, i - 1) : i \in DOMAIN parsed} IN
  /\ jobs' = (jobs \ OfDay(jobs, m, d)) \cup new
  /\ media' = (media \ OfDay(media, m, d)) \cup
       UNION {ExtractMedia(parsed[i], m, d, IntVal(parsed[i], "jobid"), i - 1) :
              i \in DOMAIN parsed}

\* _import_date of a day that _plan_action lets through, from the running log
\* after n records or from the closed one.
Import(m, d, kind, n) ==
  /\ syncLog[m][d] # "CSV"
  /\ kind = "CSV" => n = Len(log[m][d])
  /\ LET parsed == ParseCsv(File(m, d, n)) IN
     /\ Len(parsed) >= Cardinality(OfDay(jobs, m, d))
     /\ ReplaceDay(m, d, parsed)
  /\ syncLog' = [syncLog EXCEPT ![m][d] = kind]
  /\ UNCHANGED source

TablesInit ==
  /\ log \in {l \in [Machines -> [Days -> UNION {Logs[m][d] : m \in Machines, d \in Days}]] :
                \A m \in Machines, d \in Days : l[m][d] \in Logs[m][d]}
  /\ layout \in [Machines -> Layouts]
  /\ jobs = {} /\ media = {}
  /\ syncLog = [m \in Machines |-> [d \in Days |-> "none"]]

TablesNext ==
  \E m \in Machines, d \in Days, kind \in {"ACL", "CSV"} :
    \E n \in 0 .. Len(log[m][d]) : Import(m, d, kind, n)

-----------------------------------------------------------------------------
SameRun(a, b) ==
  /\ a.machine = b.machine /\ a.date = b.date /\ a.jobid = b.jobid /\ a.seq = b.seq

\* The tables hold what their columns declare, and no column is ever Blank.
TablesTypeOK ==
  /\ \A r \in jobs :
       /\ r.machine \in Machines /\ r.date \in Days /\ r.seq \in Nat
       /\ {r.jobid, r.sets, r.bw, r.colour} \subseteq Int
       /\ {r.startdate, r.readydate} \subseteq Dates
       /\ {r.starttime, r.readytime} \subseteq Fields
  /\ \A s \in media : s.tray \in Slots /\ {s.simplex, s.duplex} \subseteq Int

\* No day's rows outlive their version: a tray row always belongs to the run
\* it was read with, and no day has two runs under one line number.
MediaOfARun ==
  /\ \A s \in media : \E r \in jobs : SameRun(s, r)
  /\ \A r, q \in jobs : r.machine = q.machine /\ r.date = q.date /\ r.seq = q.seq => r = q

\* What the i-th record of a day says in column c, read without the file.
Said(m, d, i, c) ==
  IF c \in Range(HeaderAt(m, i)) THEN log[m][d][i][c] ELSE EmptyCell(c)
Number(v) == IF v \in Int THEN v ELSE 0

\* The tables hold what the press logged, cell by cell, whatever the columns,
\* their order, the cells left out at the end of a line or a change of the
\* header within the day (README: any subset of the columns works).
ImportedAsLogged ==
  \A r \in jobs :
    LET S(c) == Said(r.machine, r.date, r.seq + 1, c) IN
    /\ \A c \in {"jobtype", "startdate", "starttime", "readydate", "readytime",
                 "result", "jobname"} : r[c] = S(c)
    /\ r.jobid = Number(S("jobid")) /\ r.sets = Number(S("noffinishedsets"))
    /\ r.bw = Number(S("nofprintedbw")) /\ r.colour = Number(S("nofprintedc"))
    /\ \A t \in Slots :
         LET used == {s \in media : SameRun(s, r) /\ s.tray = t}
             said == [format  |-> S(FormatCols[t]), name |-> S(NameCols[t]),
                      simplex |-> Number(S(SimplexCols[t])),
                      duplex  |-> Number(S(DuplexCols[t]))]
         IN IF said.format = "" /\ said.simplex = 0 /\ said.duplex = 0
            THEN used = {}
            ELSE \E s \in used :
                   /\ used = {s}
                   /\ \A c \in DOMAIN said : s[c] = said[c]

\* A run keeps its identity and its figures for as long as its day is read
\* again: clients and links may hold on to (machine, day, jobid, line)
\* (export_client.py:74 "same row, same key on every run").
RunsKeepIdentity == [][jobs \subseteq jobs' /\ media \subseteq media']_tables
=============================================================================
