-------------------------------- MODULE Export --------------------------------
(***************************************************************************)
(* The export API (pressledger/export.py, web/api.py) and the client that  *)
(* comes with it (examples/export_client.py), beside the imports that      *)
(* change the tables between two of its queries.                           *)
(*                                                                         *)
(* The rows of a day, their media and its sync_log row change in one       *)
(* transaction, _import_date, so db[m][d] holds all three; a run carries   *)
(* its media.  _import_date itself does not ask whether a day is final:    *)
(* _plan_action keeps a sync from reading a final day again, but a         *)
(* reimport reads every file of the archive, the ACL of a day before its   *)
(* CSV, and a sync from the command line may act on a plan it made before  *)
(* the day became final (Recovery.tla, Sync.tla).  Machine ids are ranked  *)
(* like their text.                                                        *)
(***************************************************************************)
EXTENDS Stamps, Sequences, FiniteSets

CONSTANTS Machines, Days,
          Runs,          \* what a line of a log may say
          Live,          \* Live[m][d]: the running logs of a day that may be read
          Closed,        \* Closed[m][d]: the closed log
          Cuts,          \* Cuts[m][d]: where a download of it may be cut, at the end of a line
          Lookback,      \* LOOKBACK_DAYS
          PageLimit, MaxLimit,
          LastDay, MaxRedos, MaxFailures   \* bounds of the model

ASSUME MachinesAssumption == Machines \subseteq Nat \ {0} /\ IsFiniteSet(Machines)
ASSUME DaysAssumption     == Days \subseteq Nat \ {0}
ASSUME RunsAssumption     == \A r \in Runs : /\ {r.jobid, r.startdate, r.readydate} \subseteq Nat
                                            /\ {r.starttime, r.readytime} \subseteq Fields
ASSUME LogsAssumption     == /\ Closed \in [Machines -> [Days -> Seq(Runs)]]
                             /\ Live \in [Machines -> [Days -> SUBSET Seq(Runs)]]
ASSUME CutsAssumption     == \A m \in Machines, d \in Days :
                               Cuts[m][d] \subseteq 0 .. Len(Closed[m][d])
ASSUME LookbackAssumption == Lookback \in Nat
ASSUME LimitAssumption    == PageLimit \in Nat \ {0} /\ MaxLimit \in Nat \ {0}

VARIABLES db,        \* db[m][d]: source_type of the day, "none" without a row, and its runs
          today,
          client,    \* the run of the client, see Idle
          target,    \* the records of the downstream system
          redone,    \* history: the final days that were imported again or dropped
                     \* since a client listed the final days
          redos,     \* how often that happened
          failures   \* how often a run of the client was given up

vars == <<db, today, client, target, redone, redos, failures>>

-----------------------------------------------------------------------------
(* The tables and the importer.                                            *)

Rows ==
  UNION {UNION {{[id  |-> <<m, d, db[m][d].runs[i].jobid, i - 1>>,
                  run |-> db[m][d].runs[i], final |-> db[m][d].kind = "CSV"] :
                 i \in DOMAIN db[m][d].runs} : d \in Days} : m \in Machines}

NoDay == [kind |-> "none", runs |-> <<>>]

\* What may be read of a day, from the running log or the closed one.
Snapshots(m, d, kind) ==
  IF kind = "CSV" THEN {SubSeq(Closed[m][d], 1, n) : n \in Cuts[m][d] \cup {Len(Closed[m][d])}}
  ELSE Live[m][d]

\* _import_date: a day is replaced as a whole, by a file with no row less.
ImportDate(m, d, kind) ==
  /\ d <= today
  /\ \E runs \in Snapshots(m, d, kind) :
       /\ Len(runs) >= Len(db[m][d].runs)
       /\ db' = [db EXCEPT ![m][d] = [kind |-> kind, runs |-> runs]]

\* A day that is not final is imported.
Import(m, d, kind) ==
  /\ db[m][d].kind # "CSV"
  /\ ImportDate(m, d, kind)
  /\ UNCHANGED <<today, client, target, redone, redos, failures>>

Redo(days) ==
  /\ redos < MaxRedos /\ redos' = redos + 1
  /\ redone' = redone \cup days
  /\ UNCHANGED <<today, client, target, failures>>

\* A final day is imported again, by reimport or from the command line: as its ACL,
\* until Import brings its CSV back, or as its CSV.
ImportOverFinal(m, d, kind) ==
  /\ db[m][d].kind = "CSV"
  /\ ImportDate(m, d, kind)
  /\ Redo({<<m, d>>})

\* reimport --rebuild empties the tables; the days come back with Import.
Rebuild ==
  /\ db' = [m \in Machines |-> [d \in Days |-> NoDay]]
  /\ Redo(Machines \X Days)

NextDay ==
  /\ today < LastDay
  /\ today' = today + 1
  /\ UNCHANGED <<db, client, target, redone, redos, failures>>

-----------------------------------------------------------------------------
(* The API.                                                                *)

\* Row-value comparison of (machine_id, source_date, jobid, line_seq).
Before(a, b) ==
  \/ a[1] < b[1]
  \/ a[1] = b[1] /\ a[2] < b[2]
  \/ a[1] = b[1] /\ a[2] = b[2] /\ a[3] < b[3]
  \/ a[1] = b[1] /\ a[2] = b[2] /\ a[3] = b[3] /\ a[4] < b[4]

NoCursor == <<0, 0, 0, 0>>     \* before every row: machines count from 1

NoMachine == 0

ClampLimit(n) == IF n > MaxLimit THEN MaxLimit ELSE n

FieldDate(r, field) ==
  CASE field = "completed_date" -> CompletedDate(r.run)
    [] field = "source_date"    -> r.id[2]
    [] OTHER                    -> r.run.startdate

\* Mutants: live days are served too; the cursor is served again.
MutSelectedLive(r, q) ==
  /\ q.machine = NoMachine \/ r.id[1] = q.machine
  /\ FieldDate(r, q.field) >= q.from
  /\ q.to = Empty \/ FieldDate(r, q.field) <= q.to
  /\ q.jobtype = "" \/ r.run.jobtype = q.jobtype
  /\ Before(q.after, r.id)
MutSelectedFromCursor(r, q) ==
  /\ q.machine = NoMachine \/ r.id[1] = q.machine
  /\ FieldDate(r, q.field) >= q.from
  /\ q.to = Empty \/ FieldDate(r, q.field) <= q.to
  /\ q.jobtype = "" \/ r.run.jobtype = q.jobtype
  /\ q.finalOnly => r.final
  /\ Before(q.after, r.id) \/ q.after = r.id

\* _filters: the WHERE of a request.
Selected(r, q) ==
  /\ q.machine = NoMachine \/ r.id[1] = q.machine
  /\ FieldDate(r, q.field) >= q.from
  /\ q.to = Empty \/ FieldDate(r, q.field) <= q.to
  /\ q.jobtype = "" \/ r.run.jobtype = q.jobtype
  /\ q.finalOnly => r.final
  /\ Before(q.after, r.id)

\* The first n of a set of rows, in the order of their identity.
FirstOf(rows, n) == {r \in rows : Cardinality({s \in rows : Before(s.id, r.id)}) < n}

LastOf(rows) == CHOOSE r \in rows : \A s \in rows : ~Before(r.id, s.id)

\* Mutant: the cursor is the row of look-ahead.
MutRunPageCursorAhead(q) ==
  LET found == {r \in Rows : Selected(r, q)}
      page  == FirstOf(found, ClampLimit(q.limit))
  IN [rows |-> page,
      next |-> IF page = found THEN NoCursor
               ELSE LastOf(FirstOf(found, ClampLimit(q.limit) + 1)).id]

\* run_page without the media: the rows and the cursor of the next page.
RunPage(q) ==
  LET found == {r \in Rows : Selected(r, q)}
      page  == FirstOf(found, ClampLimit(q.limit))
  IN [rows |-> page,
      next |-> IF page = found THEN NoCursor ELSE LastOf(page).id]

\* _attach_media: the media rows of a page, from a query of its own.
MediaOf(id) == UNION {r.run.media : r \in {r \in Rows : r.id = id}}

AttachMedia(rows) ==
  {[id |-> r.id, run |-> r.run, final |-> r.final, media |-> MediaOf(r.id)] : r \in rows}

\* day_page, and the days the client keeps of it.
FinalDays(from, to) ==
  {p \in Machines \X Days : db[p[1]][p[2]].kind = "CSV" /\ from <= p[2] /\ p[2] <= to}

-----------------------------------------------------------------------------
(* The client.                                                             *)

Idle == [pc |-> "idle", from |-> Empty, to |-> Empty, days |-> {}, after |-> NoCursor,
         page |-> {}, next |-> NoCursor, got |-> {}, served |-> 0, todo |-> {}]

\* main: the window ends today.
Start ==
  /\ client.pc = "idle"
  /\ client' = [Idle EXCEPT !.pc = "days", !.to = today,
                            !.from = IF today > Lookback THEN today - Lookback ELSE 1]
  /\ UNCHANGED <<db, today, target, redone, redos, failures>>

\* final_days; without one there is nothing to process.
ListDays ==
  /\ client.pc = "days"
  /\ client' = IF FinalDays(client.from, client.to) = {} THEN Idle
               ELSE [client EXCEPT !.pc = "runs", !.days = FinalDays(client.from, client.to)]
  /\ redone' = {}
  /\ UNCHANGED <<db, today, target, redos, failures>>

\* The request of iter_runs.
Query(c) ==
  [machine |-> NoMachine, from |-> c.from, to |-> c.to, field |-> "completed_date",
   jobtype |-> "IP", finalOnly |-> TRUE, limit |-> PageLimit, after |-> c.after]

QueryRuns ==
  /\ client.pc = "runs"
  /\ client' = [client EXCEPT !.pc = "media", !.page = RunPage(Query(client)).rows,
                              !.next = RunPage(Query(client)).next]
  /\ UNCHANGED <<db, today, target, redone, redos, failures>>

\* The second query of the page, which the client then takes over: on to the
\* next page, or to the downstream system after the last one.
QueryMedia ==
  /\ client.pc = "media"
  /\ client' = [client EXCEPT
       !.pc     = IF client.next = NoCursor THEN "insert" ELSE "runs",
       !.after  = client.next,
       !.got    = @ \cup AttachMedia(client.page),
       !.todo   = @ \cup client.page,
       !.served = @ + Cardinality(client.page),
       !.page   = {}]
  /\ UNCHANGED <<db, today, target, redone, redos, failures>>

\* completed_at: the text of the end where it is a time, None otherwise.
CompletedAt(r) ==
  IF ParseStamp(CompletedDate(r), r.readytime) = NoTime THEN NoTime
  ELSE Text(CompletedDate(r), r.readytime)

\* Mutant: job ids are taken for unique across presses.
MutRecordKeyWithoutMachine(r) ==
  <<0, r.id[3], r.id[4], r.id[2],
    IF CompletedAt(r.run) # NoTime THEN CompletedAt(r.run) ELSE Ts(r.run)>>

\* record_key: the identity and a stamp, no quantity.
RecordKey(r) ==
  <<r.id[1], r.id[3], r.id[4], r.id[2],
    IF CompletedAt(r.run) # NoTime THEN CompletedAt(r.run) ELSE Ts(r.run)>>

ToRecord(r) ==
  [key |-> RecordKey(r), date |-> CompletedDate(r.run), runtime |-> DurationS(r.run),
   clicks |-> r.run.clicks]

\* One record after the other; one whose key is there is skipped.
InsertNext ==
  /\ client.pc = "insert"
  /\ IF client.todo = {} THEN client' = Idle /\ UNCHANGED target
     ELSE \E r \in client.todo :
            /\ \A s \in client.todo : ~Before(s.id, r.id)
            /\ client' = [client EXCEPT !.todo = @ \ {r}]
            /\ target' = IF \E rec \in target : rec.key = RecordKey(r) THEN target
                         ELSE target \cup {ToRecord(r)}
  /\ UNCHANGED <<db, today, redone, redos, failures>>

\* An answer that is no success, a timeout, or the end of the process: the run
\* is given up, what it inserted stays.
GiveUp ==
  /\ client.pc # "idle" /\ failures < MaxFailures
  /\ client' = Idle /\ failures' = failures + 1
  /\ UNCHANGED <<db, today, target, redone, redos>>

ClientStep == Start \/ ListDays \/ QueryRuns \/ QueryMedia \/ InsertNext

-----------------------------------------------------------------------------
Init ==
  /\ db = [m \in Machines |-> [d \in Days |-> NoDay]]
  /\ today = 1 /\ client = Idle /\ target = {} /\ redone = {}
  /\ redos = 0 /\ failures = 0

Next ==
  \/ \E m \in Machines, d \in Days, kind \in {"ACL", "CSV"} :
       Import(m, d, kind) \/ ImportOverFinal(m, d, kind)
  \/ Rebuild \/ NextDay \/ ClientStep \/ GiveUp

Spec == Init /\ [][Next]_vars

\* The client is run again and again, and its requests are answered or given up.
FairSpec == Spec /\ WF_vars(ClientStep)

-----------------------------------------------------------------------------
(* Properties.                                                             *)

\* Among the types: a record says how long a run took or that this is unknown,
\* never a negative time, whatever the press noted.
TypeOK ==
  /\ \A m \in Machines, d \in Days :
       db[m][d].kind \in {"none", "ACL", "CSV"} /\ db[m][d].runs \in Seq(Runs)
  /\ client.pc \in {"idle", "days", "runs", "media", "insert"}
  /\ client.days \subseteq Machines \X Days
  /\ {client.from, client.to, client.served, today, redos, failures} \subseteq Nat
  /\ redone \subseteq Machines \X Days
  /\ \A rec \in target : rec.date \in Nat /\ rec.runtime \in Nat \cup {NoTime}

\* The rows a client asks for, as they stand now.
Wanted == {r \in Rows : Selected(r, [Query(client) EXCEPT !.after = NoCursor])}

\* When the last page is read, every final row of the days that were listed as
\* final has been fetched, however many imports were committed between two pages:
\* what falls behind the cursor is a day that became final later (export.py:
\* "a day synced late lands behind a cursor").  Days that a rebuild, a reimport or
\* a late sync of the command line took away meanwhile are left out: the client
\* misses rows of theirs and is not told.
FetchComplete ==
  client.pc = "insert" =>
    \A r \in Wanted : <<r.id[1], r.id[2]>> \in client.days \ redone =>
      \E g \in client.got : g.id = r.id /\ g.run = r.run

\* No row is served twice within a run of the client, imports, reimports and
\* rebuilds between two pages included.
NoRowTwice == client.served = Cardinality({g.id : g \in client.got})

\* A row and the media rows attached to it by a second query are of one version
\* of the day, though imports are committed between the two, unless it is this
\* final day itself that is imported again or dropped there.
NoTornRow ==
  \A g \in client.got : <<g.id[1], g.id[2]>> \notin redone => g.media = g.run.media

\* The row of the closed log a key stands for.
ClosedRows ==
  UNION {UNION {{[id |-> <<m, d, Closed[m][d][i].jobid, i - 1>>, run |-> Closed[m][d][i]] :
                 i \in DOMAIN Closed[m][d]} : d \in Days} : m \in Machines}

\* Every record downstream is what the closed log says of one run, and no run
\* has two: no interim figure of a running day is ever billed, and running the
\* client again after a failure, a retry or a rebuild adds no second record
\* (export_client.py: "same row, same key on every run").
TargetTrue ==
  /\ \A rec \in target : \E r \in ClosedRows : rec = ToRecord(r)
  /\ \A a, b \in target : a.key[1] = b.key[1] /\ a.key[2] = b.key[2] /\ a.key[3] = b.key[3]
                          /\ a.key[4] = b.key[4] => a = b

Exported(r) == \E rec \in target : rec.key = RecordKey(r) /\ rec = ToRecord(r)

InWindow(d) == today - Lookback <= d /\ d <= today /\ d # Empty

Due(r) ==
  /\ r.final /\ r.run.jobtype = "IP"
  /\ InWindow(CompletedDate(r.run)) /\ InWindow(r.id[2])

\* The client catches up: over and over there comes a moment when every
\* production run of a final day in the window is downstream, though imports
\* land behind the cursor, pages and inserts fail half way, the window moves,
\* final days are imported again and the tables are rebuilt.
BacklogClears == []<>(\A r \in Rows : Due(r) => Exported(r))
=============================================================================
