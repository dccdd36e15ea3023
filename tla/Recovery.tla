------------------------------ MODULE Recovery ------------------------------
(***************************************************************************)
(* `pressledger reimport [--rebuild]` beside the service and the command   *)
(* line syncs of Sync: reset_db and ensure_schema of pressledger/db.py and *)
(* reimport_from_raw of pressledger/sync.py.  The DROPs and CREATEs of     *)
(* reset_db stand in no transaction (Python's sqlite3 opens one for row    *)
(* changes only), so each is a step of its own.  The reimport takes no     *)
(* lock.  The database has been created before: sqlite_sequence, which     *)
(* sync_run brings along, is never dropped, so ensure_schema never again   *)
(* finds it empty.                                                         *)
(***************************************************************************)
EXTENDS Sync

VARIABLES tables,     \* tables that exist
          stamped,    \* does meta hold the current schema_version?
          opening,    \* how far the ensure_schema of a sync is
          reimport    \* where the reimport is, and its locals

recoveryVars == <<vars, tables, stamped, opening, reimport>>

Dropped == <<"job_media", "jobs", "sync_log", "sync_run", "meta">>
Tables  == {Dropped[i] : i \in 1 .. Len(Dropped)}

\* alone is not in the code: no sync ran since the reimport began.
Reimport == [pc    : {"idle", "drop", "create", "stamp", "scan", "files",
                      "check", "commit", "done"},
             left  : {SubSeq(Dropped, i, Len(Dropped)) : i \in 1 .. Len(Dropped) + 1},
             queue : Seq(Machines),
             todo  : SUBSET Files,
             file  : Files \cup {NoFile},
             body  : Counts \cup {Absent},
             alone : BOOLEAN]

NoReimport == [pc |-> "idle", left |-> <<>>, queue |-> <<>>, todo |-> {},
               file |-> NoFile, body |-> Absent, alone |-> FALSE]

RecoveryTypeOK ==
  /\ TypeInv
  /\ tables \subseteq Tables
  /\ stamped \in BOOLEAN
  /\ stamped => "meta" \in tables
  /\ opening \in [Workers -> {"closed", "checked", "created", "open"}]
  /\ reimport \in Reimport

RecoveryInit ==
  /\ Init
  /\ tables = Tables
  /\ stamped = TRUE
  /\ opening = [w \in Workers |-> "closed"]
  /\ reimport = NoReimport

-----------------------------------------------------------------------------
(* Syncs, on a database that may lack tables.                              *)

\* Tables the next step of worker w reads or writes.
Needs(w) ==
  CASE At(w, "files") /\ run[w].todo # {}   -> {"sync_log"}
    [] run[w].pc \in {"validate", "check"}  -> {"jobs"}
    [] At(w, "commit")                      -> {"job_media", "jobs", "sync_log"}
    [] At(w, "record")                      -> {"sync_run"}
    [] OTHER                                -> {}

\* ensure_schema, at the start of a sync: a database of another version is refused,
\* which Sync's Abort stands for; then init_db creates what is missing by now, and
\* only then sets the version.
CheckVersion(w) ==
  /\ opening[w] = "closed" /\ stamped
  /\ opening' = [opening EXCEPT ![w] = "checked"]
  /\ UNCHANGED <<tables, stamped>>

CreateMissing(w) ==
  /\ opening[w] = "checked"
  /\ opening' = [opening EXCEPT ![w] = "created"]
  /\ tables' = Tables
  /\ UNCHANGED stamped

SetVersion(w) ==
  /\ opening[w] = "created" /\ "meta" \in tables
  /\ opening' = [opening EXCEPT ![w] = "open"]
  /\ stamped' = TRUE
  /\ UNCHANGED tables

EnsureSchema(w) ==
  /\ At(w, "listing")
  /\ CheckVersion(w) \/ CreateMissing(w) \/ SetVersion(w)
  /\ UNCHANGED <<vars, reimport>>

\* A sync that goes on, dies or ends has done with it.
Opened == opening' = [w \in Workers |-> IF run'[w] = run[w] THEN opening[w] ELSE "closed"]

\* A step that meets a missing table raises, which is one of Sync's failures.
WorkerStep(w) ==
  \/ /\ Needs(w) \subseteq tables
     /\ At(w, "listing") => opening[w] = "open"
     /\ Progress(w) \/ ListingFails(w) \/ DownloadDamaged(w) \/ DownloadFails(w)
  \/ StepFails(w) \/ Abort(w)

SyncStarts ==
  /\ TickStart \/ (\E w \in Manual : ManualStart(w)) \/ (\E w \in Cli : CliStart(w))
  /\ reimport' = [reimport EXCEPT !.alone = FALSE]
  /\ Opened /\ UNCHANGED <<tables, stamped>>

SyncGoesOn ==
  \/ \E w \in Workers : EnsureSchema(w)
  \/ /\ \/ \E w \in Workers : WorkerStep(w)
        \/ PressStep \/ ServiceCrash
        \/ \E w \in Cli : CliCrash(w)
     /\ Opened /\ UNCHANGED <<tables, stamped, reimport>>

-----------------------------------------------------------------------------
(* reset_db.                                                               *)

Start(pc, left) ==
  /\ reimport.pc = "idle"
  /\ reimport' = [NoReimport EXCEPT !.pc = pc, !.left = left,
                    !.alone = \A w \in Workers : run[w] = Idle]
  /\ UNCHANGED <<vars, tables, stamped, opening>>

StartRebuild == Start("drop", Dropped)

\* Without --rebuild the version is checked instead, and init_db follows as well.
StartPlain == stamped /\ Start("create", <<>>)

\* Mutant: the version is not kept in one of the tables.
MutVersionAfterDrop(table) == stamped

VersionAfterDrop(table) == stamped /\ table # "meta"

\* DROP TABLE IF EXISTS.
DropTable ==
  /\ reimport.pc = "drop"
  /\ LET table == Head(reimport.left)
         left  == Tail(reimport.left)
     IN
     /\ tables' = tables \ {table}
     /\ stamped' = VersionAfterDrop(table)
     /\ jobs' = IF table = "jobs" THEN [m \in Machines |-> [d \in Days |-> 0]] ELSE jobs
     /\ syncLog' = IF table = "sync_log"
                   THEN [m \in Machines |-> [d \in Days |-> "none"]] ELSE syncLog
     /\ lastRun' = IF table = "sync_run" THEN [m \in Machines |-> "never"] ELSE lastRun
     /\ reimport' = [reimport EXCEPT !.left = left, !.pc = IF left = <<>> THEN "create" ELSE @]
  /\ UNCHANGED <<press, archived, lock, run, opening>>

\* init_db, executescript.  A sync that meets a part of it may raise, as it may on
\* a disk error, so the CREATEs are one step.
CreateTables ==
  /\ reimport.pc = "create"
  /\ tables' = Tables
  /\ reimport' = [reimport EXCEPT !.pc = "stamp"]
  /\ UNCHANGED <<vars, stamped, opening>>

\* init_db, the version: only now does ensure_schema accept the database.
StampVersion ==
  /\ reimport.pc = "stamp"
  /\ stamped' = TRUE
  /\ reimport' = [reimport EXCEPT !.pc = "scan", !.queue = Config]
  /\ UNCHANGED <<vars, tables, opening>>

-----------------------------------------------------------------------------
(* reimport_from_raw: every archived file of every press.                  *)

Scan ==
  /\ reimport.pc = "scan"
  /\ LET m == Head(reimport.queue) IN
     reimport' = [reimport EXCEPT !.pc = "files",
                    !.todo = {f \in Files : archived[m][f] # Absent}]
  /\ UNCHANGED <<vars, tables, stamped, opening>>

\* Mutant: the files in any order.
MutNextFiles(todo) == todo

\* The order of _raw_files: the ACL of a day before its CSV.
NextFiles(todo) == {f \in todo : f[2] = "CSV" => <<f[1], "ACL">> \notin todo}

ReadFile ==
  /\ reimport.pc = "files"
  /\ \E f \in NextFiles(reimport.todo) :
       reimport' = [reimport EXCEPT !.pc = "check", !.todo = @ \ {f}, !.file = f,
                      !.body = archived[Head(reimport.queue)][f]]
  /\ UNCHANGED <<vars, tables, stamped, opening>>

NextFile(r) == [r EXCEPT !.pc = "files", !.file = NoFile, !.body = Absent]

\* _validate_snapshot; a refused file is reported and skipped.
CheckFile ==
  /\ reimport.pc = "check"
  /\ "jobs" \in tables
  /\ reimport' =
       IF Accepted(Head(reimport.queue), reimport.file[1], reimport.body)
       THEN [reimport EXCEPT !.pc = "commit"]
       ELSE NextFile(reimport)
  /\ UNCHANGED <<vars, tables, stamped, opening>>

\* The transaction of _import_date.
ImportFile ==
  /\ reimport.pc = "commit"
  /\ {"job_media", "jobs", "sync_log"} \subseteq tables
  /\ LET m == Head(reimport.queue)
         d == reimport.file[1]
     IN /\ jobs' = [jobs EXCEPT ![m][d] = reimport.body]
        /\ syncLog' = [syncLog EXCEPT ![m][d] = reimport.file[2]]
  /\ reimport' = NextFile(reimport)
  /\ UNCHANGED <<press, archived, lastRun, lock, run, tables, stamped, opening>>

NextMachine ==
  /\ reimport.pc = "files"
  /\ reimport.todo = {}
  /\ LET rest == Tail(reimport.queue) IN
     reimport' = [reimport EXCEPT !.queue = rest, !.pc = IF rest = <<>> THEN "done" ELSE "scan"]
  /\ UNCHANGED <<vars, tables, stamped, opening>>

\* It is done, it dies, or a database error ends it: all leave what is there.
Ends ==
  /\ reimport.pc # "idle"
  /\ reimport' = NoReimport
  /\ UNCHANGED <<vars, tables, stamped, opening>>

ReimportStep ==
  \/ StartRebuild \/ DropTable \/ CreateTables \/ StampVersion
  \/ StartPlain \/ Scan \/ ReadFile \/ CheckFile \/ ImportFile \/ NextMachine
  \/ Ends

RecoveryNext == SyncStarts \/ SyncGoesOn \/ ReimportStep

RecoverySpec == RecoveryInit /\ [][RecoveryNext]_recoveryVars

-----------------------------------------------------------------------------
\* A reimport that no sync ran beside, with --rebuild or without, leaves every
\* day of every configured press as the archive implies, whatever died half way
\* before it: in a sync, in a reset_db or in an earlier reimport.
ReimportRestores ==
  reimport.pc = "done" /\ reimport.alone =>
    \A i \in 1 .. Len(Config), d \in Days :
      LET m == Config[i] IN
      /\ syncLog[m][d] = Rebuilt(m, d).kind
      /\ jobs[m][d] = Rebuilt(m, d).rows

\* Outside a reimport, a day that /api/v1/days lists as final has its rows: an
\* empty run list for it means that nothing was printed (day_page of export.py).
ListedDayHasItsRows ==
  reimport.pc = "idle" => \A m \in Machines, d \in Days :
    syncLog[m][d] = "CSV" => jobs[m][d] = csv[m][d]

-----------------------------------------------------------------------------
(* What every step relies on, and the proofs in RecoveryProofs establish.  *)

Reading == {"files", "check", "commit"}
InHand  == {"check", "commit"}

\* The locals of the reimport agree with where it is.
ReimportLocalsOK ==
  /\ reimport.pc = "drop" => reimport.left # <<>>
  /\ reimport.pc = "stamp" => tables = Tables
  /\ reimport.pc \in {"scan"} \cup Reading => reimport.queue # <<>>
  /\ reimport.pc = "done" => reimport.queue = <<>>
  /\ reimport.pc \in Reading =>
       \A f \in reimport.todo : archived[Head(reimport.queue)][f] # Absent
  /\ reimport.pc \in InHand => reimport.file \in Files /\ reimport.body \in Counts

RecoveryTypeInv == RecoveryTypeOK /\ ReimportLocalsOK

\* Rows whose sync_log entry has been dropped come from the archive, too.
RowsCovered ==
  \A m \in Machines, d \in Days :
    jobs[m][d] # 0 => \E e \in Exts : archived[m][<<d, e>>] \in jobs[m][d] .. MaxRows

\* What the reimport has in hand is in the archive, or has been outgrown there.
HandArchived ==
  reimport.pc \in InHand =>
    archived[Head(reimport.queue)][reimport.file] \in reimport.body .. MaxRows

CoverInv == SourceKept /\ RowsCovered /\ HandArchived

Restored(m, d) ==
  /\ syncLog[m][d] = Rebuilt(m, d).kind
  /\ jobs[m][d] = Rebuilt(m, d).rows

\* The file of a day that decides: _raw_files has it last.
LastFile(m, d) == IF archived[m][<<d, "CSV">>] # Absent THEN <<d, "CSV">> ELSE <<d, "ACL">>

Ahead(f) == f \in reimport.todo \/ (reimport.pc \in InHand /\ f = reimport.file)

NobodySyncs == \A w \in Workers : run[w] = Idle

HandCurrent ==
  reimport.pc \in InHand =>
    reimport.body = archived[Head(reimport.queue)][reimport.file]

\* A day of the press at hand is restored unless its last file lies ahead, and
\* the ACL is never ahead without the CSV behind it.
DayFollows(m, d) ==
  /\ Ahead(LastFile(m, d)) \/ Restored(m, d)
  /\ Ahead(<<d, "ACL">>) /\ archived[m][<<d, "CSV">>] # Absent => <<d, "CSV">> \in reimport.todo

PressFollows(m) ==
  \/ \E j \in 1 .. Len(reimport.queue) : reimport.queue[j] = m
  \/ \A d \in Days : Restored(m, d)

\* With no sync beside it, the reimport has restored every press it has been
\* through, and of the one at hand every day whose files it has read.
FollowsArchive ==
  reimport.alone =>
    /\ NobodySyncs
    /\ HandCurrent
    /\ reimport.pc \in Reading => \A d \in Days : DayFollows(Head(reimport.queue), d)
    /\ reimport.pc \in {"scan", "done"} \cup Reading =>
         \A i \in 1 .. Len(Config) : PressFollows(Config[i])
=============================================================================
