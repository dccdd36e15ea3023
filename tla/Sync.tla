-------------------------------- MODULE Sync --------------------------------
(***************************************************************************)
(* pressledger/sync.py: one sync fetches the listing of a press, downloads *)
(* every file of a day that is not final, validates it, archives it and    *)
(* imports it in one transaction.  Its callers are the scheduler's tick    *)
(* and the web page's manual sync, which share the lock of scheduler.py,   *)
(* and `pressledger sync` on the command line, a process of its own that   *)
(* does not.                                                               *)
(*                                                                         *)
(* A downloaded body is the number of complete records in it, or Broken:   *)
(* no 4302 header or no trailing newline.                                  *)
(***************************************************************************)
EXTENDS Press, Sequences

CONSTANTS Config,     \* the configured presses in order, config.machines
          Tick,       \* the scheduler's job; max_instances=1, so one worker
          Manual,     \* background tasks of POST /sync
          Cli,        \* `pressledger sync` processes
          LineCuts,   \* may a body be cut on a line boundary unnoticed?
          Undated,    \* names of weekly and monthly files, which carry no day
          Down,       \* presses that may stay switched off for good
          Broken, NoFile, Free

Service == {Tick} \cup Manual
Workers == Service \cup Cli

ASSUME ConfigAssumption ==
  /\ Config \in Seq(Machines)
  /\ Config # <<>>
ASSUME WorkersAssumption ==
  /\ Service \cap Cli = {}
  /\ Free \notin Workers
ASSUME ValuesAssumption ==
  /\ LineCuts \in BOOLEAN
  /\ Down \subseteq Machines
  /\ Broken \notin Int \cup {Absent}
  /\ Undated \cap Files = {}
  /\ NoFile \notin Files

VARIABLES archived,   \* archived[m][f]: records of f in data/raw/<m>, or Absent
          jobs,       \* jobs[m][d]: COUNT(*) of the day in the table jobs
          syncLog,    \* syncLog[m][d]: source_type in sync_log, "none" without a row
          lastRun,    \* lastRun[m]: newest sync_run row of the press
          lock,       \* holder of scheduler._sync_lock
          run         \* run[w]: where worker w is, and the locals of sync()

database == <<jobs, syncLog>>
vars == <<press, archived, database, lastRun, lock, run>>

Bodies   == Counts \cup {Broken}
Outcomes == {"clean", "errors", "unreachable"}

Run == [pc      : {"idle", "listing", "files", "download", "validate", "archive",
                   "check", "commit", "record"},
        queue   : Seq(Machines),                 \* presses left, the current one first
        listing : SUBSET (Files \cup Undated),
        todo    : SUBSET (Files \cup Undated), \* files of the listing still to visit
        file    : Files \cup {NoFile},
        body    : Bodies \cup {Absent},
        outcome : Outcomes]

Idle == [pc |-> "idle", queue |-> <<>>, listing |-> {}, todo |-> {},
         file |-> NoFile, body |-> Absent, outcome |-> "clean"]

TypeOK ==
  /\ PressTypeOK
  /\ archived \in [Machines -> [Files -> Counts \cup {Absent}]]
  /\ jobs \in [Machines -> [Days -> Counts]]
  /\ syncLog \in [Machines -> [Days -> {"none"} \cup Exts]]
  /\ lastRun \in [Machines -> {"never"} \cup Outcomes]
  /\ lock \in Service \cup {Free}
  /\ run \in [Workers -> Run]

Init ==
  /\ PressInit
  /\ archived = [m \in Machines |-> [f \in Files |-> Absent]]
  /\ jobs = [m \in Machines |-> [d \in Days |-> 0]]
  /\ syncLog = [m \in Machines |-> [d \in Days |-> "none"]]
  /\ lastRun = [m \in Machines |-> "never"]
  /\ lock = Free
  /\ run = [w \in Workers |-> Idle]

\* Worker w goes on with the locals r.
Become(w, r) == run' = [run EXCEPT ![w] = r]

\* A step of worker w that nobody else can see.
LocalStep(w, r) ==
  /\ Become(w, r)
  /\ UNCHANGED <<press, archived, database, lastRun, lock>>

\* Mutant: no finally around the sync.
MutReleaseNever(w) == UNCHANGED lock

\* A worker that ends gives back the lock, if it is one that took it.
Release(w) == lock' = IF lock = w THEN Free ELSE lock

-----------------------------------------------------------------------------
(* Who starts a sync.  A worker of the service that meets a held lock      *)
(* skips its sync altogether, which changes nothing.                       *)

Launch(w, machines) ==
  /\ run[w].pc = "idle"
  /\ Become(w, [Idle EXCEPT !.pc = "listing", !.queue = machines])
  /\ UNCHANGED <<press, archived, database, lastRun>>

\* Mutant: the result of acquire() is not looked at.
MutRunSyncOnceUnlocked(w, machines) ==
  /\ lock' = w
  /\ Launch(w, machines)

RunSyncOnce(w, machines) ==
  /\ lock = Free
  /\ lock' = w
  /\ Launch(w, machines)

TickStart == RunSyncOnce(Tick, Config)

\* A request names one press, or none for all of them.
Requests == {Config} \cup {<<m>> : m \in Machines}

ManualStart(w) == \E machines \in Requests : RunSyncOnce(w, machines)

CliStart(w) ==
  /\ \E machines \in Requests : Launch(w, machines)
  /\ UNCHANGED lock

-----------------------------------------------------------------------------
(* sync() of the press at the head of the queue.                           *)

At(w, pc) == run[w].pc = pc
Machine(w) == Head(run[w].queue)
Day(w) == run[w].file[1]
Ext(w) == run[w].file[2]

FetchListing(w) ==
  /\ At(w, "listing")
  /\ \E undated \in SUBSET Undated :
       LET names == offered[Machine(w)] \cup undated IN
       LocalStep(w, [run[w] EXCEPT !.pc = "files", !.listing = names, !.todo = names])

\* Mutant: an unreachable press raises.
MutListingFailsRaises(w) ==
  /\ At(w, "listing")
  /\ Become(w, Idle)
  /\ Release(w)
  /\ UNCHANGED <<press, archived, database, lastRun>>

ListingFails(w) ==
  /\ At(w, "listing")
  /\ LocalStep(w, [run[w] EXCEPT !.pc = "record", !.outcome = "unreachable"])

\* Mutants: a final day is imported again; a day once imported is never updated.
MutPlannedAlways(m) == Files
MutPlannedOnce(m) == {f \in Files : syncLog[m][f[1]] = "none"}

\* Names with a date for which _plan_action has an action: the day is not final.
Planned(m) == {f \in Files : syncLog[m][f[1]] # "CSV"}

SkipFile(w, f) ==
  /\ At(w, "files")
  /\ f \in run[w].todo \ Planned(Machine(w))
  /\ LocalStep(w, [run[w] EXCEPT !.todo = @ \ {f}])

PlanFile(w, f) ==
  /\ At(w, "files")
  /\ f \in run[w].todo \cap Planned(Machine(w))
  /\ LocalStep(w, [run[w] EXCEPT !.pc = "download", !.file = f, !.todo = @ \ {f}])

Received(w, body) ==
  /\ At(w, "download")
  /\ run[w].file \in offered[Machine(w)]
  /\ LocalStep(w, [run[w] EXCEPT !.pc = "validate", !.body = body])

Download(w) == Received(w, Content(Machine(w), run[w].file))

DownloadDamaged(w) ==
  \/ Received(w, Broken)
  \/ /\ LineCuts
     /\ \E n \in Counts : Received(w, n) /\ n < Content(Machine(w), run[w].file)

\* Mutant: the error is logged but not appended.
MutGiveUpFileSilently(w) ==
  LocalStep(w, [run[w] EXCEPT !.pc = "files", !.file = NoFile, !.body = Absent])

\* download_errors.append(...); continue
GiveUpFile(w) ==
  LocalStep(w, [run[w] EXCEPT !.pc = "files", !.file = NoFile,
                              !.body = Absent, !.outcome = "errors"])

\* No answer, or an HTTP error; the press may be switched off between two files.
DownloadFails(w) == At(w, "download") /\ GiveUpFile(w)

\* The one of them that is nobody's fault: the file left the press since the listing.
FileGone(w) == DownloadFails(w) /\ run[w].file \notin offered[Machine(w)]

\* Mutants: the header is not looked for; the day has to grow.
MutAcceptedHeaderless(m, d, body) == IF body = Broken THEN TRUE ELSE body >= jobs[m][d]
MutAcceptedGrowing(m, d, body) == body # Broken /\ body > jobs[m][d]

\* _validate_snapshot: header and newline are there, and the day does not shrink.
Accepted(m, d, body) == body # Broken /\ body >= jobs[m][d]

CheckedStep(w, from, to) ==
  /\ At(w, from)
  /\ Accepted(Machine(w), Day(w), run[w].body)
  /\ LocalStep(w, [run[w] EXCEPT !.pc = to])

Validate(w) == CheckedStep(w, "validate", "archive")

\* _import_date validates again, outside the transaction that follows.
ImportCheck(w) == CheckedStep(w, "check", "commit")

Reject(w) ==
  /\ At(w, "validate") \/ At(w, "check")
  /\ ~Accepted(Machine(w), Day(w), run[w].body)
  /\ GiveUpFile(w)

\* Mutant: a file that is in the archive already is not written again.
MutArchiveOnce(w) ==
  /\ At(w, "archive")
  /\ archived' = [archived EXCEPT ![Machine(w)][run[w].file] =
                    IF @ = Absent THEN run[w].body ELSE @]
  /\ Become(w, [run[w] EXCEPT !.pc = "check"])
  /\ UNCHANGED <<press, database, lastRun, lock>>

\* Written beside the target and renamed over it.
Archive(w) ==
  /\ At(w, "archive")
  /\ archived' = [archived EXCEPT ![Machine(w)][run[w].file] = run[w].body]
  /\ Become(w, [run[w] EXCEPT !.pc = "check"])
  /\ UNCHANGED <<press, database, lastRun, lock>>

\* Mutant: the rows of the day are not deleted first.
MutImportDateAppends(w) ==
  /\ At(w, "commit")
  /\ jobs' = [jobs EXCEPT ![Machine(w)][Day(w)] = @ + run[w].body]
  /\ syncLog' = [syncLog EXCEPT ![Machine(w)][Day(w)] = Ext(w)]
  /\ Become(w, [run[w] EXCEPT !.pc = "files", !.file = NoFile, !.body = Absent])
  /\ UNCHANGED <<press, archived, lastRun, lock>>

\* One transaction: the day's rows and its sync_log entry.
ImportDate(w) ==
  /\ At(w, "commit")
  /\ jobs' = [jobs EXCEPT ![Machine(w)][Day(w)] = run[w].body]
  /\ syncLog' = [syncLog EXCEPT ![Machine(w)][Day(w)] = Ext(w)]
  /\ Become(w, [run[w] EXCEPT !.pc = "files", !.file = NoFile, !.body = Absent])
  /\ UNCHANGED <<press, archived, lastRun, lock>>

\* A database error while validating or importing, or an OSError of the
\* archive: caught, and the transaction is rolled back.
StepFails(w) ==
  /\ run[w].pc \in {"validate", "archive", "check", "commit"}
  /\ GiveUpFile(w)

FilesDone(w) ==
  /\ At(w, "files")
  /\ run[w].todo = {}
  /\ LocalStep(w, [run[w] EXCEPT !.pc = "record"])

\* Mutant: sync_all stops at a press that is unreachable.
MutRecordRunStops(w) ==
  /\ At(w, "record")
  /\ lastRun' = [lastRun EXCEPT ![Machine(w)] = run[w].outcome]
  /\ LET rest == Tail(run[w].queue) IN
     IF rest = <<>> \/ run[w].outcome = "unreachable"
     THEN Become(w, Idle) /\ Release(w)
     ELSE Become(w, [Idle EXCEPT !.pc = "listing", !.queue = rest]) /\ UNCHANGED lock
  /\ UNCHANGED <<press, archived, database>>

\* _record_run, then the next press of sync_all.
RecordRun(w) ==
  /\ At(w, "record")
  /\ lastRun' = [lastRun EXCEPT ![Machine(w)] = run[w].outcome]
  /\ LET rest == Tail(run[w].queue) IN
     IF rest = <<>>
     THEN Become(w, Idle) /\ Release(w)
     ELSE Become(w, [Idle EXCEPT !.pc = "listing", !.queue = rest]) /\ UNCHANGED lock
  /\ UNCHANGED <<press, archived, database>>

\* A database error in ensure_schema, _plan_action or _record_run is not
\* caught in sync(): it ends the whole sync_all, without a sync_run row.
Abort(w) ==
  /\ run[w].pc \in {"listing", "files", "record"}
  /\ Become(w, Idle)
  /\ Release(w)
  /\ UNCHANGED <<press, archived, database, lastRun>>

-----------------------------------------------------------------------------
(* A process dies at any point; the archive and the database stay.         *)

ServiceCrash ==
  /\ run' = [w \in Workers |-> IF w \in Service THEN Idle ELSE run[w]]
  /\ lock' = Free
  /\ UNCHANGED <<press, archived, database, lastRun>>

CliCrash(w) == LocalStep(w, Idle)

-----------------------------------------------------------------------------
PressStep ==
  /\ PressNext
  /\ UNCHANGED <<archived, database, lastRun, lock, run>>

Progress(w) ==
  \/ FetchListing(w)
  \/ \E f \in Files \cup Undated : SkipFile(w, f) \/ PlanFile(w, f)
  \/ Download(w) \/ FileGone(w)
  \/ Validate(w) \/ Reject(w)
  \/ Archive(w)
  \/ ImportCheck(w) \/ ImportDate(w)
  \/ FilesDone(w) \/ RecordRun(w)

Failure(w) ==
  \/ ListingFails(w) \/ DownloadDamaged(w) \/ DownloadFails(w)
  \/ StepFails(w) \/ Abort(w)

Next ==
  \/ PressStep
  \/ TickStart
  \/ \E w \in Manual : ManualStart(w)
  \/ \E w \in Cli : CliStart(w) \/ CliCrash(w)
  \/ \E w \in Workers : Progress(w) \/ Failure(w)
  \/ ServiceCrash

Spec == Init /\ [][Next]_vars

-----------------------------------------------------------------------------
(* Safety.                                                                 *)

\* An imported day never loses records, and a day imported from its CSV never
\* changes again, whatever is downloaded afterwards, fails or crashes.
DayLedger == INSTANCE Ledger WITH rows <- jobs, kind <- syncLog
LedgerSpec == DayLedger!Spec

\* Mutant: the ACL is read last and replaces the CSV.
MutCsvWinsAlone(m, d) ==
  /\ archived[m][<<d, "CSV">>] # Absent
  /\ archived[m][<<d, "ACL">>] = Absent

\* What `reimport --rebuild` makes of a day on an empty database: _raw_files
\* reads the ACL first, and _validate_snapshot drops a CSV that is shorter.
CsvWins(m, d) ==
  /\ archived[m][<<d, "CSV">>] # Absent
  /\ archived[m][<<d, "ACL">>] # Absent =>
       archived[m][<<d, "CSV">>] >= archived[m][<<d, "ACL">>]

Rebuilt(m, d) ==
  IF CsvWins(m, d) THEN [kind |-> "CSV", rows |-> archived[m][<<d, "CSV">>]]
  ELSE IF archived[m][<<d, "ACL">>] # Absent
       THEN [kind |-> "ACL", rows |-> archived[m][<<d, "ACL">>]]
       ELSE [kind |-> "none", rows |-> 0]

\* The archive is a complete recovery source: at any moment, between any two
\* steps of a sync, a rebuild brings back every day with no record less than
\* the database holds (db.py reset_db, sync.py "a later reimport can repair this").
ArchiveCoversDatabase ==
  \A m \in Machines, d \in Days :
    syncLog[m][d] # "none" =>
      Rebuilt(m, d).kind # "none" /\ Rebuilt(m, d).rows >= jobs[m][d]

\* A rebuild does not reopen a final day (_raw_files: the CSV must win).
RebuildKeepsFinality ==
  \A m \in Machines, d \in Days :
    syncLog[m][d] = "CSV" => Rebuilt(m, d).kind = "CSV"

\* File f, or a later version of its day, is in the database.
Seen(m, f) ==
  /\ syncLog[m][f[1]] # "none"
  /\ f[2] = "CSV" => syncLog[m][f[1]] = "CSV"

\* A run recorded without an error has seen every dated file of its listing
\* into the database: no listed day is missing, no listed CSV left unimported.
CleanRunImportedAll ==
  \A w \in Workers :
    At(w, "record") /\ run[w].outcome = "clean" =>
      \A f \in run[w].listing \cap Files : Seen(Machine(w), f)

\* A final day holds every record of the CSV it was imported from: a download
\* that was cut short is never taken for the day (_validate_snapshot).
FinalIsComplete ==
  \A m \in Machines, d \in Days : syncLog[m][d] = "CSV" => jobs[m][d] = csv[m][d]

\* A snapshot in the archive is never overwritten by a shorter one: a partial
\* or an older download cannot overwrite the recovery source.
ArchiveNeverShrinks ==
  [][\A m \in Machines, f \in Files :
       archived[m][f] # Absent => archived'[m][f] >= archived[m][f]]_vars

\* A day imported from a CSV is final: no later ACL replaces its rows (_plan_action).
FinalStaysFinal ==
  [][\A m \in Machines, d \in Days :
       syncLog[m][d] = "CSV" => UNCHANGED <<syncLog[m][d], jobs[m][d]>>]_vars

-----------------------------------------------------------------------------
(* What every step relies on, and the proofs in SyncProofs establish.      *)

OfferedExists ==
  \A m \in Machines : \A f \in offered[m] : Content(m, f) \in Counts

Fetching == {"download", "validate", "archive", "check", "commit"}
Validated == {"archive", "check", "commit"}

LocalsOK(r) ==
  /\ IF r.pc = "idle" THEN r = Idle ELSE r.queue # <<>>
  /\ r.pc \in Fetching => r.file \in Files
  /\ r.pc = "validate" => r.body \in Bodies
  /\ r.pc \in Validated => r.body \in Counts

\* The locals of a worker agree with where it is.
TypeInv == TypeOK /\ OfferedExists /\ \A w \in Workers : LocalsOK(run[w])

\* A worker of the service runs under the lock.
LockHeld == \A w \in Service : run[w].pc # "idle" => lock = w

\* What the worker checked before still holds when it acts on it.
NothingStale(w) ==
  /\ run[w].pc \in Fetching => run[w].file \in Planned(Machine(w))
  /\ run[w].pc \in Validated => Accepted(Machine(w), Day(w), run[w].body)
  /\ run[w].pc \in {"check", "commit"} =>
       archived[Machine(w)][run[w].file] = run[w].body

\* The version a day was imported from is still in the archive, whole.
SourceKept ==
  \A m \in Machines, d \in Days :
    syncLog[m][d] # "none" => archived[m][<<d, syncLog[m][d]>>] \in jobs[m][d] .. MaxRows

\* It is all the database has.
SourceArchived ==
  /\ SourceKept
  /\ \A m \in Machines, d \in Days : syncLog[m][d] = "none" => jobs[m][d] = 0

\* A run without an error so far owes only the files it has yet to visit.
CleanSoFar(w) ==
  /\ run[w].outcome = "clean" =>
       \A f \in run[w].listing \cap Files :
         \/ f \in run[w].todo
         \/ run[w].pc \in Fetching /\ f = run[w].file
         \/ Seen(Machine(w), f)
  /\ At(w, "record") /\ run[w].outcome = "clean" => run[w].todo = {}

SyncInv ==
  /\ LockHeld
  /\ \A w \in Workers : NothingStale(w) /\ CleanSoFar(w)
  /\ SourceArchived

\* Without cuts on a line boundary a downloaded CSV is the whole CSV or visibly broken.
WholeOrBroken(w) ==
  run[w].pc \in {"validate"} \cup Validated /\ Ext(w) = "CSV" =>
    run[w].body \in {Broken, csv[Machine(w)][Day(w)]}

CompleteInv == (\A w \in Workers : WholeOrBroken(w)) /\ FinalIsComplete

\* A closed log holds at least the records of the running one.
PressOrder ==
  \A m \in Machines, d \in Days :
    csv[m][d] # Absent => acl[m][d] \in Counts /\ acl[m][d] <= csv[m][d]

\* n records are what press m served as file f at some time: all of the closed
\* log, or some first part of the running one.
VersionOf(m, f, n) ==
  /\ Content(m, f) \in Counts
  /\ n <= Content(m, f)
  /\ f[2] = "CSV" => n = Content(m, f)

SnapshotsOfPress ==
  \A m \in Machines, f \in Files :
    archived[m][f] # Absent => VersionOf(m, f, archived[m][f])

BodyOfPress(w) ==
  run[w].pc \in {"validate"} \cup Validated /\ run[w].body # Broken =>
    VersionOf(Machine(w), run[w].file, run[w].body)

\* Nothing is imported that is not in the archive.
ImportedIsArchived ==
  \A m \in Machines, d \in Days :
    syncLog[m][d] # "none" => archived[m][<<d, syncLog[m][d]>>] # Absent

CommitIsArchived(w) ==
  run[w].pc \in {"check", "commit"} => archived[Machine(w)][run[w].file] # Absent

SnapshotInv ==
  /\ PressOrder
  /\ SnapshotsOfPress
  /\ \A w \in Workers : BodyOfPress(w) /\ CommitIsArchived(w)
  /\ ImportedIsArchived

\* A download is at least as new as the snapshot it will replace.
NewerThanArchive(w) ==
  LET old == archived[Machine(w)][run[w].file] IN
  /\ run[w].pc \in {"validate", "archive"} /\ run[w].body # Broken /\ old # Absent =>
       run[w].body >= old
  /\ run[w].pc \in {"check", "commit"} => run[w].body = old

ArchiveInv == LockHeld /\ \A w \in Workers : NewerThanArchive(w)

-----------------------------------------------------------------------------
(* Liveness.  The event loop keeps firing the tick and a started sync runs  *)
(* on.  Failures, crashes, syncs from the command line and requests for a   *)
(* manual sync, which make a tick skip, are assumed to stop at some point,  *)
(* except that a press of Down may stay unreachable: the presses after it   *)
(* must not suffer.                                                         *)

DownFails(w) == ListingFails(w) /\ Machine(w) \in Down

Calm ==
  \/ PressStep
  \/ TickStart
  \/ \E w \in Workers : Progress(w) \/ DownFails(w)

FairSpec ==
  /\ Spec
  /\ WF_vars(TickStart)
  /\ \A w \in Workers : WF_vars(Progress(w) \/ DownFails(w))
  /\ <>[][Calm]_vars

Up == Machines \ Down

\* A file that an upright press keeps offering ends up in the database with
\* every record, whichever presses stay unreachable (sync_all).
EventuallyRecorded ==
  \A m \in Up : \A f \in Files :
    <>[](f \in offered[m]) =>
      <>[](/\ f \in offered[m]
           /\ syncLog[m][f[1]] # "none"
           /\ jobs[m][f[1]] >= Content(m, f))

\* A CSV that an upright press keeps offering makes its day final, for good.
EventuallyFinal ==
  \A m \in Up : \A d \in Days :
    <>[](<<d, "CSV">> \in offered[m]) => <>[](syncLog[m][d] = "CSV")

\* Nothing that failed fails forever: in the end every run of an upright press
\* is recorded without an error (no file is rejected on every run).
EventuallyClean == \A m \in Up : <>[](lastRun[m] = "clean")
=============================================================================
