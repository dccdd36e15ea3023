----------------------------- MODULE SyncProofs -----------------------------
(***************************************************************************)
(* Proofs about Sync, for any presses, days, workers and bounds.           *)
(***************************************************************************)
EXTENDS Sync, TLAPS, SequenceTheorems

-----------------------------------------------------------------------------
(* Types.                                                                  *)

LEMMA IdleType == Idle \in Run /\ LocalsOK(Idle)
<1>1. <<>> \in Seq(Machines)
  BY EmptySeq
<1> QED
  BY <1>1 DEF Idle, Run, Outcomes, LocalsOK, Fetching, Validated

LEMMA CountsFacts ==
  /\ 0 \in Counts
  /\ Absent \notin Counts /\ Broken \notin Counts
  /\ Counts \subseteq Int
BY MaxRowsAssumption, AbsentAssumption, ValuesAssumption DEF MaxRowsAssumption, AbsentAssumption, ValuesAssumption, Counts

LEMMA TypeInvInit == Init => TypeInv
<1> SUFFICES ASSUME Init PROVE TypeInv
  OBVIOUS
<1> USE IdleType, CountsFacts
<1>1. PressTypeOK
  BY DEF Init, PressInit, PressTypeOK
<1>2. TypeOK
  BY <1>1 DEF Init, TypeOK, Exts
<1>3. OfferedExists
  BY DEF Init, PressInit, OfferedExists
<1>4. ASSUME NEW w \in Workers PROVE LocalsOK(run[w])
  BY DEF Init
<1> QED
  BY <1>2, <1>3, <1>4 DEF TypeInv

\* A worker's locals change to a well-formed record, the shared state within its types.
LEMMA BecomeType ==
  ASSUME TypeInv, NEW w \in Workers, NEW r \in Run, LocalsOK(r), Become(w, r)
  PROVE  /\ run' \in [Workers -> Run]
         /\ \A v \in Workers : LocalsOK(run'[v])
BY DEF TypeInv, TypeOK, Become

LEMMA LocalStepType ==
  ASSUME TypeInv, NEW w \in Workers, NEW r \in Run, LocalsOK(r), LocalStep(w, r)
  PROVE  TypeInv'
<1>1. run' \in [Workers -> Run] /\ \A v \in Workers : LocalsOK(run'[v])
  BY BecomeType DEF LocalStep
<1>2. TypeOK'
  BY <1>1 DEF TypeInv, TypeOK, PressTypeOK, LocalStep, press, database
<1>3. OfferedExists'
  BY DEF TypeInv, OfferedExists, Content, LocalStep, press
<1> QED
  BY <1>1, <1>2, <1>3 DEF TypeInv

LEMMA Locals ==
  ASSUME TypeInv, NEW w \in Workers
  PROVE  /\ run[w] \in Run /\ LocalsOK(run[w])
         /\ run[w].pc # "idle" => Machine(w) \in Machines
         /\ run[w].pc \in Fetching =>
              run[w].file \in Files /\ Day(w) \in Days /\ Ext(w) \in Exts
BY DEF TypeInv, TypeOK, Machine, Run, LocalsOK, Day, Ext, Files

LEMMA LaunchType ==
  ASSUME TypeInv, NEW w \in Workers, NEW machines \in Requests
  PROVE  /\ [Idle EXCEPT !.pc = "listing", !.queue = machines] \in Run
         /\ LocalsOK([Idle EXCEPT !.pc = "listing", !.queue = machines])
<1>1. ASSUME NEW m \in Machines PROVE <<m>> \in Seq(Machines) /\ <<m>> # <<>>
  <2>1. <<m>> \in Seq(Machines) /\ Len(<<m>>) = 1
    OBVIOUS
  <2> QED
    BY <2>1
<1>2. machines \in Seq(Machines) /\ machines # <<>>
  BY <1>1, ConfigAssumption DEF ConfigAssumption, Requests
<1> QED
  BY <1>2, IdleType DEF Idle, Run, LocalsOK, Fetching, Validated

LEMMA GiveUpFileType ==
  ASSUME TypeInv, NEW w \in Workers, run[w].pc \in Fetching, GiveUpFile(w)
  PROVE  TypeInv'
<1> DEFINE r == [run[w] EXCEPT !.pc = "files", !.file = NoFile,
                               !.body = Absent, !.outcome = "errors"]
<1>1. r \in Run /\ LocalsOK(r)
  BY Locals DEF Run, LocalsOK, Fetching, Validated, Outcomes
<1> QED
  BY <1>1, LocalStepType DEF GiveUpFile

LEMMA ReceivedType ==
  ASSUME TypeInv, NEW w \in Workers, NEW body \in Bodies, Received(w, body)
  PROVE  TypeInv'
<1> DEFINE r == [run[w] EXCEPT !.pc = "validate", !.body = body]
<1>1. r \in Run /\ LocalsOK(r)
  BY Locals DEF Received, At, Run, LocalsOK, Fetching, Validated
<1> QED
  BY <1>1, LocalStepType DEF Received

LEMMA TypeInvPress ==
  ASSUME TypeInv, PressStep
  PROVE  TypeInv'
<1> USE DEF TypeInv, TypeOK, PressTypeOK, OfferedExists, Content
<1>1. PICK m \in Machines :
        \/ \E d \in Days : OpenDay(m, d) \/ AppendRecord(m, d) \/ Rotate(m, d)
        \/ \E f \in Files : Expire(m, f)
  BY DEF PressStep, PressNext
<1>2. UNCHANGED <<archived, jobs, syncLog, lastRun, lock, run>>
  BY DEF PressStep, database
<1>3. CASE \E d \in Days : OpenDay(m, d)
  <2>1. PICK d \in Days : OpenDay(m, d)
    BY <1>3
  <2>2. PressTypeOK' /\ OfferedExists'
    BY <2>1, CountsFacts DEF OpenDay, Files, Exts
  <2> QED
    BY <1>2, <2>2
<1>4. CASE \E d \in Days : AppendRecord(m, d)
  <2>1. PICK d \in Days : AppendRecord(m, d)
    BY <1>4
  <2>2. acl[m][d] + 1 \in Counts
    BY <2>1, MaxRowsAssumption DEF AppendRecord, Counts, MaxRowsAssumption
  <2>3. PressTypeOK' /\ OfferedExists'
    BY <2>1, <2>2 DEF AppendRecord, Files, Exts
  <2> QED
    BY <1>2, <2>3
<1>5. CASE \E d \in Days : Rotate(m, d)
  <2>1. PICK d \in Days : Rotate(m, d)
    BY <1>5
  <2>2. PICK n \in acl[m][d] .. MaxRows : csv' = [csv EXCEPT ![m][d] = n]
    BY <2>1 DEF Rotate
  <2>3. n \in Counts
    BY <2>1, <2>2, MaxRowsAssumption DEF Rotate, Counts, MaxRowsAssumption
  <2>4. PICK dropped \in SUBSET {<<d, "ACL">>} :
          offered' = [offered EXCEPT ![m] = (@ \ dropped) \cup {<<d, "CSV">>}]
    BY <2>1 DEF Rotate
  <2>5. PressTypeOK'
    BY <2>1, <2>2, <2>3, <2>4 DEF Rotate, Files, Exts
  <2>6. OfferedExists'
    BY <2>1, <2>2, <2>3, <2>4 DEF Rotate, Files, Exts
  <2> QED
    BY <1>2, <2>5, <2>6
<1>6. CASE \E f \in Files : Expire(m, f)
  BY <1>2, <1>6 DEF Expire
<1> QED
  BY <1>1, <1>3, <1>4, <1>5, <1>6

LEMMA TypeInvProgress ==
  ASSUME TypeInv, NEW w \in Workers, Progress(w)
  PROVE  TypeInv'
<1> USE Locals DEF At
<1>1. CASE FetchListing(w)
  <2>1. PICK undated \in SUBSET Undated :
          LET names == offered[Machine(w)] \cup undated IN
          LocalStep(w, [run[w] EXCEPT !.pc = "files", !.listing = names, !.todo = names])
    BY <1>1 DEF FetchListing
  <2> DEFINE names == offered[Machine(w)] \cup undated
             r == [run[w] EXCEPT !.pc = "files", !.listing = names, !.todo = names]
  <2>2. names \subseteq Files \cup Undated
    BY <1>1 DEF FetchListing, TypeInv, TypeOK, PressTypeOK
  <2>3. r \in Run /\ LocalsOK(r)
    BY <1>1, <2>2 DEF FetchListing, Run, LocalsOK, Fetching, Validated
  <2> QED
    BY <2>1, <2>3, LocalStepType
<1>2. ASSUME NEW f \in Files \cup Undated, SkipFile(w, f) PROVE TypeInv'
  <2> DEFINE r == [run[w] EXCEPT !.todo = @ \ {f}]
  <2>1. r \in Run /\ LocalsOK(r)
    BY <1>2 DEF SkipFile, Run, LocalsOK, Fetching, Validated
  <2> QED
    BY <1>2, <2>1, LocalStepType DEF SkipFile
<1>3. ASSUME NEW f \in Files \cup Undated, PlanFile(w, f) PROVE TypeInv'
  <2> DEFINE r == [run[w] EXCEPT !.pc = "download", !.file = f, !.todo = @ \ {f}]
  <2>1. f \in Files
    BY <1>3 DEF PlanFile, Planned
  <2>2. r \in Run /\ LocalsOK(r)
    BY <1>3, <2>1 DEF PlanFile, Run, LocalsOK, Fetching, Validated
  <2> QED
    BY <1>3, <2>2, LocalStepType DEF PlanFile
<1>4. CASE Download(w)
  <2>1. Content(Machine(w), run[w].file) \in Bodies
    BY <1>4 DEF Download, Received, TypeInv, OfferedExists, Bodies
  <2> QED
    BY <1>4, <2>1, ReceivedType DEF Download
<1>5. CASE FileGone(w)
  BY <1>5, GiveUpFileType DEF FileGone, DownloadFails, Fetching
<1>6. CASE Validate(w)
  <2> DEFINE r == [run[w] EXCEPT !.pc = "archive"]
  <2>1. r \in Run /\ LocalsOK(r)
    BY <1>6 DEF Validate, CheckedStep, Accepted, Bodies, Run, LocalsOK, Fetching, Validated
  <2> QED
    BY <1>6, <2>1, LocalStepType DEF Validate, CheckedStep
<1>7. CASE Reject(w)
  BY <1>7, GiveUpFileType DEF Reject, Fetching
<1>8. CASE Archive(w)
  <2> DEFINE r == [run[w] EXCEPT !.pc = "check"]
  <2>1. r \in Run /\ LocalsOK(r)
    BY <1>8 DEF Archive, Run, LocalsOK, Fetching, Validated
  <2>2. run' \in [Workers -> Run] /\ \A v \in Workers : LocalsOK(run'[v])
    BY <1>8, <2>1, BecomeType DEF Archive
  <2>3. run[w].body \in Counts
    BY <1>8 DEF Archive, LocalsOK, Validated
  <2>4. archived' \in [Machines -> [Files -> Counts \cup {Absent}]]
    BY <1>8, <2>3 DEF Archive, TypeInv, TypeOK
  <2>5. TypeOK'
    BY <1>8, <2>2, <2>4 DEF Archive, TypeInv, TypeOK, PressTypeOK, press, database
  <2>6. OfferedExists'
    BY <1>8 DEF Archive, TypeInv, OfferedExists, Content, press
  <2> QED
    BY <2>2, <2>5, <2>6 DEF TypeInv
<1>9. CASE ImportCheck(w)
  <2> DEFINE r == [run[w] EXCEPT !.pc = "commit"]
  <2>1. r \in Run /\ LocalsOK(r)
    BY <1>9 DEF ImportCheck, CheckedStep, Run, LocalsOK, Fetching, Validated
  <2> QED
    BY <1>9, <2>1, LocalStepType DEF ImportCheck, CheckedStep
<1>10. CASE ImportDate(w)
  <2> DEFINE r == [run[w] EXCEPT !.pc = "files", !.file = NoFile, !.body = Absent]
  <2>1. r \in Run /\ LocalsOK(r)
    BY <1>10 DEF ImportDate, Run, LocalsOK, Fetching, Validated
  <2>2. run' \in [Workers -> Run] /\ \A v \in Workers : LocalsOK(run'[v])
    BY <1>10, <2>1, BecomeType DEF ImportDate
  <2>3. run[w].body \in Counts /\ Ext(w) \in Exts
    BY <1>10 DEF ImportDate, LocalsOK, Validated, Fetching
  <2>4. /\ jobs' \in [Machines -> [Days -> Counts]]
        /\ syncLog' \in [Machines -> [Days -> {"none"} \cup Exts]]
    BY <1>10, <2>3 DEF ImportDate, TypeInv, TypeOK
  <2>5. TypeOK'
    BY <1>10, <2>2, <2>4 DEF ImportDate, TypeInv, TypeOK, PressTypeOK, press
  <2>6. OfferedExists'
    BY <1>10 DEF ImportDate, TypeInv, OfferedExists, Content, press
  <2> QED
    BY <2>2, <2>5, <2>6 DEF TypeInv
<1>11. CASE FilesDone(w)
  <2> DEFINE r == [run[w] EXCEPT !.pc = "record"]
  <2>1. r \in Run /\ LocalsOK(r)
    BY <1>11 DEF FilesDone, Run, LocalsOK, Fetching, Validated
  <2> QED
    BY <1>11, <2>1, LocalStepType DEF FilesDone
<1>12. CASE RecordRun(w)
  <2> DEFINE rest == Tail(run[w].queue)
             r == [Idle EXCEPT !.pc = "listing", !.queue = rest]
  <2>1. rest \in Seq(Machines)
    BY <1>12 DEF RecordRun, Run, LocalsOK
  <2>2. rest # <<>> => r \in Run /\ LocalsOK(r)
    BY <2>1, IdleType DEF Idle, Run, LocalsOK, Fetching, Validated
  <2>3. run' \in [Workers -> Run] /\ \A v \in Workers : LocalsOK(run'[v])
    BY <1>12, <2>2, IdleType, BecomeType DEF RecordRun
  <2>4. lastRun' \in [Machines -> {"never"} \cup Outcomes]
    BY <1>12 DEF RecordRun, TypeInv, TypeOK, Run
  <2>5. lock' \in Service \cup {Free}
    BY <1>12 DEF RecordRun, Release, TypeInv, TypeOK
  <2>6. TypeOK'
    BY <1>12, <2>3, <2>4, <2>5 DEF RecordRun, TypeInv, TypeOK, PressTypeOK, press, database
  <2>7. OfferedExists'
    BY <1>12 DEF RecordRun, TypeInv, OfferedExists, Content, press
  <2> QED
    BY <2>3, <2>6, <2>7 DEF TypeInv
<1> QED
  BY <1>1, <1>2, <1>3, <1>4, <1>5, <1>6, <1>7, <1>8, <1>9, <1>10, <1>11, <1>12
     DEF Progress

LEMMA TypeInvFailure ==
  ASSUME TypeInv, NEW w \in Workers, Failure(w)
  PROVE  TypeInv'
<1> USE Locals DEF At
<1>1. CASE ListingFails(w)
  <2> DEFINE r == [run[w] EXCEPT !.pc = "record", !.outcome = "unreachable"]
  <2>1. r \in Run /\ LocalsOK(r)
    BY <1>1 DEF ListingFails, Run, LocalsOK, Fetching, Validated, Outcomes
  <2> QED
    BY <1>1, <2>1, LocalStepType DEF ListingFails
<1>2. CASE DownloadDamaged(w)
  BY <1>2, ReceivedType DEF DownloadDamaged, Bodies
<1>3. CASE DownloadFails(w)
  BY <1>3, GiveUpFileType DEF DownloadFails, Fetching
<1>4. CASE StepFails(w)
  BY <1>4, GiveUpFileType DEF StepFails, Fetching
<1>5. CASE Abort(w)
  <2>1. run' \in [Workers -> Run] /\ \A v \in Workers : LocalsOK(run'[v])
    BY <1>5, IdleType, BecomeType DEF Abort
  <2>2. TypeOK'
    BY <1>5, <2>1 DEF Abort, Release, TypeInv, TypeOK, PressTypeOK, press, database
  <2>3. OfferedExists'
    BY <1>5 DEF Abort, TypeInv, OfferedExists, Content, press
  <2> QED
    BY <2>1, <2>2, <2>3 DEF TypeInv
<1> QED
  BY <1>1, <1>2, <1>3, <1>4, <1>5 DEF Failure

LEMMA TypeInvLaunch ==
  ASSUME TypeInv, NEW w \in Workers, NEW machines \in Requests,
         Launch(w, machines), lock' \in Service \cup {Free}
  PROVE  TypeInv'
<1>1. run' \in [Workers -> Run] /\ \A v \in Workers : LocalsOK(run'[v])
  BY LaunchType, BecomeType DEF Launch
<1>2. TypeOK'
  BY <1>1 DEF Launch, TypeInv, TypeOK, PressTypeOK, press, database
<1>3. OfferedExists'
  BY DEF Launch, TypeInv, OfferedExists, Content, press
<1> QED
  BY <1>1, <1>2, <1>3 DEF TypeInv

LEMMA TypeInvNext == TypeInv /\ [Next]_vars => TypeInv'
<1> SUFFICES ASSUME TypeInv, [Next]_vars PROVE TypeInv'
  OBVIOUS
<1> USE DEF Workers, Service
<1>1. CASE PressStep
  BY <1>1, TypeInvPress
<1>2. CASE TickStart
  BY <1>2, TypeInvLaunch DEF TickStart, RunSyncOnce, Requests
<1>3. ASSUME NEW w \in Manual, ManualStart(w) PROVE TypeInv'
  BY <1>3, TypeInvLaunch DEF ManualStart, RunSyncOnce
<1>4. ASSUME NEW w \in Cli, CliStart(w) PROVE TypeInv'
  BY <1>4, TypeInvLaunch DEF CliStart, TypeInv, TypeOK
<1>5. ASSUME NEW w \in Cli, CliCrash(w) PROVE TypeInv'
  BY <1>5, LocalStepType, IdleType DEF CliCrash
<1>6. ASSUME NEW w \in Workers, Progress(w) \/ Failure(w) PROVE TypeInv'
  BY <1>6, TypeInvProgress, TypeInvFailure
<1>7. CASE ServiceCrash
  <2>1. run' \in [Workers -> Run] /\ \A v \in Workers : LocalsOK(run'[v])
    BY <1>7, IdleType DEF ServiceCrash, TypeInv, TypeOK
  <2>2. TypeOK'
    BY <1>7, <2>1 DEF ServiceCrash, TypeInv, TypeOK, PressTypeOK, press, database
  <2>3. OfferedExists'
    BY <1>7 DEF ServiceCrash, TypeInv, OfferedExists, Content, press
  <2> QED
    BY <2>1, <2>2, <2>3 DEF TypeInv
<1>8. CASE UNCHANGED vars
  BY <1>8 DEF vars, press, database, TypeInv, TypeOK, PressTypeOK, OfferedExists, Content
<1> QED
  BY <1>1, <1>2, <1>3, <1>4, <1>5, <1>6, <1>7, <1>8 DEF Next

\* Every variable keeps its type, and the locals of a worker agree with where
\* it is, whoever runs a sync: in particular only a validated body, never a
\* damaged one, reaches the archive (sync(), pressledger/sync.py).
THEOREM TypeCorrect == Spec => []TypeInv
BY TypeInvInit, TypeInvNext, PTL DEF Spec

-----------------------------------------------------------------------------
(* Syncs of the service alone: with no sync from the command line, nothing *)
(* a worker has read changes before it acts on it.                         *)

LEMMA SyncInvInit == Init => SyncInv
<1> SUFFICES ASSUME Init PROVE SyncInv
  OBVIOUS
<1>1. \A w \in Workers : run[w] = Idle
  BY DEF Init
<1>2. LockHeld
  BY <1>1 DEF LockHeld, Workers, Idle
<1>3. ASSUME NEW w \in Workers PROVE NothingStale(w) /\ CleanSoFar(w)
  BY <1>1 DEF NothingStale, CleanSoFar, Idle, Fetching, Validated, At
<1>4. SourceArchived
  BY DEF Init, SourceArchived, SourceKept
<1> QED
  BY <1>2, <1>3, <1>4 DEF SyncInv

LEMMA OthersIdle ==
  ASSUME TypeInv, LockHeld, Cli = {},
         NEW w \in Workers, run[w].pc # "idle",
         NEW v \in Workers \ {w}
  PROVE  run[v] = Idle
BY DEF LockHeld, Workers, TypeInv, LocalsOK

\* A step of the one worker that runs: what remains to show is about it alone.
LEMMA OneWorkerStep ==
  ASSUME TypeInv, SyncInv, Cli = {},
         NEW w \in Workers, run[w].pc # "idle",
         NEW r, Become(w, r),
         lock' = lock \/ (r = Idle /\ Release(w)),
         NothingStale(w)', CleanSoFar(w)', SourceArchived'
  PROVE  SyncInv'
<1>1. run'[w] = r /\ \A v \in Workers \ {w} : run'[v] = Idle
  BY OthersIdle DEF Become, SyncInv, TypeInv, TypeOK
<1>2. lock = w
  BY DEF SyncInv, LockHeld, Workers
<1>3. LockHeld'
  BY <1>1, <1>2 DEF LockHeld, Workers, Idle
<1>4. ASSUME NEW v \in Workers PROVE NothingStale(v)' /\ CleanSoFar(v)'
  BY <1>1 DEF NothingStale, CleanSoFar, Idle, Fetching, Validated, At
<1> QED
  BY <1>3, <1>4 DEF SyncInv

LEMMA SyncInvLocalStep ==
  ASSUME TypeInv, SyncInv, Cli = {},
         NEW w \in Workers, run[w].pc # "idle",
         NEW r, LocalStep(w, r), NothingStale(w)', CleanSoFar(w)'
  PROVE  SyncInv'
<1>1. SourceArchived'
  BY DEF SyncInv, SourceArchived, SourceKept, LocalStep, database
<1> QED
  BY <1>1, OneWorkerStep DEF LocalStep

\* A worker that ends leaves nothing behind that the invariant speaks of.
LEMMA SyncInvEnd ==
  ASSUME TypeInv, SyncInv, Cli = {}, NEW w \in Workers, run[w].pc # "idle",
         Become(w, Idle), Release(w), UNCHANGED <<archived, database>>
  PROVE  SyncInv'
<1>1. run'[w] = Idle
  BY DEF Become, TypeInv, TypeOK
<1>2. NothingStale(w)' /\ CleanSoFar(w)'
  BY <1>1 DEF NothingStale, CleanSoFar, Idle, Fetching, Validated, At
<1>3. SourceArchived'
  BY DEF SyncInv, SourceArchived, SourceKept, database
<1> QED
  BY <1>1, <1>2, <1>3, OneWorkerStep

LEMMA SyncInvGiveUpFile ==
  ASSUME TypeInv, SyncInv, Cli = {},
         NEW w \in Workers, run[w].pc \in Fetching, GiveUpFile(w)
  PROVE  SyncInv'
<1>1. run'[w].pc = "files" /\ run'[w].outcome = "errors"
  BY Locals DEF GiveUpFile, LocalStep, Become, TypeInv, TypeOK, Run
<1>2. NothingStale(w)' /\ CleanSoFar(w)'
  BY <1>1 DEF NothingStale, CleanSoFar, Fetching, Validated, At
<1>3. run[w].pc # "idle"
  BY DEF Fetching
<1> QED
  BY <1>2, <1>3, SyncInvLocalStep DEF GiveUpFile

LEMMA SyncInvReceived ==
  ASSUME TypeInv, SyncInv, Cli = {},
         NEW w \in Workers, NEW body, Received(w, body)
  PROVE  SyncInv'
<1>1. /\ run'[w] = [run[w] EXCEPT !.pc = "validate", !.body = body]
      /\ run[w] \in Run /\ run[w].pc = "download"
      /\ UNCHANGED database
  BY Locals DEF Received, LocalStep, Become, TypeInv, TypeOK, At
<1>2. NothingStale(w) /\ CleanSoFar(w)
  BY DEF SyncInv
<1>3. NothingStale(w)' /\ CleanSoFar(w)'
  BY <1>1, <1>2 DEF NothingStale, CleanSoFar, Fetching, Validated, At, Run, Machine,
     Planned, Seen, database
<1> QED
  BY <1>1, <1>3, SyncInvLocalStep DEF Received

LEMMA SyncInvArchive ==
  ASSUME TypeInv, SyncInv, Cli = {}, NEW w \in Workers, Archive(w)
  PROVE  SyncInv'
<1> DEFINE m == Machine(w)
           f == run[w].file
<1>1. /\ run'[w] = [run[w] EXCEPT !.pc = "check"]
      /\ run[w] \in Run /\ run[w].pc = "archive" /\ run[w].body \in Counts
      /\ m \in Machines /\ f \in Files
      /\ UNCHANGED <<jobs, syncLog>>
  BY Locals DEF Archive, Become, TypeInv, TypeOK, At, LocalsOK, Fetching, Validated, database
<1>2. archived'[m][f] = run[w].body
  BY <1>1 DEF Archive, TypeInv, TypeOK
<1>3. NothingStale(w) /\ CleanSoFar(w)
  BY DEF SyncInv
<1>4. NothingStale(w)'
  BY <1>1, <1>2, <1>3 DEF NothingStale, Fetching, Validated, Run, Machine, Day, Planned, Accepted
<1>5. CleanSoFar(w)'
  BY <1>1, <1>3 DEF CleanSoFar, Fetching, At, Run, Machine, Seen
<1>6. SourceArchived'
  <2> SUFFICES ASSUME NEW n \in Machines, NEW d \in Days
               PROVE  IF syncLog[n][d] = "none" THEN jobs[n][d] = 0
                      ELSE archived'[n][<<d, syncLog[n][d]>>] \in jobs[n][d] .. MaxRows
    BY <1>1 DEF SourceArchived, SourceKept
  <2>1. IF syncLog[n][d] = "none" THEN jobs[n][d] = 0
        ELSE archived[n][<<d, syncLog[n][d]>>] \in jobs[n][d] .. MaxRows
    BY DEF SyncInv, SourceArchived, SourceKept
  <2>2. CASE n = m /\ f = <<d, syncLog[n][d]>>
    <3>1. run[w].body >= jobs[n][d]
      BY <1>1, <1>3, <2>2 DEF NothingStale, Validated, Accepted, Day
    <3>2. run[w].body \in jobs[n][d] .. MaxRows
      BY <1>1, <3>1, MaxRowsAssumption DEF Counts, MaxRowsAssumption, TypeInv, TypeOK
    <3> QED
      BY <1>2, <2>1, <2>2, <3>2
  <2>3. CASE ~(n = m /\ f = <<d, syncLog[n][d]>>)
    <3>1. syncLog[n][d] # "none" => <<d, syncLog[n][d]>> \in Files
      BY DEF TypeInv, TypeOK, Files
    <3>2. syncLog[n][d] # "none" =>
            archived'[n][<<d, syncLog[n][d]>>] = archived[n][<<d, syncLog[n][d]>>]
      BY <1>1, <2>3, <3>1 DEF Archive, TypeInv, TypeOK
    <3> QED
      BY <2>1, <3>2
  <2> QED
    BY <2>2, <2>3
<1> QED
  BY <1>1, <1>4, <1>5, <1>6, OneWorkerStep DEF Archive

LEMMA SyncInvImportDate ==
  ASSUME TypeInv, SyncInv, Cli = {}, NEW w \in Workers, ImportDate(w)
  PROVE  SyncInv'
<1> DEFINE m == Machine(w)
           f == run[w].file
           d == Day(w)
           e == Ext(w)
<1>1. /\ run'[w] = [run[w] EXCEPT !.pc = "files", !.file = NoFile, !.body = Absent]
      /\ run[w] \in Run /\ run[w].pc = "commit" /\ run[w].body \in Counts
      /\ m \in Machines /\ f \in Files /\ d \in Days /\ e \in Exts
      /\ UNCHANGED archived
  BY Locals DEF ImportDate, Become, TypeInv, TypeOK, At, LocalsOK, Fetching, Validated
<1>2. /\ jobs' = [jobs EXCEPT ![m][d] = run[w].body]
      /\ syncLog' = [syncLog EXCEPT ![m][d] = e]
  BY DEF ImportDate
<1>3. f = <<d, e>>
  BY <1>1 DEF Files, Day, Ext
<1>4. syncLog[m][d] # "CSV" /\ archived[m][f] = run[w].body
  BY <1>1 DEF SyncInv, NothingStale, Fetching, Planned, Day
<1>5. NothingStale(w)'
  BY <1>1 DEF NothingStale, Fetching, Validated, Run
<1>6. CleanSoFar(w)'
  <2>1. /\ run'[w].outcome = run[w].outcome /\ run'[w].listing = run[w].listing
        /\ run'[w].todo = run[w].todo /\ Machine(w)' = m /\ run'[w].pc = "files"
    BY <1>1 DEF Run, Machine
  <2>2. syncLog'[m] = [syncLog[m] EXCEPT ![d] = e]
    BY <1>1, <1>2 DEF TypeInv, TypeOK
  <2>3. syncLog[m] \in [Days -> {"none"} \cup Exts]
    BY <1>1 DEF TypeInv, TypeOK
  <2>4. syncLog'[m][d] = e /\ \A c \in Days \ {d} : syncLog'[m][c] = syncLog[m][c]
    BY <1>1, <2>2, <2>3
  <2>5. f[1] = d /\ f[2] = e
    BY DEF Day, Ext
  <2>6. /\ syncLog'[m][f[1]] # "none"
        /\ f[2] = "CSV" => syncLog'[m][f[1]] = "CSV"
    BY <1>1, <2>4, <2>5 DEF Exts
  <2>7. ASSUME NEW g \in Files, Seen(m, g)
        PROVE  /\ syncLog'[m][g[1]] # "none"
               /\ g[2] = "CSV" => syncLog'[m][g[1]] = "CSV"
    <3>1. g[1] \in Days
      BY DEF Files
    <3>2. CASE g[1] = d
      BY <1>1, <1>4, <2>4, <2>7, <3>2 DEF Seen, Exts
    <3>3. CASE g[1] # d
      BY <2>4, <2>7, <3>1, <3>3 DEF Seen
    <3> QED
      BY <3>2, <3>3
  <2>8. CleanSoFar(w)
    BY DEF SyncInv
  <2> QED
    BY <2>1, <2>6, <2>7, <2>8 DEF CleanSoFar, At, Seen
<1>7. SourceArchived'
  <2> SUFFICES ASSUME NEW n \in Machines, NEW c \in Days
               PROVE  IF syncLog'[n][c] = "none" THEN jobs'[n][c] = 0
                      ELSE archived[n][<<c, syncLog'[n][c]>>] \in jobs'[n][c] .. MaxRows
    BY <1>1 DEF SourceArchived, SourceKept
  <2>1. CASE n = m /\ c = d
    <3>1. syncLog'[n][c] = e /\ jobs'[n][c] = run[w].body
      BY <1>1, <1>2, <2>1 DEF TypeInv, TypeOK
    <3>2. run[w].body \in run[w].body .. MaxRows
      BY <1>1, MaxRowsAssumption DEF Counts, MaxRowsAssumption
    <3> QED
      BY <1>1, <1>3, <1>4, <2>1, <3>1, <3>2 DEF Exts
  <2>2. CASE ~(n = m /\ c = d)
    <3>1. syncLog'[n][c] = syncLog[n][c] /\ jobs'[n][c] = jobs[n][c]
      BY <1>1, <1>2, <2>2 DEF TypeInv, TypeOK
    <3> QED
      BY <3>1 DEF SyncInv, SourceArchived, SourceKept
  <2> QED
    BY <2>1, <2>2
<1> QED
  BY <1>1, <1>5, <1>6, <1>7, OneWorkerStep DEF ImportDate

LEMMA SyncInvRecordRun ==
  ASSUME TypeInv, SyncInv, Cli = {}, NEW w \in Workers, RecordRun(w)
  PROVE  SyncInv'
<1> DEFINE rest == Tail(run[w].queue)
           r == [Idle EXCEPT !.pc = "listing", !.queue = rest]
<1>1. run[w].pc # "idle" /\ UNCHANGED <<archived, database>>
  BY DEF RecordRun, At
<1>2. CASE rest = <<>>
  BY <1>1, <1>2, SyncInvEnd DEF RecordRun
<1>3. CASE rest # <<>>
  <2>1. Become(w, r) /\ lock' = lock
    BY <1>3 DEF RecordRun
  <2>2. run'[w].pc = "listing" /\ run'[w].listing = {}
    BY <2>1 DEF Become, TypeInv, TypeOK, Idle
  <2>3. NothingStale(w)' /\ CleanSoFar(w)'
    BY <2>2 DEF NothingStale, CleanSoFar, Fetching, Validated, At
  <2>4. SourceArchived'
    BY <1>1 DEF SyncInv, SourceArchived, SourceKept, database
  <2> QED
    BY <1>1, <2>1, <2>3, <2>4, OneWorkerStep
<1> QED
  BY <1>2, <1>3

LEMMA SyncInvProgress ==
  ASSUME TypeInv, SyncInv, Cli = {}, NEW w \in Workers, Progress(w)
  PROVE  SyncInv'
<1> USE DEF At
<1>1. run[w] \in Run /\ NothingStale(w) /\ CleanSoFar(w)
  BY Locals DEF SyncInv
<1>2. CASE FetchListing(w)
  <2>1. PICK undated \in SUBSET Undated :
          LET names == offered[Machine(w)] \cup undated IN
          LocalStep(w, [run[w] EXCEPT !.pc = "files", !.listing = names, !.todo = names])
    BY <1>2 DEF FetchListing
  <2> DEFINE names == offered[Machine(w)] \cup undated
             r == [run[w] EXCEPT !.pc = "files", !.listing = names, !.todo = names]
  <2>2. run'[w] = r
    BY <2>1 DEF LocalStep, Become, TypeInv, TypeOK
  <2>3. run'[w].pc = "files" /\ run'[w].listing = run'[w].todo
    BY <1>1, <2>2 DEF Run
  <2>4. NothingStale(w)' /\ CleanSoFar(w)'
    BY <2>3 DEF NothingStale, CleanSoFar, Fetching, Validated
  <2>5. run[w].pc # "idle"
    BY <1>2 DEF FetchListing
  <2> QED
    BY <2>1, <2>4, <2>5, SyncInvLocalStep
<1>3. ASSUME NEW f \in Files \cup Undated, SkipFile(w, f) PROVE SyncInv'
  <2> DEFINE r == [run[w] EXCEPT !.todo = @ \ {f}]
  <2>1. run'[w] = r /\ UNCHANGED <<syncLog>>
    BY <1>3 DEF SkipFile, LocalStep, Become, TypeInv, TypeOK, database
  <2>2. f \in Files => Seen(Machine(w), f)
    BY <1>3 DEF SkipFile, Planned, Seen
  <2>3. NothingStale(w)' /\ CleanSoFar(w)'
    BY <1>1, <1>3, <2>1, <2>2 DEF SkipFile, NothingStale, CleanSoFar, Fetching, Validated,
       Run, Machine, Seen
  <2>4. run[w].pc # "idle"
    BY <1>3 DEF SkipFile
  <2> QED
    BY <1>3, <2>3, <2>4, SyncInvLocalStep DEF SkipFile
<1>4. ASSUME NEW f \in Files \cup Undated, PlanFile(w, f) PROVE SyncInv'
  <2> DEFINE r == [run[w] EXCEPT !.pc = "download", !.file = f, !.todo = @ \ {f}]
  <2>1. run'[w] = r /\ UNCHANGED <<syncLog>>
    BY <1>4 DEF PlanFile, LocalStep, Become, TypeInv, TypeOK, database
  <2>2. NothingStale(w)' /\ CleanSoFar(w)'
    BY <1>1, <1>4, <2>1 DEF PlanFile, NothingStale, CleanSoFar, Fetching, Validated,
       Run, Machine, Seen, Planned
  <2>3. run[w].pc # "idle"
    BY <1>4 DEF PlanFile
  <2> QED
    BY <1>4, <2>2, <2>3, SyncInvLocalStep DEF PlanFile
<1>5. CASE Download(w)
  BY <1>5, SyncInvReceived DEF Download
<1>6. CASE FileGone(w)
  BY <1>6, SyncInvGiveUpFile DEF FileGone, DownloadFails, Fetching
<1>7. ASSUME NEW from, NEW to,
             <<from, to>> \in {<<"validate", "archive">>, <<"check", "commit">>},
             CheckedStep(w, from, to)
      PROVE  SyncInv'
  <2>1. /\ run'[w] = [run[w] EXCEPT !.pc = to] /\ run[w].pc = from
        /\ Accepted(Machine(w), Day(w), run[w].body)
        /\ UNCHANGED <<archived, jobs, syncLog>>
    BY <1>7 DEF CheckedStep, LocalStep, Become, TypeInv, TypeOK, database
  <2>2. NothingStale(w)' /\ CleanSoFar(w)'
    BY <1>1, <1>7, <2>1 DEF NothingStale, CleanSoFar, Fetching, Validated,
       Run, Machine, Day, Seen, Planned, Accepted
  <2>3. run[w].pc # "idle"
    BY <1>7, <2>1
  <2> QED
    BY <1>7, <2>2, <2>3, SyncInvLocalStep DEF CheckedStep
<1>8. CASE Reject(w)
  BY <1>8, SyncInvGiveUpFile DEF Reject, Fetching
<1>9. CASE FilesDone(w)
  <2>1. /\ run'[w] = [run[w] EXCEPT !.pc = "record"]
        /\ run[w].pc = "files" /\ run[w].todo = {}
        /\ UNCHANGED <<syncLog>>
    BY <1>9 DEF FilesDone, LocalStep, Become, TypeInv, TypeOK, database
  <2>2. NothingStale(w)' /\ CleanSoFar(w)'
    BY <1>1, <2>1 DEF NothingStale, CleanSoFar, Fetching, Validated, Run, Machine, Seen
  <2> QED
    BY <1>9, <2>1, <2>2, SyncInvLocalStep DEF FilesDone
<1> QED
  BY <1>2, <1>3, <1>4, <1>5, <1>6, <1>7, <1>8, <1>9,
     SyncInvArchive, SyncInvImportDate, SyncInvRecordRun
     DEF Progress, Validate, ImportCheck

LEMMA SyncInvFailure ==
  ASSUME TypeInv, SyncInv, Cli = {}, NEW w \in Workers, Failure(w)
  PROVE  SyncInv'
<1> USE DEF At
<1>1. CASE ListingFails(w)
  <2>1. run'[w].pc = "record" /\ run'[w].outcome = "unreachable" /\ run[w].pc # "idle"
    BY <1>1, Locals DEF ListingFails, LocalStep, Become, TypeInv, TypeOK, Run
  <2>2. NothingStale(w)' /\ CleanSoFar(w)'
    BY <2>1 DEF NothingStale, CleanSoFar, Fetching, Validated
  <2> QED
    BY <1>1, <2>1, <2>2, SyncInvLocalStep DEF ListingFails
<1>2. CASE DownloadDamaged(w)
  BY <1>2, SyncInvReceived DEF DownloadDamaged
<1>3. CASE DownloadFails(w)
  BY <1>3, SyncInvGiveUpFile DEF DownloadFails, Fetching
<1>4. CASE StepFails(w)
  BY <1>4, SyncInvGiveUpFile DEF StepFails, Fetching
<1>5. CASE Abort(w)
  BY <1>5, SyncInvEnd DEF Abort
<1> QED
  BY <1>1, <1>2, <1>3, <1>4, <1>5 DEF Failure

LEMMA SyncInvStart ==
  ASSUME TypeInv, SyncInv, Cli = {},
         NEW w \in Service, NEW machines, RunSyncOnce(w, machines)
  PROVE  SyncInv'
<1>1. \A v \in Workers : run[v] = Idle
  BY WorkersAssumption DEF WorkersAssumption, RunSyncOnce, SyncInv, LockHeld, Workers,
     TypeInv, LocalsOK
<1>2. /\ run'[w].pc = "listing" /\ run'[w].listing = {}
      /\ \A v \in Workers \ {w} : run'[v] = Idle
  BY <1>1 DEF RunSyncOnce, Launch, Become, TypeInv, TypeOK, Workers, Idle
<1>3. LockHeld'
  BY <1>2 DEF LockHeld, RunSyncOnce, Workers, Idle
<1>4. ASSUME NEW v \in Workers PROVE NothingStale(v)' /\ CleanSoFar(v)'
  BY <1>2 DEF NothingStale, CleanSoFar, Idle, Fetching, Validated, At
<1>5. SourceArchived'
  BY DEF SyncInv, SourceArchived, SourceKept, RunSyncOnce, Launch, database
<1> QED
  BY <1>3, <1>4, <1>5 DEF SyncInv

LEMMA SyncInvFrame ==
  ASSUME SyncInv, UNCHANGED <<archived, database, lock, run>>
  PROVE  SyncInv'
BY DEF SyncInv, LockHeld, NothingStale, CleanSoFar, SourceArchived, SourceKept, database,
   At, Machine, Day, Planned, Accepted, Seen

LEMMA SyncInvNext == Cli = {} /\ TypeInv /\ SyncInv /\ [Next]_vars => SyncInv'
<1> SUFFICES ASSUME Cli = {}, TypeInv, SyncInv, [Next]_vars PROVE SyncInv'
  OBVIOUS
<1>1. CASE PressStep
  BY <1>1, SyncInvFrame DEF PressStep
<1>2. CASE TickStart
  BY <1>2, SyncInvStart DEF TickStart, Service
<1>3. ASSUME NEW w \in Manual, ManualStart(w) PROVE SyncInv'
  BY <1>3, SyncInvStart DEF ManualStart, Service
<1>4. ASSUME NEW w \in Workers, Progress(w) \/ Failure(w) PROVE SyncInv'
  BY <1>4, SyncInvProgress, SyncInvFailure
<1>5. CASE ServiceCrash
  <2>1. \A v \in Workers : run'[v] = Idle
    BY <1>5 DEF ServiceCrash, Workers
  <2>2. LockHeld'
    BY <2>1 DEF LockHeld, Workers, Idle
  <2>3. ASSUME NEW v \in Workers PROVE NothingStale(v)' /\ CleanSoFar(v)'
    BY <2>1 DEF NothingStale, CleanSoFar, Idle, Fetching, Validated, At
  <2>4. SourceArchived'
    BY <1>5 DEF SyncInv, SourceArchived, SourceKept, ServiceCrash, database
  <2> QED
    BY <2>2, <2>3, <2>4 DEF SyncInv
<1>6. CASE UNCHANGED vars
  BY <1>6, SyncInvFrame DEF vars
<1> QED
  BY <1>1, <1>2, <1>3, <1>4, <1>5, <1>6 DEF Next

LEMMA ServiceInvariant == ASSUME Cli = {} PROVE Spec => [](TypeInv /\ SyncInv)
<1>1. Init => TypeInv /\ SyncInv
  BY TypeInvInit, SyncInvInit
<1>2. TypeInv /\ SyncInv /\ [Next]_vars => (TypeInv /\ SyncInv)'
  BY TypeInvNext, SyncInvNext
<1> QED
  BY <1>1, <1>2, PTL DEF Spec

LEMMA SourceKeptCovers ==
  ASSUME TypeInv, SourceKept
  PROVE  ArchiveCoversDatabase
<1> SUFFICES ASSUME NEW m \in Machines, NEW d \in Days, syncLog[m][d] # "none"
             PROVE  Rebuilt(m, d).kind # "none" /\ Rebuilt(m, d).rows >= jobs[m][d]
  BY DEF ArchiveCoversDatabase
<1>1. /\ syncLog[m][d] \in Exts /\ jobs[m][d] \in Counts
      /\ archived[m][<<d, "ACL">>] \in Counts \cup {Absent}
      /\ archived[m][<<d, "CSV">>] \in Counts \cup {Absent}
  BY DEF TypeInv, TypeOK, Files, Exts
<1>2. archived[m][<<d, syncLog[m][d]>>] \in jobs[m][d] .. MaxRows
  BY DEF SourceKept
<1>3. /\ archived[m][<<d, syncLog[m][d]>>] # Absent
      /\ archived[m][<<d, syncLog[m][d]>>] >= jobs[m][d]
  BY <1>1, <1>2, CountsFacts, AbsentAssumption, MaxRowsAssumption
     DEF AbsentAssumption, MaxRowsAssumption
<1> DEFINE a == archived[m][<<d, "ACL">>]
           c == archived[m][<<d, "CSV">>]
<1>4. (a # Absent => a \in Int) /\ (c # Absent => c \in Int) /\ jobs[m][d] \in Int
  BY <1>1, CountsFacts
<1>5. CASE CsvWins(m, d)
  <2>1. c # Absent /\ (a # Absent => c >= a)
    BY <1>5 DEF CsvWins
  <2>2. Rebuilt(m, d).kind = "CSV" /\ Rebuilt(m, d).rows = c
    BY <1>5 DEF Rebuilt
  <2>3. c >= jobs[m][d]
    BY <1>1, <1>3, <1>4, <2>1 DEF Exts
  <2> QED
    BY <2>2, <2>3
<1>6. CASE ~CsvWins(m, d)
  <2>1. c = Absent \/ (a # Absent /\ ~(c >= a))
    BY <1>6 DEF CsvWins
  <2>2. a # Absent /\ a >= jobs[m][d]
    BY <1>1, <1>3, <1>4, <2>1 DEF Exts
  <2>3. Rebuilt(m, d).kind = "ACL" /\ Rebuilt(m, d).rows = a
    BY <1>6, <2>2 DEF Rebuilt
  <2> QED
    BY <2>2, <2>3
<1> QED
  BY <1>5, <1>6

\* Under the service alone, at any moment of any sync, a crash included, the
\* raw archive rebuilds every imported day with no record less than the
\* database has: the archive is written before the import, from the same
\* validated bytes (sync(), pressledger/sync.py).
THEOREM ArchiveCovers == ASSUME Cli = {} PROVE Spec => []ArchiveCoversDatabase
<1>1. TypeInv /\ SyncInv => ArchiveCoversDatabase
  BY SourceKeptCovers DEF SyncInv, SourceArchived
<1> QED
  BY <1>1, ServiceInvariant, PTL

\* Under the service alone, a run recorded without an error left no listed day
\* out of the database and no listed CSV unimported.
THEOREM CleanRuns == ASSUME Cli = {} PROVE Spec => []CleanRunImportedAll
<1>1. TypeInv /\ SyncInv => CleanRunImportedAll
  BY DEF SyncInv, CleanSoFar, CleanRunImportedAll, At, Fetching
<1> QED
  BY <1>1, ServiceInvariant, PTL

-----------------------------------------------------------------------------
(* The abstract ledger.                                                    *)

LEMMA LedgerInit == Init => DayLedger!Init
BY DEF Init, DayLedger!Init

\* Only a committed import touches the database.
LEMMA LedgerStutter ==
  ASSUME UNCHANGED database
  PROVE  UNCHANGED DayLedger!vars
BY DEF database, DayLedger!vars

LEMMA LedgerImportDate ==
  ASSUME TypeInv, SyncInv, NEW w \in Workers, ImportDate(w)
  PROVE  DayLedger!Next
<1>1. /\ run[w].pc = "commit" /\ run[w].body \in Counts
      /\ Machine(w) \in Machines /\ run[w].file \in Files
      /\ Day(w) \in Days /\ Ext(w) \in Exts
  BY Locals DEF ImportDate, At, LocalsOK, Fetching, Validated
<1>2. syncLog[Machine(w)][Day(w)] # "CSV" /\ run[w].body >= jobs[Machine(w)][Day(w)]
  BY <1>1 DEF SyncInv, NothingStale, Fetching, Validated, Planned, Accepted, Day
<1>3. DayLedger!Replace(Machine(w), Day(w), run[w].body, Ext(w))
  BY <1>2 DEF ImportDate, DayLedger!Replace
<1> QED
  BY <1>1, <1>3 DEF DayLedger!Next, Counts, Exts

LEMMA LedgerNext ==
  Cli = {} /\ TypeInv /\ SyncInv /\ [Next]_vars => [DayLedger!Next]_(DayLedger!vars)
<1> SUFFICES ASSUME Cli = {}, TypeInv, SyncInv, [Next]_vars
             PROVE  DayLedger!Next \/ UNCHANGED DayLedger!vars
  OBVIOUS
<1>1. CASE PressStep
  BY <1>1, LedgerStutter DEF PressStep
<1>2. CASE TickStart
  BY <1>2, LedgerStutter DEF TickStart, RunSyncOnce, Launch
<1>3. ASSUME NEW w \in Manual, ManualStart(w) PROVE UNCHANGED DayLedger!vars
  BY <1>3, LedgerStutter DEF ManualStart, RunSyncOnce, Launch
<1>4. ASSUME NEW w \in Workers, Progress(w)
      PROVE  DayLedger!Next \/ UNCHANGED DayLedger!vars
  <2>1. ImportDate(w) \/ UNCHANGED database
    BY <1>4 DEF Progress, FetchListing, SkipFile, PlanFile, Download, Received,
       FileGone, DownloadFails, Validate, Reject, GiveUpFile, Archive, ImportCheck,
       CheckedStep, FilesDone, RecordRun, LocalStep
  <2> QED
    BY <2>1, LedgerImportDate, LedgerStutter
<1>5. ASSUME NEW w \in Workers, Failure(w) PROVE UNCHANGED DayLedger!vars
  BY <1>5, LedgerStutter DEF Failure, ListingFails, DownloadDamaged, Received,
     DownloadFails, StepFails, GiveUpFile, Abort, LocalStep
<1>6. CASE ServiceCrash
  BY <1>6, LedgerStutter DEF ServiceCrash
<1>7. CASE UNCHANGED vars
  BY <1>7, LedgerStutter DEF vars
<1> QED
  BY <1>1, <1>2, <1>3, <1>4, <1>5, <1>6, <1>7 DEF Next

\* Under the service alone, the sync implements the ledger: whatever is
\* downloaded, fails or crashes, an imported day never loses a record, and a
\* day imported from its CSV never changes again (_plan_action,
\* _validate_snapshot and _import_date together, under _sync_lock).
THEOREM ImplementsLedger == ASSUME Cli = {} PROVE Spec => LedgerSpec
<1>1. Init => DayLedger!Init
  BY LedgerInit
<1>2. TypeInv /\ SyncInv /\ [Next]_vars => [DayLedger!Next]_(DayLedger!vars)
  BY LedgerNext
<1> QED
  BY <1>1, <1>2, ServiceInvariant, PTL DEF Spec, LedgerSpec, DayLedger!Spec

\* Under the service alone a final day is never touched again, whatever its
\* press offers later (_plan_action).
THEOREM FinalDaysStay == ASSUME Cli = {} PROVE Spec => FinalStaysFinal
<1>1. TypeInv /\ SyncInv /\ [Next]_vars
      => [\A m \in Machines, d \in Days :
            syncLog[m][d] = "CSV" => UNCHANGED <<syncLog[m][d], jobs[m][d]>>]_vars
  <2> SUFFICES ASSUME TypeInv, SyncInv, [Next]_vars,
                      NEW m \in Machines, NEW d \in Days, syncLog[m][d] = "CSV"
               PROVE  UNCHANGED <<syncLog[m][d], jobs[m][d]>>
    OBVIOUS
  <2>1. [DayLedger!Next]_(DayLedger!vars)
    BY LedgerNext
  <2>2. CASE DayLedger!Next
    BY <2>2 DEF DayLedger!Next, DayLedger!Replace, TypeInv, TypeOK
  <2>3. CASE UNCHANGED DayLedger!vars
    BY <2>3 DEF DayLedger!vars
  <2> QED
    BY <2>1, <2>2, <2>3
<1> QED
  BY <1>1, ServiceInvariant, PTL DEF Spec, FinalStaysFinal

-----------------------------------------------------------------------------
(* Complete final days: this one needs no lock, only that a cut download   *)
(* is seen to be cut.                                                      *)

LEMMA CompleteInit == Init => CompleteInv
BY DEF Init, CompleteInv, WholeOrBroken, FinalIsComplete, Idle, Validated

\* Worker w moves on; no file of a press changes and no day.
LEMMA CompleteBecome ==
  ASSUME TypeInv, CompleteInv, NEW w \in Workers, NEW r, Become(w, r),
         UNCHANGED <<press, database>>, WholeOrBroken(w)'
  PROVE  CompleteInv'
<1>1. \A v \in Workers \ {w} : run'[v] = run[v]
  BY DEF Become, TypeInv, TypeOK
<1>2. ASSUME NEW v \in Workers PROVE WholeOrBroken(v)'
  BY <1>1 DEF CompleteInv, WholeOrBroken, Ext, Day, Machine, press
<1>3. FinalIsComplete'
  BY DEF CompleteInv, FinalIsComplete, press, database
<1> QED
  BY <1>2, <1>3 DEF CompleteInv

\* The worker is elsewhere than between download and import.
LEMMA CompleteElsewhere ==
  ASSUME TypeInv, CompleteInv, NEW w \in Workers, NEW r, Become(w, r),
         UNCHANGED <<press, database>>, r.pc \notin {"validate"} \cup Validated
  PROVE  CompleteInv'
<1>1. run'[w] = r
  BY DEF Become, TypeInv, TypeOK
<1> QED
  BY <1>1, CompleteBecome DEF WholeOrBroken

LEMMA CompleteReceived ==
  ASSUME TypeInv, CompleteInv, NEW w \in Workers,
         NEW body \in {Broken, Content(Machine(w), run[w].file)}, Received(w, body)
  PROVE  CompleteInv'
<1>1. run'[w] = [run[w] EXCEPT !.pc = "validate", !.body = body]
      /\ run[w] \in Run /\ UNCHANGED <<press, database>>
  BY Locals DEF Received, LocalStep, Become, TypeInv, TypeOK
<1>2. /\ run'[w].body = body /\ Machine(w)' = Machine(w)
      /\ Day(w)' = Day(w) /\ Ext(w)' = Ext(w) /\ csv' = csv
  BY <1>1 DEF Run, Machine, Day, Ext, press
<1>3. WholeOrBroken(w)'
  BY <1>2 DEF WholeOrBroken, Content, Ext, Day
<1> QED
  BY <1>1, <1>3, CompleteBecome DEF Received, LocalStep

\* The body stays what it was while it is checked and archived.
LEMMA CompleteKept ==
  ASSUME TypeInv, CompleteInv, NEW w \in Workers, NEW to,
         run[w].pc \in {"validate"} \cup Validated,
         Become(w, [run[w] EXCEPT !.pc = to]), UNCHANGED <<press, database>>
  PROVE  CompleteInv'
<1>1. run'[w] = [run[w] EXCEPT !.pc = to] /\ run[w] \in Run
  BY Locals DEF Become, TypeInv, TypeOK
<1>2. /\ run'[w].body = run[w].body /\ Machine(w)' = Machine(w)
      /\ Day(w)' = Day(w) /\ Ext(w)' = Ext(w) /\ csv' = csv
  BY <1>1 DEF Run, Machine, Day, Ext, press
<1>3. WholeOrBroken(w)'
  BY <1>2 DEF CompleteInv, WholeOrBroken
<1> QED
  BY <1>3, CompleteBecome

LEMMA CompletePress ==
  ASSUME TypeInv, CompleteInv, PressStep
  PROVE  CompleteInv'
<1>1. UNCHANGED <<jobs, syncLog, run>>
  BY DEF PressStep, database
<1>2. ASSUME NEW m \in Machines, NEW d \in Days, csv[m][d] # Absent
      PROVE  csv'[m][d] = csv[m][d]
  BY <1>2 DEF PressStep, PressNext, OpenDay, AppendRecord, Rotate, Expire, TypeInv, TypeOK, PressTypeOK
<1>3. ASSUME NEW v \in Workers PROVE WholeOrBroken(v)'
  <2> SUFFICES ASSUME run[v].pc \in {"validate"} \cup Validated, Ext(v) = "CSV"
               PROVE  run[v].body \in {Broken, csv'[Machine(v)][Day(v)]}
    BY <1>1 DEF WholeOrBroken, Ext, Machine, Day
  <2>1. run[v].body \in {Broken, csv[Machine(v)][Day(v)]} /\ run[v].body \in Bodies
    BY Locals DEF CompleteInv, WholeOrBroken, LocalsOK, Validated, Bodies
  <2>2. Machine(v) \in Machines /\ Day(v) \in Days
    BY Locals DEF Fetching, Validated
  <2>3. run[v].body = Broken \/ csv[Machine(v)][Day(v)] # Absent
    BY <2>1, CountsFacts DEF Bodies
  <2> QED
    BY <1>2, <2>1, <2>2, <2>3
<1>4. FinalIsComplete'
  <2> SUFFICES ASSUME NEW m \in Machines, NEW d \in Days, syncLog[m][d] = "CSV"
               PROVE  jobs[m][d] = csv'[m][d]
    BY <1>1 DEF FinalIsComplete
  <2>1. jobs[m][d] = csv[m][d] /\ jobs[m][d] \in Counts
    BY DEF CompleteInv, FinalIsComplete, TypeInv, TypeOK
  <2> QED
    BY <1>2, <2>1, CountsFacts
<1> QED
  BY <1>3, <1>4 DEF CompleteInv

LEMMA CompleteImportDate ==
  ASSUME TypeInv, CompleteInv, NEW w \in Workers, ImportDate(w)
  PROVE  CompleteInv'
<1>1. /\ run[w].pc = "commit" /\ run[w].body \in Counts
      /\ Machine(w) \in Machines /\ Day(w) \in Days
      /\ run'[w] = [run[w] EXCEPT !.pc = "files", !.file = NoFile, !.body = Absent]
      /\ run[w] \in Run
  BY Locals DEF ImportDate, Become, At, LocalsOK, Fetching, Validated, TypeInv, TypeOK
<1>2. \A v \in Workers \ {w} : run'[v] = run[v]
  BY DEF ImportDate, Become, TypeInv, TypeOK
<1>3. ASSUME NEW v \in Workers PROVE WholeOrBroken(v)'
  BY <1>1, <1>2 DEF CompleteInv, WholeOrBroken, Ext, Day, Machine, ImportDate, press, Validated, Run
<1>4. Ext(w) = "CSV" => run[w].body = csv[Machine(w)][Day(w)]
  BY <1>1, CountsFacts DEF CompleteInv, WholeOrBroken, Validated
<1>5. FinalIsComplete'
  <2> SUFFICES ASSUME NEW m \in Machines, NEW d \in Days, syncLog'[m][d] = "CSV"
               PROVE  jobs'[m][d] = csv[m][d]
    BY DEF FinalIsComplete, ImportDate, press
  <2>1. CASE m = Machine(w) /\ d = Day(w)
    <3>1. syncLog'[m][d] = Ext(w) /\ jobs'[m][d] = run[w].body
      BY <1>1, <2>1 DEF ImportDate, TypeInv, TypeOK
    <3> QED
      BY <1>4, <2>1, <3>1
  <2>2. CASE ~(m = Machine(w) /\ d = Day(w))
    <3>1. syncLog'[m][d] = syncLog[m][d] /\ jobs'[m][d] = jobs[m][d]
      BY <1>1, <2>2 DEF ImportDate, TypeInv, TypeOK
    <3> QED
      BY <3>1 DEF CompleteInv, FinalIsComplete
  <2> QED
    BY <2>1, <2>2
<1> QED
  BY <1>3, <1>5 DEF CompleteInv

LEMMA CompleteGiveUpFile ==
  ASSUME TypeInv, CompleteInv, NEW w \in Workers, GiveUpFile(w)
  PROVE  CompleteInv'
<1> DEFINE r == [run[w] EXCEPT !.pc = "files", !.file = NoFile,
                               !.body = Absent, !.outcome = "errors"]
<1>1. r.pc = "files"
  BY Locals DEF Run
<1> QED
  BY <1>1, CompleteElsewhere DEF GiveUpFile, LocalStep, Validated

LEMMA CompleteProgress ==
  ASSUME TypeInv, CompleteInv, NEW w \in Workers, Progress(w)
  PROVE  CompleteInv'
<1> USE DEF At
<1>1. CASE FetchListing(w)
  <2>1. PICK undated \in SUBSET Undated :
          LET names == offered[Machine(w)] \cup undated IN
          LocalStep(w, [run[w] EXCEPT !.pc = "files", !.listing = names, !.todo = names])
    BY <1>1 DEF FetchListing
  <2> DEFINE names == offered[Machine(w)] \cup undated
             r == [run[w] EXCEPT !.pc = "files", !.listing = names, !.todo = names]
  <2>2. r.pc = "files"
    BY Locals DEF Run
  <2> QED
    BY <2>1, <2>2, CompleteElsewhere DEF LocalStep, Validated
<1>2. ASSUME NEW f \in Files \cup Undated, SkipFile(w, f) PROVE CompleteInv'
  <2> DEFINE r == [run[w] EXCEPT !.todo = @ \ {f}]
  <2>1. r.pc = "files"
    BY <1>2, Locals DEF Run, SkipFile
  <2> QED
    BY <1>2, <2>1, CompleteElsewhere DEF SkipFile, LocalStep, Validated
<1>3. ASSUME NEW f \in Files \cup Undated, PlanFile(w, f) PROVE CompleteInv'
  <2> DEFINE r == [run[w] EXCEPT !.pc = "download", !.file = f, !.todo = @ \ {f}]
  <2>1. r.pc = "download"
    BY Locals DEF Run
  <2> QED
    BY <1>3, <2>1, CompleteElsewhere DEF PlanFile, LocalStep, Validated
<1>4. CASE Download(w)
  BY <1>4, CompleteReceived DEF Download
<1>5. CASE FileGone(w)
  BY <1>5, CompleteGiveUpFile DEF FileGone, DownloadFails
<1>6. CASE Validate(w)
  BY <1>6, CompleteKept DEF Validate, CheckedStep, LocalStep
<1>7. CASE Reject(w)
  BY <1>7, CompleteGiveUpFile DEF Reject
<1>8. CASE Archive(w)
  BY <1>8, CompleteKept DEF Archive, Validated
<1>9. CASE ImportCheck(w)
  BY <1>9, CompleteKept DEF ImportCheck, CheckedStep, LocalStep, Validated
<1>10. CASE FilesDone(w)
  <2> DEFINE r == [run[w] EXCEPT !.pc = "record"]
  <2>1. r.pc = "record"
    BY Locals DEF Run
  <2> QED
    BY <1>10, <2>1, CompleteElsewhere DEF FilesDone, LocalStep, Validated
<1>11. CASE RecordRun(w)
  <2> DEFINE r == [Idle EXCEPT !.pc = "listing", !.queue = Tail(run[w].queue)]
  <2>1. r.pc = "listing" /\ Idle.pc = "idle"
    BY DEF Idle
  <2> QED
    BY <1>11, <2>1, CompleteElsewhere DEF RecordRun, Validated
<1> QED
  BY <1>1, <1>2, <1>3, <1>4, <1>5, <1>6, <1>7, <1>8, <1>9, <1>10, <1>11,
     CompleteImportDate DEF Progress

LEMMA CompleteFailure ==
  ASSUME LineCuts = FALSE, TypeInv, CompleteInv, NEW w \in Workers, Failure(w)
  PROVE  CompleteInv'
<1>1. CASE ListingFails(w)
  <2> DEFINE r == [run[w] EXCEPT !.pc = "record", !.outcome = "unreachable"]
  <2>1. r.pc = "record"
    BY Locals DEF Run
  <2> QED
    BY <1>1, <2>1, CompleteElsewhere DEF ListingFails, LocalStep, Validated
<1>2. CASE DownloadDamaged(w)
  BY <1>2, CompleteReceived DEF DownloadDamaged
<1>3. CASE DownloadFails(w) \/ StepFails(w)
  BY <1>3, CompleteGiveUpFile DEF DownloadFails, StepFails
<1>4. CASE Abort(w)
  <2>1. Idle.pc = "idle"
    BY DEF Idle
  <2> QED
    BY <1>4, <2>1, CompleteElsewhere DEF Abort, Validated
<1> QED
  BY <1>1, <1>2, <1>3, <1>4 DEF Failure

LEMMA CompleteNext ==
  LineCuts = FALSE /\ TypeInv /\ CompleteInv /\ [Next]_vars => CompleteInv'
<1> SUFFICES ASSUME LineCuts = FALSE, TypeInv, CompleteInv, [Next]_vars
             PROVE  CompleteInv'
  OBVIOUS
<1>1. ASSUME NEW w \in Workers, NEW machines, Launch(w, machines) PROVE CompleteInv'
  <2> DEFINE r == [Idle EXCEPT !.pc = "listing", !.queue = machines]
  <2>1. r.pc = "listing"
    BY DEF Idle
  <2> QED
    BY <1>1, <2>1, CompleteElsewhere DEF Launch, Validated
<1>2. CASE TickStart \/ (\E w \in Manual : ManualStart(w)) \/ (\E w \in Cli : CliStart(w))
  BY <1>1, <1>2 DEF TickStart, ManualStart, CliStart, RunSyncOnce, Workers, Service
<1>3. ASSUME NEW w \in Cli, CliCrash(w) PROVE CompleteInv'
  <2>1. Idle.pc = "idle"
    BY DEF Idle
  <2> QED
    BY <1>3, <2>1, CompleteElsewhere DEF CliCrash, LocalStep, Validated, Workers
<1>4. ASSUME NEW w \in Workers, Progress(w) \/ Failure(w) PROVE CompleteInv'
  BY <1>4, CompleteProgress, CompleteFailure
<1>5. CASE ServiceCrash
  <2>1. \A v \in Workers : run'[v] = Idle \/ run'[v] = run[v]
    BY <1>5 DEF ServiceCrash
  <2>2. ASSUME NEW v \in Workers PROVE WholeOrBroken(v)'
    BY <1>5, <2>1 DEF ServiceCrash, CompleteInv, WholeOrBroken, Idle, Validated,
       Ext, Day, Machine, press
  <2>3. FinalIsComplete'
    BY <1>5 DEF ServiceCrash, CompleteInv, FinalIsComplete, press, database
  <2> QED
    BY <2>2, <2>3 DEF CompleteInv
<1>6. CASE UNCHANGED vars
  BY <1>6 DEF vars, CompleteInv, WholeOrBroken, FinalIsComplete, Ext, Day, Machine,
     press, database
<1> QED
  BY <1>2, <1>3, <1>4, <1>5, <1>6, CompletePress DEF Next

\* If a cut download always shows (no trailing newline), a day reported as
\* final holds every record of its CSV, even with syncs from the command line
\* running beside the service.
THEOREM FinalDaysComplete == ASSUME LineCuts = FALSE PROVE Spec => []FinalIsComplete
<1>1. Init => TypeInv /\ CompleteInv
  BY TypeInvInit, CompleteInit
<1>2. TypeInv /\ CompleteInv /\ [Next]_vars => (TypeInv /\ CompleteInv)'
  BY TypeInvNext, CompleteNext
<1>3. TypeInv /\ CompleteInv => FinalIsComplete
  BY DEF CompleteInv
<1> QED
  BY <1>1, <1>2, <1>3, PTL DEF Spec
=============================================================================
