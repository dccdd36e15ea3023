--------------------------- MODULE RecoveryProofs ---------------------------
(***************************************************************************)
(* Proofs about Recovery: a reimport beside syncs of the service, and a    *)
(* reimport alone.                                                         *)
(***************************************************************************)
EXTENDS Recovery, SnapshotProofs

-----------------------------------------------------------------------------
(* What the steps are made of.                                             *)

\* Whatever runs beside the reimport takes steps of Sync.
LEMMA SyncSteps ==
  /\ SyncStarts => [Next]_vars
  /\ SyncGoesOn => [Next]_vars /\ UNCHANGED reimport
<1>1. SyncStarts => [Next]_vars
  BY DEF SyncStarts, Next
<1>2. ASSUME NEW w \in Workers, EnsureSchema(w) PROVE [Next]_vars /\ UNCHANGED reimport
  BY <1>2 DEF EnsureSchema
<1>3. ASSUME NEW w \in Workers, WorkerStep(w) PROVE Next
  BY <1>3 DEF WorkerStep, Next, Progress, Failure
<1>4. PressStep \/ ServiceCrash \/ (\E w \in Cli : CliCrash(w)) => Next
  BY DEF Next
<1> QED
  BY <1>1, <1>2, <1>3, <1>4 DEF SyncGoesOn

LEMMA TablesAre == Tables = {"job_media", "jobs", "sync_log", "sync_run", "meta"}
<1>1. Len(Dropped) = 5
  BY DEF Dropped
<1>2. Dropped[1] = "job_media" /\ Dropped[2] = "jobs" /\ Dropped[3] = "sync_log"
      /\ Dropped[4] = "sync_run" /\ Dropped[5] = "meta"
  BY DEF Dropped
<1>3. 1 .. 5 = {1, 2, 3, 4, 5}
  OBVIOUS
<1> QED
  BY <1>1, <1>2, <1>3 DEF Tables

\* The tables left to drop are an end of the list.
LEMMA LeftToDrop ==
  LET ends == {SubSeq(Dropped, i, Len(Dropped)) : i \in 1 .. Len(Dropped) + 1} IN
  /\ Dropped \in ends /\ Dropped # <<>> /\ <<>> \in ends
  /\ \A left \in ends \ {<<>>} : Tail(left) \in ends /\ Head(left) \in Tables
<1> DEFINE n == Len(Dropped)
           ends == {SubSeq(Dropped, i, n) : i \in 1 .. n + 1}
<1>1. Dropped \in Seq(Tables) /\ n = 5
  <2>1. Dropped \in Seq({"job_media", "jobs", "sync_log", "sync_run", "meta"}) /\ n = 5
    BY DEF Dropped
  <2> QED
    BY <2>1, TablesAre
<1>2. Dropped = SubSeq(Dropped, 1, n) /\ <<>> = SubSeq(Dropped, n + 1, n)
  BY <1>1, SubSeqFull, SubSeqEmpty
<1>3. Dropped \in ends /\ <<>> \in ends /\ Dropped # <<>>
  BY <1>1, <1>2, EmptySeq
<1>4. ASSUME NEW left \in ends, left # <<>>
      PROVE  Tail(left) \in ends /\ Head(left) \in Tables
  <2>1. PICK i \in 1 .. n + 1 : left = SubSeq(Dropped, i, n)
    BY <1>4
  <2>2. i \in 1 .. n /\ n \in i .. n
    BY <1>1, <1>2, <1>4, <2>1
  <2>3. Tail(left) = SubSeq(Dropped, i + 1, n) /\ Head(left) = Dropped[i]
    BY <1>1, <2>1, <2>2, HeadTailOfSubSeq
  <2>4. i + 1 \in 1 .. n + 1
    BY <1>1, <2>2
  <2>5. Dropped[i] \in Tables
    BY <1>1, <2>2, ElementOfSeq
  <2> QED
    BY <2>3, <2>4, <2>5
<1> QED
  BY <1>3, <1>4

-----------------------------------------------------------------------------
(* Types, for any syncs and failures.                                      *)

LEMMA NoReimportType == NoReimport \in Reimport
<1>1. <<>> \in Seq(Machines)
  BY EmptySeq
<1> QED
  BY <1>1, LeftToDrop DEF NoReimport, Reimport

LEMMA RecoveryTypeInit == RecoveryInit => RecoveryTypeInv
<1> SUFFICES ASSUME RecoveryInit PROVE RecoveryTypeInv
  OBVIOUS
<1>1. RecoveryTypeOK
  BY TypeInvInit, NoReimportType, TablesAre DEF RecoveryInit, RecoveryTypeOK
<1>2. ReimportLocalsOK
  BY DEF RecoveryInit, NoReimport, ReimportLocalsOK, Reading, InHand
<1> QED
  BY <1>1, <1>2 DEF RecoveryTypeInv

\* The variables of Sync keep their types under a change of the database.
LEMMA DatabaseType ==
  ASSUME TypeInv, UNCHANGED <<press, archived, lock, run>>,
         jobs' \in [Machines -> [Days -> Counts]],
         syncLog' \in [Machines -> [Days -> {"none"} \cup Exts]],
         lastRun' \in [Machines -> {"never"} \cup Outcomes]
  PROVE  TypeInv'
<1>1. TypeOK'
  BY DEF TypeInv, TypeOK, PressTypeOK, press
<1> QED
  BY <1>1 DEF TypeInv, OfferedExists, Content, press

\* A step of the reimport alone.
LEMMA ReimportOnlyType ==
  ASSUME RecoveryTypeInv, UNCHANGED <<vars, opening>>, tables' \subseteq Tables, stamped' \in BOOLEAN,
         stamped' => "meta" \in tables', reimport' \in Reimport, ReimportLocalsOK'
  PROVE  RecoveryTypeInv'
<1>1. TypeInv'
  BY TypeInvNext DEF RecoveryTypeInv, RecoveryTypeOK
<1> QED
  BY <1>1 DEF RecoveryTypeInv, RecoveryTypeOK

LEMMA ReimportRange ==
  ASSUME RecoveryTypeInv
  PROVE  /\ reimport \in Reimport
         /\ reimport.pc \in {"scan"} \cup Reading => Head(reimport.queue) \in Machines
         /\ reimport.pc \in InHand => reimport.file \in Files /\ reimport.file[1] \in Days
              /\ reimport.file[2] \in Exts /\ reimport.body \in Counts
<1>1. reimport \in Reimport
  BY DEF RecoveryTypeInv, RecoveryTypeOK
<1>2. reimport.pc \in {"scan"} \cup Reading => Head(reimport.queue) \in Machines
  BY <1>1, HeadTailProperties DEF RecoveryTypeInv, ReimportLocalsOK, Reimport
<1>3. reimport.pc \in InHand => reimport.file \in Files /\ reimport.body \in Counts
  BY DEF RecoveryTypeInv, ReimportLocalsOK
<1> QED
  BY <1>1, <1>2, <1>3 DEF Files

LEMMA RecoveryTypeSync ==
  ASSUME RecoveryTypeInv, SyncStarts \/ SyncGoesOn
  PROVE  RecoveryTypeInv'
<1>1. TypeInv'
  BY SyncSteps, TypeInvNext DEF RecoveryTypeInv, RecoveryTypeOK
<1>2. /\ tables' = tables \/ tables' = Tables
      /\ stamped' = stamped \/ (stamped' = TRUE /\ "meta" \in tables')
      /\ opening' \in [Workers -> {"closed", "checked", "created", "open"}]
  <2>1. opening \in [Workers -> {"closed", "checked", "created", "open"}]
    BY DEF RecoveryTypeInv, RecoveryTypeOK
  <2>2. CASE Opened /\ UNCHANGED <<tables, stamped>>
    BY <2>1, <2>2 DEF Opened
  <2>3. CASE \E w \in Workers : EnsureSchema(w)
    BY <2>1, <2>3, TablesAre DEF EnsureSchema, CheckVersion, CreateMissing, SetVersion
  <2> QED
    BY <2>2, <2>3 DEF SyncStarts, SyncGoesOn
<1>3. \/ reimport' = reimport
      \/ reimport' = [reimport EXCEPT !.alone = FALSE]
  BY SyncSteps DEF SyncStarts
<1>4. /\ reimport \in Reimport /\ reimport' \in Reimport
      /\ reimport'.pc = reimport.pc /\ reimport'.left = reimport.left
      /\ reimport'.queue = reimport.queue /\ reimport'.todo = reimport.todo
      /\ reimport'.file = reimport.file /\ reimport'.body = reimport.body
  BY <1>3 DEF RecoveryTypeInv, RecoveryTypeOK, Reimport
<1>5. ASSUME reimport.pc \in Reading, NEW f \in reimport.todo
      PROVE  archived'[Head(reimport.queue)][f] # Absent
  <2>1. Head(reimport.queue) \in Machines /\ f \in Files
    BY <1>4, <1>5, ReimportRange DEF Reimport
  <2> QED
    BY <1>5, <2>1, SyncSteps, SnapshotsStay DEF RecoveryTypeInv, RecoveryTypeOK, ReimportLocalsOK
<1>6. ReimportLocalsOK'
  BY <1>2, <1>4, <1>5 DEF RecoveryTypeInv, ReimportLocalsOK
<1>7. tables' \subseteq Tables /\ stamped' \in BOOLEAN /\ (stamped' => "meta" \in tables')
  <2>1. tables \subseteq Tables /\ stamped \in BOOLEAN /\ (stamped => "meta" \in tables)
    BY DEF RecoveryTypeInv, RecoveryTypeOK
  <2>2. "meta" \in Tables
    BY TablesAre
  <2>3. tables' = tables \/ tables' = Tables
    BY <1>2
  <2>4. stamped' = stamped \/ (stamped' = TRUE /\ "meta" \in tables')
    BY <1>2
  <2>5. tables' \subseteq Tables /\ stamped' \in BOOLEAN
    BY <2>1, <2>3, <2>4
  <2>6. CASE stamped' = stamped
    BY <2>1, <2>2, <2>3, <2>6
  <2> QED
    BY <2>4, <2>5, <2>6
<1> QED
  BY <1>1, <1>2, <1>4, <1>6, <1>7 DEF RecoveryTypeInv, RecoveryTypeOK

\* CheckFile and ImportFile both go on to the next file.
LEMMA NextFileType ==
  ASSUME RecoveryTypeInv, reimport.pc \in InHand
  PROVE  /\ NextFile(reimport) \in Reimport
         /\ NextFile(reimport).pc = "files"
         /\ NextFile(reimport).queue = reimport.queue
         /\ NextFile(reimport).todo = reimport.todo
         /\ NextFile(reimport).alone = reimport.alone
         /\ reimport.queue # <<>>
BY ReimportRange DEF NextFile, Reimport, RecoveryTypeInv, ReimportLocalsOK, Reading, InHand

LEMMA RecoveryTypeReimport ==
  ASSUME RecoveryTypeInv, ReimportStep
  PROVE  RecoveryTypeInv'
<1> USE ReimportRange
<1>0. /\ tables \subseteq Tables /\ stamped \in BOOLEAN /\ (stamped => "meta" \in tables)
      /\ ReimportLocalsOK /\ TypeInv
  BY DEF RecoveryTypeInv, RecoveryTypeOK
<1>1. Config \in Seq(Machines) /\ Config # <<>>
  BY ConfigAssumption DEF ConfigAssumption
<1>2. CASE StartRebuild
  <2>1. /\ reimport'.pc = "drop" /\ reimport'.left = Dropped /\ reimport' \in Reimport
        /\ UNCHANGED <<vars, opening>> /\ UNCHANGED <<tables, stamped>>
    BY <1>2, NoReimportType, LeftToDrop DEF StartRebuild, Start, NoReimport, Reimport
  <2>2. ReimportLocalsOK'
    BY <2>1, LeftToDrop DEF ReimportLocalsOK, Reading, InHand
  <2> QED
    BY <1>0, <2>1, <2>2, ReimportOnlyType
<1>3. CASE StartPlain
  <2>1. /\ reimport'.pc = "create" /\ reimport' \in Reimport
        /\ UNCHANGED <<vars, opening>> /\ UNCHANGED <<tables, stamped>>
    BY <1>3, NoReimportType, LeftToDrop DEF StartPlain, Start, NoReimport, Reimport
  <2>2. ReimportLocalsOK'
    BY <2>1 DEF ReimportLocalsOK, Reading, InHand
  <2> QED
    BY <1>0, <2>1, <2>2, ReimportOnlyType
<1>4. CASE DropTable
  <2> DEFINE table == Head(reimport.left)
             left == Tail(reimport.left)
  <2>1. reimport.pc = "drop" /\ table \in Tables
        /\ left \in {SubSeq(Dropped, i, Len(Dropped)) : i \in 1 .. Len(Dropped) + 1}
    BY <1>0, <1>4, LeftToDrop DEF DropTable, ReimportLocalsOK, Reimport
  <2>2. TypeInv'
    <3>1. jobs' \in [Machines -> [Days -> Counts]]
      BY <1>0, <1>4, CountsFacts DEF DropTable, TypeInv, TypeOK
    <3>2. /\ syncLog' \in [Machines -> [Days -> {"none"} \cup Exts]]
          /\ lastRun' \in [Machines -> {"never"} \cup Outcomes]
      BY <1>0, <1>4 DEF DropTable, TypeInv, TypeOK
    <3> QED
      BY <1>0, <1>4, <3>1, <3>2, DatabaseType DEF DropTable
  <2>3. tables' \subseteq Tables /\ stamped' \in BOOLEAN /\ (stamped' => "meta" \in tables')
    BY <1>0, <1>4 DEF DropTable, VersionAfterDrop
  <2>4. reimport' \in Reimport
    BY <1>4, <2>1 DEF DropTable, Reimport
  <2>5. /\ reimport'.left = left
        /\ reimport'.pc = IF left = <<>> THEN "create" ELSE "drop"
    BY <1>4, <2>1 DEF DropTable, Reimport
  <2>6. ReimportLocalsOK'
    BY <2>5 DEF ReimportLocalsOK, Reading, InHand
  <2> QED
    BY <1>4, <2>2, <2>3, <2>4, <2>6 DEF DropTable, RecoveryTypeInv, RecoveryTypeOK
<1>5. CASE CreateTables
  <2>1. /\ reimport'.pc = "stamp" /\ reimport' \in Reimport /\ tables' = Tables
        /\ UNCHANGED <<vars, opening>> /\ UNCHANGED stamped
    BY <1>5 DEF CreateTables, Reimport
  <2>2. ReimportLocalsOK'
    BY <2>1 DEF ReimportLocalsOK, Reading, InHand
  <2> QED
    BY <1>0, <2>1, <2>2, ReimportOnlyType, TablesAre
<1>6. CASE StampVersion
  <2>1. /\ reimport'.pc = "scan" /\ reimport'.queue = Config /\ reimport' \in Reimport
        /\ UNCHANGED <<vars, opening>> /\ UNCHANGED tables /\ stamped' = TRUE /\ tables = Tables
    BY <1>0, <1>1, <1>6 DEF StampVersion, Reimport, ReimportLocalsOK
  <2>2. ReimportLocalsOK'
    BY <1>1, <2>1 DEF ReimportLocalsOK, Reading, InHand
  <2> QED
    BY <1>0, <2>1, <2>2, ReimportOnlyType, TablesAre
<1>7. CASE Scan
  <2>1. /\ reimport'.pc = "files" /\ reimport'.queue = reimport.queue /\ reimport' \in Reimport
        /\ UNCHANGED <<vars, opening>> /\ UNCHANGED <<tables, stamped>> /\ reimport.queue # <<>>
        /\ reimport'.todo = {f \in Files : archived[Head(reimport.queue)][f] # Absent}
    BY <1>0, <1>7 DEF Scan, Reimport, ReimportLocalsOK
  <2>2. ReimportLocalsOK'
    BY <2>1 DEF ReimportLocalsOK, Reading, InHand, vars
  <2> QED
    BY <1>0, <2>1, <2>2, ReimportOnlyType
<1>8. CASE ReadFile
  <2>1. PICK f \in NextFiles(reimport.todo) :
          reimport' = [reimport EXCEPT !.pc = "check", !.todo = @ \ {f}, !.file = f,
                         !.body = archived[Head(reimport.queue)][f]]
    BY <1>8 DEF ReadFile
  <2>2. f \in Files /\ reimport.pc = "files" /\ Head(reimport.queue) \in Machines
        /\ reimport.queue # <<>>
    BY <1>0, <1>8 DEF ReadFile, NextFiles, Reimport, Reading, ReimportLocalsOK
  <2>3. archived[Head(reimport.queue)][f] \in Counts
    BY <1>0, <1>8, <2>2 DEF TypeInv, TypeOK, ReimportLocalsOK, NextFiles, Reading
  <2>4. reimport' \in Reimport /\ UNCHANGED <<vars, opening>> /\ UNCHANGED <<tables, stamped>>
    BY <1>8, <2>1, <2>2, <2>3 DEF Reimport, ReadFile
  <2>5. /\ reimport'.pc = "check" /\ reimport'.queue = reimport.queue
        /\ reimport'.file = f /\ reimport'.body \in Counts
        /\ reimport'.todo = reimport.todo \ {f}
    BY <2>1, <2>3 DEF Reimport
  <2>6. ReimportLocalsOK'
    BY <1>0, <2>2, <2>4, <2>5 DEF ReimportLocalsOK, Reading, InHand, vars
  <2> QED
    BY <1>0, <2>4, <2>6, ReimportOnlyType
<1>9. CASE CheckFile
  <2>1. UNCHANGED <<vars, opening>> /\ UNCHANGED <<tables, stamped>> /\ reimport.pc = "check"
    BY <1>9 DEF CheckFile
  <2>2. \/ reimport' = NextFile(reimport)
        \/ reimport' = [reimport EXCEPT !.pc = "commit"]
    BY <1>9 DEF CheckFile
  <2>3. reimport' \in Reimport /\ ReimportLocalsOK'
    <3>1. CASE reimport' = NextFile(reimport)
      BY <1>0, <2>1, <3>1, NextFileType DEF InHand, ReimportLocalsOK, Reading, vars
    <3>2. CASE reimport' = [reimport EXCEPT !.pc = "commit"]
      BY <1>0, <2>1, <3>2 DEF InHand, ReimportLocalsOK, Reading, Reimport, vars
    <3> QED
      BY <2>2, <3>1, <3>2
  <2> QED
    BY <1>0, <2>1, <2>3, ReimportOnlyType
<1>10. CASE ImportFile
  <2>1. /\ reimport.pc = "commit" /\ reimport' = NextFile(reimport)
        /\ UNCHANGED <<press, archived, lastRun, lock, run, tables, stamped, opening>>
    BY <1>10 DEF ImportFile
  <2>2. /\ Head(reimport.queue) \in Machines /\ reimport.file[1] \in Days
        /\ reimport.file[2] \in Exts /\ reimport.body \in Counts
    BY <2>1 DEF Reading, InHand
  <2>3. /\ jobs' \in [Machines -> [Days -> Counts]]
        /\ syncLog' \in [Machines -> [Days -> {"none"} \cup Exts]]
    BY <1>0, <1>10, <2>2 DEF ImportFile, TypeInv, TypeOK
  <2>4. TypeInv'
    BY <1>0, <2>1, <2>3, DatabaseType DEF TypeInv, TypeOK
  <2>5. reimport' \in Reimport /\ ReimportLocalsOK'
    BY <1>0, <2>1, NextFileType DEF InHand, ReimportLocalsOK, Reading
  <2> QED
    BY <1>0, <2>1, <2>4, <2>5 DEF RecoveryTypeInv, RecoveryTypeOK
<1>11. CASE NextMachine
  <2>1. /\ reimport.pc = "files" /\ reimport.queue # <<>>
        /\ UNCHANGED <<vars, opening>> /\ UNCHANGED <<tables, stamped>>
    BY <1>0, <1>11 DEF NextMachine, ReimportLocalsOK, Reading
  <2>2. Tail(reimport.queue) \in Seq(Machines)
    BY <2>1, HeadTailProperties DEF Reimport
  <2>3. reimport' \in Reimport /\ ReimportLocalsOK'
    BY <1>11, <2>1, <2>2 DEF NextMachine, Reimport, ReimportLocalsOK, Reading, InHand
  <2> QED
    BY <1>0, <2>1, <2>3, ReimportOnlyType
<1>12. CASE Ends
  <2>1. ReimportLocalsOK'
    BY <1>12 DEF Ends, NoReimport, ReimportLocalsOK, Reading, InHand
  <2> QED
    BY <1>0, <1>12, <2>1, NoReimportType, ReimportOnlyType DEF Ends
<1> QED
  BY <1>2, <1>3, <1>4, <1>5, <1>6, <1>7, <1>8, <1>9, <1>10, <1>11, <1>12 DEF ReimportStep

LEMMA RecoveryTypeNext == RecoveryTypeInv /\ [RecoveryNext]_recoveryVars => RecoveryTypeInv'
<1> SUFFICES ASSUME RecoveryTypeInv, [RecoveryNext]_recoveryVars PROVE RecoveryTypeInv'
  OBVIOUS
<1>1. CASE UNCHANGED recoveryVars
  <2>1. UNCHANGED <<vars, opening>> /\ UNCHANGED <<tables, stamped, reimport>> /\ ReimportLocalsOK'
    BY <1>1 DEF recoveryVars, vars, RecoveryTypeInv, ReimportLocalsOK
  <2> QED
    BY <2>1, ReimportOnlyType DEF RecoveryTypeInv, RecoveryTypeOK
<1> QED
  BY <1>1, RecoveryTypeSync, RecoveryTypeReimport DEF RecoveryNext

\* Every variable keeps its type through any mixture of syncs, reimports and
\* crashes; the database is never stamped with a version while the table that
\* holds it is missing, and a reimport only reads files that are there
\* (reset_db, init_db, reimport_from_raw).
THEOREM RecoveryTypes == RecoverySpec => []RecoveryTypeOK
<1>1. RecoveryTypeInv => RecoveryTypeOK
  BY DEF RecoveryTypeInv
<1> QED
  BY <1>1, RecoveryTypeInit, RecoveryTypeNext, PTL DEF RecoverySpec

-----------------------------------------------------------------------------
(* The archive covers the database beside a reimport.                      *)

BesideInv == SnapshotInv /\ ArchiveInv /\ CoverInv

LEMMA BesideInit == RecoveryInit => BesideInv
<1> SUFFICES ASSUME RecoveryInit PROVE BesideInv
  OBVIOUS
<1>1. SourceKept /\ RowsCovered
  BY DEF RecoveryInit, Init, SourceKept, RowsCovered
<1>2. HandArchived
  BY DEF RecoveryInit, NoReimport, HandArchived, InHand
<1> QED
  BY <1>1, <1>2, SnapshotInit, ArchiveInit DEF RecoveryInit, BesideInv, CoverInv

\* Only a committed import of a sync, or of the reimport, fills the database.
LEMMA OnlyImportDate ==
  ASSUME [Next]_vars
  PROVE  UNCHANGED database \/ \E w \in Workers : ImportDate(w)
<1>1. ASSUME NEW w \in Workers, Progress(w) PROVE UNCHANGED database \/ ImportDate(w)
  BY <1>1 DEF Progress, FetchListing, SkipFile, PlanFile, Download, Received,
     FileGone, DownloadFails, Validate, Reject, GiveUpFile, Archive, ImportCheck,
     CheckedStep, FilesDone, RecordRun, LocalStep
<1>2. ASSUME NEW w \in Workers, Failure(w) PROVE UNCHANGED database
  BY <1>2 DEF Failure, ListingFails, DownloadDamaged, Received, DownloadFails,
     StepFails, GiveUpFile, Abort, LocalStep
<1>3. CASE PressStep \/ ServiceCrash \/ UNCHANGED vars
  BY <1>3 DEF PressStep, ServiceCrash, vars
<1>4. CASE \/ TickStart \/ (\E w \in Manual : ManualStart(w))
           \/ (\E w \in Cli : CliStart(w) \/ CliCrash(w))
  BY <1>4 DEF TickStart, ManualStart, RunSyncOnce, CliStart, CliCrash, Launch, LocalStep
<1> QED
  BY <1>1, <1>2, <1>3, <1>4 DEF Next

\* The archive grows under a database that stays.
LEMMA CoverGrows ==
  ASSUME RecoveryTypeInv, TypeInv', CoverInv, ArchiveGrows, UNCHANGED database,
         reimport'.pc = reimport.pc, reimport'.queue = reimport.queue,
         reimport'.file = reimport.file, reimport'.body = reimport.body
  PROVE  CoverInv'
<1>1. ASSUME NEW m \in Machines, NEW f \in Files, NEW n \in Counts,
             archived[m][f] \in n .. MaxRows
      PROVE  archived'[m][f] \in n .. MaxRows
  <2>1. archived[m][f] # Absent /\ archived'[m][f] \in Counts \cup {Absent}
    BY <1>1, AbsentAssumption DEF AbsentAssumption, TypeInv, TypeOK
  <2>2. archived'[m][f] >= archived[m][f] /\ archived'[m][f] \in Counts
    BY <2>1 DEF ArchiveGrows
  <2> QED
    BY <1>1, <2>2, MaxRowsAssumption DEF Counts, MaxRowsAssumption
<1>2. /\ jobs \in [Machines -> [Days -> Counts]]
      /\ syncLog \in [Machines -> [Days -> {"none"} \cup Exts]]
  BY DEF RecoveryTypeInv, RecoveryTypeOK, TypeInv, TypeOK
<1>3. SourceKept'
  BY <1>1, <1>2 DEF CoverInv, SourceKept, database, Files
<1>4. RowsCovered'
  BY <1>1, <1>2 DEF CoverInv, RowsCovered, database, Files
<1>5. HandArchived'
  <2> SUFFICES ASSUME reimport.pc \in InHand
               PROVE  archived'[Head(reimport.queue)][reimport.file] \in reimport.body .. MaxRows
    BY DEF HandArchived
  <2>1. /\ Head(reimport.queue) \in Machines /\ reimport.file \in Files
        /\ reimport.body \in Counts
    BY ReimportRange DEF InHand, Reading
  <2> QED
    BY <1>1, <2>1 DEF CoverInv, HandArchived
<1> QED
  BY <1>3, <1>4, <1>5 DEF CoverInv

\* A file that is in the archive is imported into its day.
LEMMA CoverImport ==
  ASSUME RecoveryTypeInv, CoverInv, NEW k \in Machines, NEW d \in Days, NEW e \in Exts,
         NEW n \in Counts, archived[k][<<d, e>>] \in n .. MaxRows,
         jobs' = [jobs EXCEPT ![k][d] = n], syncLog' = [syncLog EXCEPT ![k][d] = e],
         archived' = archived
  PROVE  SourceKept' /\ RowsCovered'
<1>1. ASSUME NEW m \in Machines, NEW c \in Days
      PROVE  /\ jobs'[m][c] = IF m = k /\ c = d THEN n ELSE jobs[m][c]
             /\ syncLog'[m][c] = IF m = k /\ c = d THEN e ELSE syncLog[m][c]
  BY DEF RecoveryTypeInv, RecoveryTypeOK, TypeInv, TypeOK
<1>2. SourceKept'
  BY <1>1 DEF CoverInv, SourceKept
<1>3. RowsCovered'
  BY <1>1 DEF CoverInv, RowsCovered
<1> QED
  BY <1>2, <1>3

LEMMA BesideSync ==
  ASSUME Cli = {}, LineCuts = FALSE, RecoveryTypeInv, BesideInv, SyncStarts \/ SyncGoesOn
  PROVE  BesideInv'
<1>1. [Next]_vars /\ TypeInv /\ TypeInv'
  BY SyncSteps, RecoveryTypeSync DEF RecoveryTypeInv, RecoveryTypeOK
<1>2. SnapshotInv' /\ ArchiveInv'
  BY <1>1, SnapshotNext, ArchiveNext DEF BesideInv
<1>3. /\ reimport'.pc = reimport.pc /\ reimport'.queue = reimport.queue
      /\ reimport'.file = reimport.file /\ reimport'.body = reimport.body
  <2>1. reimport' = reimport \/ reimport' = [reimport EXCEPT !.alone = FALSE]
    BY SyncSteps DEF SyncStarts
  <2>2. reimport \in Reimport
    BY ReimportRange
  <2> QED
    BY <2>1, <2>2 DEF Reimport
<1>4. ArchiveGrows
  BY <1>1, ArchiveOnlyGrows DEF BesideInv
<1>5. CASE UNCHANGED database
  BY <1>1, <1>2, <1>3, <1>4, <1>5, CoverGrows DEF BesideInv
<1>6. ASSUME NEW w \in Workers, ImportDate(w) PROVE BesideInv'
  <2>1. /\ run[w].pc = "commit" /\ run[w].body \in Counts /\ Machine(w) \in Machines
        /\ run[w].file \in Files /\ Day(w) \in Days /\ Ext(w) \in Exts
        /\ archived' = archived
    BY <1>1, <1>6, Locals DEF ImportDate, At, LocalsOK, Fetching, Validated
  <2>2. run[w].file = <<Day(w), Ext(w)>>
    BY <2>1 DEF Files, Day, Ext
  <2>3. archived[Machine(w)][<<Day(w), Ext(w)>>] = run[w].body
    BY <2>1, <2>2 DEF BesideInv, ArchiveInv, NewerThanArchive
  <2>4. run[w].body \in run[w].body .. MaxRows
    BY <2>1, MaxRowsAssumption DEF Counts, MaxRowsAssumption
  <2>5. SourceKept' /\ RowsCovered'
    BY <1>6, <2>1, <2>3, <2>4, CoverImport DEF ImportDate, BesideInv
  <2>6. HandArchived'
    BY <1>3, <2>1 DEF BesideInv, CoverInv, HandArchived
  <2> QED
    BY <1>2, <2>5, <2>6 DEF BesideInv, CoverInv
<1> QED
  BY <1>1, <1>5, <1>6, OnlyImportDate

\* The reimport touches nothing but the database.
LEMMA BesideFrame ==
  ASSUME BesideInv, UNCHANGED <<press, archived, lock, run>>, CoverInv'
  PROVE  BesideInv'
<1>1. UNCHANGED <<acl, csv>>
  BY DEF press
<1>2. ImportedIsArchived'
  BY AbsentAssumption DEF CoverInv, SourceKept, ImportedIsArchived, AbsentAssumption
<1>3. SnapshotInv'
  BY <1>1, <1>2 DEF BesideInv, SnapshotInv, PressOrder, SnapshotsOfPress, BodyOfPress,
     CommitIsArchived, VersionOf, Content, Machine
<1>4. ArchiveInv'
  BY DEF BesideInv, ArchiveInv, LockHeld, NewerThanArchive, Machine
<1> QED
  BY <1>3, <1>4 DEF BesideInv

\* The reimport touches not even that.
LEMMA BesideOnly ==
  ASSUME BesideInv, UNCHANGED vars, HandArchived'
  PROVE  BesideInv'
BY BesideFrame DEF vars, database, BesideInv, CoverInv, SourceKept, RowsCovered

LEMMA BesideReimport ==
  ASSUME RecoveryTypeInv, BesideInv, ReimportStep
  PROVE  BesideInv'
<1> USE ReimportRange
<1>0. TypeInv
  BY DEF RecoveryTypeInv, RecoveryTypeOK
<1>1. CASE reimport'.pc \notin InHand /\ UNCHANGED vars
  BY <1>1, BesideOnly DEF HandArchived
<1>2. CASE StartRebuild \/ CreateTables \/ StampVersion \/ StartPlain \/ Scan \/ NextMachine \/ Ends
  <2>1. reimport'.pc \notin InHand /\ UNCHANGED vars
    <3>1. CASE StartRebuild
      BY <3>1 DEF StartRebuild, Start, NoReimport, InHand
    <3>4. CASE StartPlain
      BY <3>4 DEF StartPlain, Start, NoReimport, InHand
    <3>5. CASE Ends
      BY <3>5 DEF Ends, NoReimport, InHand
    <3>2. CASE CreateTables \/ StampVersion \/ Scan
      BY <3>2 DEF CreateTables, StampVersion, Scan, Reimport, InHand
    <3>3. CASE NextMachine
      BY <3>3 DEF NextMachine, Reimport, InHand
    <3> QED
      BY <1>2, <3>1, <3>2, <3>3, <3>4, <3>5
  <2> QED
    BY <1>1, <2>1
<1>3. CASE DropTable
  <2>1. ASSUME NEW m \in Machines, NEW d \in Days
        PROVE  /\ jobs[m][d] \in Counts
               /\ jobs'[m][d] \in {0, jobs[m][d]}
               /\ syncLog'[m][d] \in {"none", syncLog[m][d]}
    BY <1>0, <1>3 DEF DropTable, TypeInv, TypeOK
  <2>2. UNCHANGED <<press, archived, lock, run>>
    BY <1>3 DEF DropTable
  <2>3. \A x, n \in Int : x \in n .. MaxRows /\ n >= 0 => x \in 0 .. MaxRows
    BY MaxRowsAssumption DEF MaxRowsAssumption
  <2>4. SourceKept'
    <3> SUFFICES ASSUME NEW m \in Machines, NEW d \in Days, syncLog'[m][d] # "none"
                 PROVE  archived[m][<<d, syncLog'[m][d]>>] \in jobs'[m][d] .. MaxRows
      BY <2>2 DEF SourceKept
    <3>1. syncLog'[m][d] = syncLog[m][d]
      BY <2>1
    <3>2. archived[m][<<d, syncLog[m][d]>>] \in jobs[m][d] .. MaxRows
      BY <3>1 DEF BesideInv, CoverInv, SourceKept
    <3>3. jobs[m][d] \in Int /\ jobs[m][d] >= 0
      BY <2>1, MaxRowsAssumption DEF Counts, MaxRowsAssumption
    <3> QED
      BY <2>1, <3>1, <3>2, <3>3, MaxRowsAssumption DEF MaxRowsAssumption
  <2>5. RowsCovered'
    BY <2>1, <2>2 DEF BesideInv, CoverInv, RowsCovered
  <2>6. HandArchived'
    <3>1. reimport'.pc \notin InHand
      BY <1>3 DEF DropTable, Reimport, InHand
    <3> QED
      BY <3>1 DEF HandArchived
  <2> QED
    BY <2>2, <2>4, <2>5, <2>6, BesideFrame DEF CoverInv
<1>4. CASE ReadFile
  <2>1. PICK f \in NextFiles(reimport.todo) :
          reimport' = [reimport EXCEPT !.pc = "check", !.todo = @ \ {f}, !.file = f,
                         !.body = archived[Head(reimport.queue)][f]]
    BY <1>4 DEF ReadFile
  <2>2. /\ f \in Files /\ Head(reimport.queue) \in Machines
        /\ archived[Head(reimport.queue)][f] # Absent
    BY <1>4 DEF ReadFile, NextFiles, Reimport, Reading, RecoveryTypeInv, ReimportLocalsOK
  <2>3. archived[Head(reimport.queue)][f] \in Counts
    BY <1>0, <2>2 DEF TypeInv, TypeOK
  <2>4. /\ reimport'.queue = reimport.queue /\ reimport'.file = f
        /\ reimport'.body = archived[Head(reimport.queue)][f]
    BY <2>1 DEF Reimport
  <2>5. UNCHANGED vars /\ archived' = archived
    BY <1>4 DEF ReadFile, vars
  <2>6. HandArchived'
    BY <2>3, <2>4, <2>5, MaxRowsAssumption DEF HandArchived, Counts, MaxRowsAssumption
  <2> QED
    BY <2>5, <2>6, BesideOnly
<1>5. CASE CheckFile
  <2>1. UNCHANGED vars /\ archived' = archived /\ reimport.pc = "check"
    BY <1>5 DEF CheckFile, vars
  <2>2. \/ reimport' = NextFile(reimport)
        \/ reimport' = [reimport EXCEPT !.pc = "commit"]
    BY <1>5 DEF CheckFile
  <2>3. CASE reimport' = NextFile(reimport)
    BY <1>1, <2>1, <2>3, NextFileType DEF InHand
  <2>4. CASE reimport' = [reimport EXCEPT !.pc = "commit"]
    <3>1. /\ reimport'.queue = reimport.queue /\ reimport'.file = reimport.file
          /\ reimport'.body = reimport.body
      BY <2>4 DEF Reimport
    <3>2. HandArchived'
      BY <2>1, <3>1 DEF BesideInv, CoverInv, HandArchived, InHand
    <3> QED
      BY <2>1, <3>2, BesideOnly
  <2> QED
    BY <2>2, <2>3, <2>4
<1>6. CASE ImportFile
  <2> DEFINE m == Head(reimport.queue)
             d == reimport.file[1]
             e == reimport.file[2]
  <2>1. /\ reimport.pc = "commit" /\ reimport' = NextFile(reimport)
        /\ UNCHANGED <<press, archived, lock, run>>
        /\ jobs' = [jobs EXCEPT ![m][d] = reimport.body]
        /\ syncLog' = [syncLog EXCEPT ![m][d] = e]
    BY <1>6 DEF ImportFile
  <2>2. /\ m \in Machines /\ d \in Days /\ e \in Exts /\ reimport.body \in Counts
        /\ reimport.file = <<d, e>>
    BY <2>1 DEF Reading, InHand, Files
  <2>3. archived[m][<<d, e>>] \in reimport.body .. MaxRows
    BY <2>1, <2>2 DEF BesideInv, CoverInv, HandArchived, InHand
  <2>4. SourceKept' /\ RowsCovered'
    BY <2>1, <2>2, <2>3, CoverImport DEF BesideInv
  <2>5. HandArchived'
    BY <2>1, NextFileType DEF HandArchived, InHand
  <2> QED
    BY <2>1, <2>4, <2>5, BesideFrame DEF CoverInv
<1> QED
  BY <1>2, <1>3, <1>4, <1>5, <1>6 DEF ReimportStep

LEMMA BesideNext ==
  /\ Cli = {} /\ LineCuts = FALSE
  /\ RecoveryTypeInv /\ BesideInv /\ [RecoveryNext]_recoveryVars
  => BesideInv'
<1> SUFFICES ASSUME Cli = {}, LineCuts = FALSE, RecoveryTypeInv, BesideInv,
                    [RecoveryNext]_recoveryVars
             PROVE  BesideInv'
  OBVIOUS
<1>1. CASE UNCHANGED recoveryVars
  <2>1. UNCHANGED vars /\ HandArchived'
    BY <1>1 DEF recoveryVars, vars, BesideInv, CoverInv, HandArchived
  <2> QED
    BY <2>1, BesideOnly
<1> QED
  BY <1>1, BesideSync, BesideReimport DEF RecoveryNext

LEMMA BesideInvariant ==
  ASSUME Cli = {}, LineCuts = FALSE
  PROVE  RecoverySpec => [](RecoveryTypeInv /\ BesideInv)
<1>1. RecoveryInit => RecoveryTypeInv /\ BesideInv
  BY RecoveryTypeInit, BesideInit
<1>2. RecoveryTypeInv /\ BesideInv /\ [RecoveryNext]_recoveryVars
      => (RecoveryTypeInv /\ BesideInv)'
  BY RecoveryTypeNext, BesideNext
<1> QED
  BY <1>1, <1>2, PTL DEF RecoverySpec

\* If a cut download always shows, and with no sync from the command line, the
\* archive rebuilds every imported day with no record less than the database
\* has, at any moment of any syncs and of any reimport beside them, also one
\* that died anywhere (reset_db: "The job data can be
\* reimported from a complete raw archive").
THEOREM ArchiveCoversBesideReimport ==
  ASSUME Cli = {}, LineCuts = FALSE
  PROVE  RecoverySpec => []ArchiveCoversDatabase
<1>1. RecoveryTypeInv /\ BesideInv => ArchiveCoversDatabase
  BY SourceKeptCovers DEF RecoveryTypeInv, RecoveryTypeOK, BesideInv, CoverInv
<1> QED
  BY <1>1, BesideInvariant, PTL
-----------------------------------------------------------------------------
(* A reimport that no sync runs beside follows the archive.                *)

LEMMA FilesOfDay ==
  ASSUME NEW m, NEW d \in Days
  PROVE  /\ <<d, "ACL">> \in Files /\ <<d, "CSV">> \in Files
         /\ LastFile(m, d) \in {<<d, "ACL">>, <<d, "CSV">>}
         /\ LastFile(m, d)[1] = d
BY DEF Files, Exts, LastFile

\* The last file of a day decides what a rebuild makes of it.
LEMMA RebuiltIsLast ==
  ASSUME TypeInv, SnapshotInv, NEW m \in Machines, NEW d \in Days,
         archived[m][LastFile(m, d)] # Absent
  PROVE  /\ Rebuilt(m, d).kind = LastFile(m, d)[2]
         /\ Rebuilt(m, d).rows = archived[m][LastFile(m, d)]
<1>1. CASE archived[m][<<d, "CSV">>] # Absent
  <2>1. CsvWins(m, d)
    BY <1>1, ArchivedOrder DEF CsvWins
  <2> QED
    BY <1>1, <2>1 DEF Rebuilt, LastFile
<1>2. CASE archived[m][<<d, "CSV">>] = Absent
  <2>1. ~CsvWins(m, d)
    BY <1>2 DEF CsvWins
  <2> QED
    BY <1>2, <2>1 DEF Rebuilt, LastFile
<1> QED
  BY <1>1, <1>2

\* It is never refused: the database holds no more rows than it has.
LEMMA LastIsAccepted ==
  ASSUME TypeInv, SnapshotInv, CoverInv, NEW m \in Machines, NEW d \in Days,
         archived[m][LastFile(m, d)] # Absent
  PROVE  Accepted(m, d, archived[m][LastFile(m, d)])
<1> DEFINE last == archived[m][LastFile(m, d)]
           a == archived[m][<<d, "ACL">>]
           c == archived[m][<<d, "CSV">>]
<1>0. LastFile(m, d) \in Files /\ <<d, "ACL">> \in Files /\ <<d, "CSV">> \in Files
  BY FilesOfDay
<1>1. /\ last \in Counts /\ jobs[m][d] \in Counts
      /\ a \in Counts \cup {Absent} /\ c \in Counts \cup {Absent}
  BY <1>0 DEF TypeInv, TypeOK
<1>2. last \in Int /\ last >= 0 /\ jobs[m][d] \in Int /\ Absent \notin jobs[m][d] .. MaxRows
  BY <1>1, MaxRowsAssumption, AbsentAssumption DEF Counts, MaxRowsAssumption, AbsentAssumption
<1>3. last >= jobs[m][d]
  <2>1. CASE jobs[m][d] = 0
    BY <1>2, <2>1
  <2>2. CASE jobs[m][d] # 0
    <3>1. a \in jobs[m][d] .. MaxRows \/ c \in jobs[m][d] .. MaxRows
      BY <2>2 DEF CoverInv, RowsCovered, Exts
    <3>2. CASE c # Absent
      <4>1. last = c
        BY <3>2 DEF LastFile
      <4>2. CASE c \in jobs[m][d] .. MaxRows
        BY <1>2, <4>1, <4>2, MaxRowsAssumption DEF MaxRowsAssumption
      <4>3. CASE a \in jobs[m][d] .. MaxRows
        <5>1. c >= a
          BY <1>2, <3>2, <4>3, ArchivedOrder
        <5> QED
          BY <1>2, <4>1, <4>3, <5>1, MaxRowsAssumption DEF MaxRowsAssumption
      <4> QED
        BY <3>1, <4>2, <4>3
    <3>3. CASE c = Absent
      <4>1. last = a /\ a \in jobs[m][d] .. MaxRows
        BY <1>2, <3>1, <3>3 DEF LastFile
      <4> QED
        BY <1>2, <4>1, MaxRowsAssumption DEF MaxRowsAssumption
    <3> QED
      BY <3>2, <3>3
  <2> QED
    BY <2>1, <2>2
<1> QED
  BY <1>1, <1>3, CountsFacts DEF Accepted

\* A day without a file in the archive has nothing in the database.
LEMMA NothingArchived ==
  ASSUME TypeInv, CoverInv, NEW m \in Machines, NEW d \in Days,
         archived[m][LastFile(m, d)] = Absent
  PROVE  Restored(m, d)
<1>1. archived[m][<<d, "CSV">>] = Absent /\ archived[m][<<d, "ACL">>] = Absent
  BY DEF LastFile
<1>2. jobs[m][d] \in Counts /\ syncLog[m][d] \in {"none"} \cup Exts
  BY DEF TypeInv, TypeOK
<1>3. Absent \notin jobs[m][d] .. MaxRows
  BY <1>2, MaxRowsAssumption, AbsentAssumption DEF Counts, MaxRowsAssumption, AbsentAssumption
<1>4. syncLog[m][d] = "none" /\ jobs[m][d] = 0
  BY <1>1, <1>2, <1>3 DEF CoverInv, SourceKept, RowsCovered, Exts
<1> QED
  BY <1>1, <1>4 DEF Restored, Rebuilt, CsvWins

LEMMA FollowsInit == RecoveryInit => FollowsArchive
BY DEF RecoveryInit, NoReimport, FollowsArchive

\* The reimport stands still, and so does what it reads and writes.
LEMMA FollowsFrame ==
  ASSUME FollowsArchive, UNCHANGED <<archived, jobs, syncLog, reimport>>,
         reimport.alone => NobodySyncs'
  PROVE  FollowsArchive'
BY DEF FollowsArchive, HandCurrent, DayFollows, PressFollows, Ahead, LastFile, Restored,
   Rebuilt, CsvWins

LEMMA FollowsSync ==
  ASSUME Cli = {}, RecoveryTypeInv, FollowsArchive, SyncStarts \/ SyncGoesOn
  PROVE  FollowsArchive'
<1>1. CASE SyncStarts
  <2>1. reimport'.alone = FALSE
    BY <1>1, ReimportRange DEF SyncStarts, Reimport
  <2> QED
    BY <2>1 DEF FollowsArchive
<1>2. CASE SyncGoesOn /\ reimport.alone
  <2>1. NobodySyncs
    BY <1>2 DEF FollowsArchive
  <2>2. ASSUME NEW w \in Workers PROVE ~WorkerStep(w)
    <3>1. run[w].pc = "idle"
      BY <2>1 DEF NobodySyncs, Idle
    <3> QED
      BY <3>1 DEF WorkerStep, Progress, ListingFails, DownloadDamaged, DownloadFails,
         StepFails, Abort, FetchListing, SkipFile, PlanFile, Download, Received, FileGone,
         Validate, Reject, Archive, ImportCheck, ImportDate, CheckedStep, FilesDone,
         RecordRun, At
  <2>3. PressStep \/ ServiceCrash
    <3>1. ASSUME NEW w \in Workers PROVE ~EnsureSchema(w)
      BY <2>1 DEF EnsureSchema, At, NobodySyncs, Idle
    <3> QED
      BY <1>2, <2>2, <3>1 DEF SyncGoesOn
  <2>4. UNCHANGED <<archived, jobs, syncLog, reimport>> /\ NobodySyncs'
    BY <1>2, <2>1, <2>3, SyncSteps DEF PressStep, ServiceCrash, database, NobodySyncs
  <2> QED
    BY <2>4, FollowsFrame
<1>3. CASE SyncGoesOn /\ ~reimport.alone
  BY <1>3, SyncSteps DEF FollowsArchive
<1> QED
  BY <1>1, <1>2, <1>3

\* The reimport begins with the first press, or has not come to the files yet.
LEMMA FollowsBegin ==
  ASSUME RecoveryTypeInv, reimport'.alone => NobodySyncs',
         \/ reimport'.pc \notin {"scan", "done"} \cup Reading
         \/ reimport'.pc = "scan" /\ reimport'.queue = Config
  PROVE  FollowsArchive'
<1>1. HandCurrent' /\ reimport'.pc \notin Reading
  BY DEF HandCurrent, Reading, InHand
<1>2. ASSUME reimport'.queue = Config, NEW i \in 1 .. Len(Config) PROVE PressFollows(Config[i])'
  BY <1>2 DEF PressFollows
<1> QED
  BY <1>1, <1>2 DEF FollowsArchive

LEMMA FollowsScan ==
  ASSUME RecoveryTypeInv, BesideInv, FollowsArchive, Scan
  PROVE  FollowsArchive'
<1>0. PICK m \in Machines : m = Head(reimport.queue)
  BY ReimportRange DEF Scan
<1>1. /\ reimport.pc = "scan" /\ TypeInv
      /\ reimport'.pc = "files" /\ reimport'.queue = reimport.queue
      /\ reimport'.alone = reimport.alone
      /\ reimport'.todo = {f \in Files : archived[m][f] # Absent}
      /\ UNCHANGED <<archived, jobs, syncLog, run>>
  BY <1>0, ReimportRange DEF Scan, vars, database, Reimport, RecoveryTypeInv, RecoveryTypeOK
<1>2. ASSUME NEW k, NEW d, Restored(k, d) PROVE Restored(k, d)'
  BY <1>1, <1>2 DEF Restored, Rebuilt, CsvWins
<1>3. ASSUME NEW d \in Days PROVE DayFollows(m, d)'
  <2>1. LastFile(m, d)' = LastFile(m, d)
    BY <1>1 DEF LastFile
  <2>2. Ahead(LastFile(m, d))' \/ Restored(m, d)'
    <3>1. CASE archived[m][LastFile(m, d)] = Absent
      BY <1>1, <1>2, <3>1, NothingArchived DEF BesideInv
    <3>2. CASE archived[m][LastFile(m, d)] # Absent
      <4>1. LastFile(m, d) \in Files
        BY FilesOfDay
      <4>2. LastFile(m, d) \in reimport'.todo
        BY <1>1, <3>2, <4>1
      <4> QED
        BY <2>1, <4>2 DEF Ahead
    <3> QED
      BY <3>1, <3>2
  <2>3. archived[m][<<d, "CSV">>] # Absent => <<d, "CSV">> \in reimport'.todo
    BY <1>1, FilesOfDay
  <2> QED
    BY <1>1, <2>2, <2>3 DEF DayFollows
<1>4. ASSUME NEW k, PressFollows(k) PROVE PressFollows(k)'
  BY <1>1, <1>2, <1>4 DEF PressFollows
<1> QED
  BY <1>0, <1>1, <1>3, <1>4 DEF FollowsArchive, HandCurrent, InHand, NobodySyncs

LEMMA FollowsReadFile ==
  ASSUME RecoveryTypeInv, FollowsArchive, ReadFile
  PROVE  FollowsArchive'
<1>0. PICK m \in Machines : m = Head(reimport.queue)
  BY ReimportRange DEF ReadFile, Reading
<1>1. PICK f \in NextFiles(reimport.todo) :
        reimport' = [reimport EXCEPT !.pc = "check", !.todo = @ \ {f}, !.file = f,
                       !.body = archived[m][f]]
  BY <1>0 DEF ReadFile
<1>2. /\ reimport.pc = "files" /\ UNCHANGED <<archived, jobs, syncLog, run>>
      /\ reimport'.pc = "check" /\ reimport'.queue = reimport.queue
      /\ reimport'.alone = reimport.alone /\ reimport'.todo = reimport.todo \ {f}
      /\ reimport'.file = f /\ reimport'.body = archived[m][f]
      /\ f \in reimport.todo
  BY <1>1, ReimportRange DEF ReadFile, NextFiles, vars, database, Reimport
<1>3. ASSUME NEW k, NEW d, Restored(k, d) PROVE Restored(k, d)'
  BY <1>2, <1>3 DEF Restored, Rebuilt, CsvWins
<1>4. ASSUME NEW g PROVE Ahead(g)' <=> g \in reimport.todo
  BY <1>2 DEF Ahead, InHand
<1>5. ASSUME NEW g PROVE Ahead(g) <=> g \in reimport.todo
  BY <1>2 DEF Ahead, InHand
<1>6. ASSUME NEW d \in Days, DayFollows(m, d) PROVE DayFollows(m, d)'
  <2>1. Ahead(LastFile(m, d))' \/ Restored(m, d)'
    <3>1. LastFile(m, d)' = LastFile(m, d)
      BY <1>2 DEF LastFile
    <3> QED
      BY <1>3, <1>4, <1>5, <1>6, <3>1 DEF DayFollows
  <2>2. ASSUME Ahead(<<d, "ACL">>)', archived[m][<<d, "CSV">>] # Absent
        PROVE  <<d, "CSV">> \in reimport'.todo
    <3>1. <<d, "ACL">> \in reimport.todo /\ <<d, "CSV">> \in reimport.todo
      BY <1>4, <1>5, <1>6, <2>2 DEF DayFollows
    <3>2. f # <<d, "CSV">>
      BY <1>1, <3>1 DEF NextFiles
    <3> QED
      BY <1>2, <3>1, <3>2
  <2> QED
    BY <1>2, <2>1, <2>2 DEF DayFollows
<1>7. ASSUME NEW k, PressFollows(k) PROVE PressFollows(k)'
  BY <1>2, <1>3, <1>7 DEF PressFollows
<1> QED
  BY <1>0, <1>2, <1>6, <1>7 DEF FollowsArchive, HandCurrent, NobodySyncs, Reading

LEMMA FollowsCheckFile ==
  ASSUME RecoveryTypeInv, BesideInv, FollowsArchive, CheckFile
  PROVE  FollowsArchive'
<1>0. PICK m \in Machines : m = Head(reimport.queue)
  BY ReimportRange DEF CheckFile, Reading
<1>1. /\ reimport.pc = "check" /\ UNCHANGED <<archived, jobs, syncLog, run>>
      /\ reimport \in Reimport /\ TypeInv
      /\ reimport.file \in Files
  BY ReimportRange DEF CheckFile, vars, database, RecoveryTypeInv, RecoveryTypeOK, Reading, InHand
<1>2. ASSUME NEW k, NEW d, Restored(k, d) PROVE Restored(k, d)'
  BY <1>1, <1>2 DEF Restored, Rebuilt, CsvWins
<1>3. ASSUME NEW k, NEW d PROVE LastFile(k, d)' = LastFile(k, d)
  BY <1>1 DEF LastFile
<1>4. CASE reimport' = [reimport EXCEPT !.pc = "commit"]
  <2>1. /\ reimport'.pc = "commit" /\ reimport'.queue = reimport.queue
        /\ reimport'.alone = reimport.alone /\ reimport'.todo = reimport.todo
        /\ reimport'.file = reimport.file /\ reimport'.body = reimport.body
    BY <1>1, <1>4 DEF Reimport
  <2>2. ASSUME NEW g PROVE Ahead(g)' <=> Ahead(g)
    BY <1>1, <2>1 DEF Ahead, InHand
  <2>3. ASSUME NEW d \in Days, DayFollows(m, d) PROVE DayFollows(m, d)'
    BY <1>1, <1>2, <1>3, <2>1, <2>2, <2>3 DEF DayFollows
  <2>4. ASSUME NEW k, PressFollows(k) PROVE PressFollows(k)'
    BY <1>2, <2>1, <2>4 DEF PressFollows
  <2> QED
    BY <1>0, <1>1, <2>1, <2>3, <2>4 DEF FollowsArchive, HandCurrent, NobodySyncs, Reading, InHand
<1>5. CASE /\ reimport' = NextFile(reimport)
           /\ ~Accepted(m, reimport.file[1], reimport.body)
           /\ reimport.alone
  <2>1. /\ reimport'.pc = "files" /\ reimport'.queue = reimport.queue
        /\ reimport'.alone = reimport.alone /\ reimport'.todo = reimport.todo
    BY <1>1, <1>5, NextFileType DEF InHand
  <2>2. reimport.body = archived[m][reimport.file] /\ archived[m][reimport.file] # Absent
    <3>1. HandCurrent /\ HandArchived
      BY <1>5 DEF FollowsArchive, BesideInv, CoverInv
    <3>2. reimport.body # Absent
      BY <1>1, ReimportRange, CountsFacts DEF InHand
    <3> QED
      BY <1>0, <1>1, <3>1, <3>2 DEF HandCurrent, InHand
  <2>3. ASSUME NEW d \in Days PROVE reimport.file # LastFile(m, d)
    <3>1. SUFFICES ASSUME reimport.file = LastFile(m, d) PROVE FALSE
      OBVIOUS
    <3>2. reimport.file[1] = d
      BY <3>1, FilesOfDay
    <3> QED
      BY <1>1, <1>5, <2>2, <3>1, <3>2, LastIsAccepted DEF BesideInv
  <2>4. ASSUME NEW d \in Days, DayFollows(m, d) PROVE DayFollows(m, d)'
    <3>1. Ahead(LastFile(m, d))' \/ Restored(m, d)'
      BY <1>2, <1>3, <2>1, <2>3, <2>4 DEF DayFollows, Ahead
    <3>2. Ahead(<<d, "ACL">>)' => Ahead(<<d, "ACL">>)
      BY <2>1 DEF Ahead, InHand
    <3> QED
      BY <1>1, <2>1, <2>4, <3>1, <3>2 DEF DayFollows
  <2>5. ASSUME NEW k, PressFollows(k) PROVE PressFollows(k)'
    BY <1>2, <2>1, <2>5 DEF PressFollows
  <2> QED
    BY <1>0, <1>1, <1>5, <2>1, <2>4, <2>5 DEF FollowsArchive, HandCurrent, NobodySyncs, Reading, InHand
<1>6. CASE reimport' = NextFile(reimport) /\ ~reimport.alone
  <2>1. ~reimport'.alone
    BY <1>1, <1>6, NextFileType DEF InHand
  <2> QED
    BY <2>1 DEF FollowsArchive
<1> QED
  BY <1>0, <1>4, <1>5, <1>6 DEF CheckFile

LEMMA FollowsImportFile ==
  ASSUME RecoveryTypeInv, BesideInv, FollowsArchive, ImportFile, reimport.alone
  PROVE  FollowsArchive'
<1>0. PICK m \in Machines, f \in Files, d \in Days :
        m = Head(reimport.queue) /\ f = reimport.file /\ d = f[1]
  BY ReimportRange DEF ImportFile, Reading, InHand
<1>1. /\ reimport.pc = "commit" /\ UNCHANGED <<archived, run>>
      /\ reimport \in Reimport /\ TypeInv /\ SnapshotInv /\ reimport.body \in Counts
      /\ jobs' = [jobs EXCEPT ![m][d] = reimport.body]
      /\ syncLog' = [syncLog EXCEPT ![m][d] = f[2]]
  BY <1>0, ReimportRange DEF ImportFile, RecoveryTypeInv, RecoveryTypeOK, BesideInv, Reading, InHand
<1>2. /\ reimport'.pc = "files" /\ reimport'.queue = reimport.queue
      /\ reimport'.alone = reimport.alone /\ reimport'.todo = reimport.todo
      /\ reimport.queue # <<>>
  BY <1>1, NextFileType DEF InHand, ImportFile
<1>3. ASSUME NEW k \in Machines, NEW c \in Days, Restored(k, c), ~(k = m /\ c = d)
      PROVE  Restored(k, c)'
  <2>1. jobs'[k][c] = jobs[k][c] /\ syncLog'[k][c] = syncLog[k][c]
    BY <1>1, <1>3 DEF TypeInv, TypeOK
  <2> QED
    BY <1>1, <1>3, <2>1 DEF Restored, Rebuilt, CsvWins
<1>8. reimport.body = archived[m][f] /\ reimport.body # Absent
  BY <1>0, <1>1, CountsFacts DEF FollowsArchive, HandCurrent, InHand
<1>4. f = LastFile(m, d) => Restored(m, d)'
  <2>1. SUFFICES ASSUME f = LastFile(m, d) PROVE Restored(m, d)'
    OBVIOUS
  <2>3. Rebuilt(m, d).kind = f[2] /\ Rebuilt(m, d).rows = reimport.body
    BY <1>1, <1>8, <2>1, RebuiltIsLast
  <2>4. jobs'[m][d] = reimport.body /\ syncLog'[m][d] = f[2]
    BY <1>1 DEF TypeInv, TypeOK
  <2> QED
    BY <1>1, <2>3, <2>4 DEF Restored, Rebuilt, CsvWins
<1>5. \A c \in Days : DayFollows(m, c)
  BY <1>0, <1>1 DEF FollowsArchive, Reading
<1>6. ASSUME NEW c \in Days PROVE DayFollows(m, c)'
  <2>1. LastFile(m, c)' = LastFile(m, c)
    BY <1>1 DEF LastFile
  <2>2. Ahead(<<c, "ACL">>)' => Ahead(<<c, "ACL">>)
    BY <1>2 DEF Ahead, InHand
  <2>3. Ahead(LastFile(m, c))' \/ Restored(m, c)'
    <3>1. CASE c # d
      <4>1. LastFile(m, c) # f
        BY <1>0, <3>1, FilesOfDay
      <4> QED
        BY <1>0, <1>1, <1>2, <1>3, <1>5, <2>1, <3>1, <4>1 DEF DayFollows, Ahead
    <3>2. CASE c = d /\ f = LastFile(m, d)
      BY <1>4, <3>2
    <3>3. CASE c = d /\ f # LastFile(m, d)
      <4>1. f = <<d, "ACL">> /\ archived[m][<<d, "CSV">>] # Absent
        <5>1. f = <<d, "ACL">> \/ f = <<d, "CSV">>
          BY <1>0 DEF Files, Exts
        <5> QED
          BY <1>8, <3>3, <5>1 DEF LastFile
      <4>2. Ahead(<<d, "ACL">>)
        BY <1>0, <1>1, <4>1 DEF Ahead, InHand
      <4>3. <<d, "CSV">> \in reimport.todo /\ LastFile(m, d) = <<d, "CSV">>
        BY <1>1, <1>5, <4>1, <4>2 DEF DayFollows, LastFile
      <4> QED
        BY <1>2, <2>1, <3>3, <4>3 DEF Ahead
    <3> QED
      BY <3>1, <3>2, <3>3
  <2> QED
    BY <1>1, <1>2, <1>5, <2>2, <2>3 DEF DayFollows
<1>7. ASSUME NEW i \in 1 .. Len(Config) PROVE PressFollows(Config[i])'
  <2>1. Config[i] \in Machines
    BY ConfigAssumption, ElementOfSeq DEF ConfigAssumption
  <2>2. PressFollows(Config[i])
    BY <1>1 DEF FollowsArchive, Reading
  <2>3. CASE Config[i] = m
    <3>1. reimport.queue[1] = m /\ 1 \in 1 .. Len(reimport.queue)
      BY <1>0, <1>1, <1>2, EmptySeq DEF Reimport
    <3> QED
      BY <1>2, <2>3, <3>1 DEF PressFollows
  <2>4. CASE Config[i] # m
    BY <1>2, <1>3, <2>1, <2>2, <2>4 DEF PressFollows
  <2> QED
    BY <2>3, <2>4
<1> QED
  BY <1>0, <1>1, <1>2, <1>6, <1>7 DEF FollowsArchive, HandCurrent, NobodySyncs, InHand

LEMMA FollowsNextMachine ==
  ASSUME RecoveryTypeInv, FollowsArchive, NextMachine, reimport.alone
  PROVE  FollowsArchive'
<1> DEFINE q == reimport.queue
           rest == Tail(q)
<1>1. /\ reimport.pc = "files" /\ reimport.todo = {} /\ q # <<>>
      /\ UNCHANGED <<archived, jobs, syncLog, run>> /\ reimport \in Reimport
  BY ReimportRange DEF NextMachine, vars, database, RecoveryTypeInv, ReimportLocalsOK, Reading
<1>2. /\ reimport'.pc \in {"scan", "done"} /\ reimport'.queue = rest
      /\ reimport'.alone = reimport.alone
  BY <1>1 DEF NextMachine, Reimport
<1>3. ASSUME NEW k, NEW d, Restored(k, d) PROVE Restored(k, d)'
  BY <1>1, <1>3 DEF Restored, Rebuilt, CsvWins
<1>4. \A d \in Days : Restored(Head(q), d)
  BY <1>1 DEF FollowsArchive, Reading, DayFollows, Ahead, InHand
<1>5. ASSUME NEW k, PressFollows(k) PROVE PressFollows(k)'
  <2>1. CASE \A d \in Days : Restored(k, d)
    BY <1>3, <2>1 DEF PressFollows
  <2>2. ASSUME NEW j \in 1 .. Len(q), q[j] = k PROVE PressFollows(k)'
    <3>1. CASE j = 1
      BY <1>3, <1>4, <2>2, <3>1 DEF PressFollows
    <3>2. CASE j # 1
      <4>1. q \in Seq(Machines)
        BY <1>1 DEF Reimport
      <4>2. Len(rest) = Len(q) - 1 /\ \A h \in 1 .. Len(rest) : rest[h] = q[h + 1]
        BY <1>1, <4>1, HeadTailProperties
      <4>3. Len(q) \in Nat
        BY <4>1, LenProperties
      <4>4. j - 1 \in 1 .. Len(rest) /\ rest[j - 1] = k
        BY <2>2, <3>2, <4>2, <4>3
      <4> QED
        BY <1>2, <4>4 DEF PressFollows
    <3> QED
      BY <3>1, <3>2
  <2> QED
    BY <1>5, <2>1, <2>2 DEF PressFollows
<1> QED
  BY <1>1, <1>2, <1>5 DEF FollowsArchive, HandCurrent, NobodySyncs, Reading, InHand

LEMMA FollowsReimport ==
  ASSUME RecoveryTypeInv, BesideInv, FollowsArchive, ReimportStep
  PROVE  FollowsArchive'
<1> USE ReimportRange
<1>1. CASE StartRebuild
  <2>1. reimport'.pc = "drop" /\ reimport'.alone = NobodySyncs /\ run' = run
    BY <1>1 DEF StartRebuild, Start, NoReimport, NobodySyncs, vars
  <2> QED
    BY <2>1, FollowsBegin DEF Reading, NobodySyncs
<1>2. CASE StartPlain
  <2>1. reimport'.pc = "create" /\ reimport'.alone = NobodySyncs /\ run' = run
    BY <1>2 DEF StartPlain, Start, NoReimport, NobodySyncs, vars
  <2> QED
    BY <2>1, FollowsBegin DEF Reading, NobodySyncs
<1>3. CASE DropTable \/ CreateTables \/ StampVersion
  <2>1. /\ reimport'.alone = reimport.alone /\ run' = run
        /\ \/ reimport'.pc \in {"drop", "create", "stamp"}
           \/ reimport'.pc = "scan" /\ reimport'.queue = Config
    BY <1>3 DEF DropTable, CreateTables, StampVersion, Reimport, vars
  <2> QED
    BY <2>1, FollowsBegin DEF FollowsArchive, NobodySyncs, Reading
<1>4. CASE Ends
  BY <1>4 DEF Ends, NoReimport, FollowsArchive
<1>5. CASE ImportFile \/ NextMachine
  <2>1. CASE reimport.alone
    BY <1>5, <2>1, FollowsImportFile, FollowsNextMachine
  <2>2. CASE ~reimport.alone
    <3>1. ~reimport'.alone
      BY <1>5, <2>2 DEF ImportFile, NextMachine, NextFile, Reimport
    <3> QED
      BY <3>1 DEF FollowsArchive
  <2> QED
    BY <2>1, <2>2
<1> QED
  BY <1>1, <1>2, <1>3, <1>4, <1>5, FollowsScan, FollowsReadFile, FollowsCheckFile
     DEF ReimportStep

LEMMA FollowsNext ==
  /\ Cli = {} /\ RecoveryTypeInv /\ BesideInv /\ FollowsArchive
  /\ [RecoveryNext]_recoveryVars
  => FollowsArchive'
<1> SUFFICES ASSUME Cli = {}, RecoveryTypeInv, BesideInv, FollowsArchive,
                    [RecoveryNext]_recoveryVars
             PROVE  FollowsArchive'
  OBVIOUS
<1>1. CASE UNCHANGED recoveryVars
  <2>1. UNCHANGED <<archived, jobs, syncLog, reimport, run>>
    BY <1>1 DEF recoveryVars, vars, database
  <2> QED
    BY <2>1, FollowsFrame DEF FollowsArchive, NobodySyncs
<1> QED
  BY <1>1, FollowsSync, FollowsReimport DEF RecoveryNext

\* If a cut download always shows, and with no sync from the command line, a
\* reimport that no sync ran beside leaves every day of every configured press as
\* the archive implies, whatever died half way before it: each day's last file
\* is accepted, because the archive covers the rows it meets, and what came
\* before it is replaced (reimport_from_raw, _raw_files).
THEOREM ReimportsRestore ==
  ASSUME Cli = {}, LineCuts = FALSE
  PROVE  RecoverySpec => []ReimportRestores
<1>1. RecoveryInit => FollowsArchive
  BY FollowsInit
<1>2. RecoveryTypeInv /\ BesideInv /\ FollowsArchive /\ [RecoveryNext]_recoveryVars
      => FollowsArchive'
  BY FollowsNext
<1>3. RecoveryTypeInv /\ FollowsArchive => ReimportRestores
  <2> SUFFICES ASSUME RecoveryTypeInv, FollowsArchive,
                      reimport.pc = "done", reimport.alone,
                      NEW i \in 1 .. Len(Config), NEW d \in Days
               PROVE  Restored(Config[i], d)
    BY DEF ReimportRestores, Restored
  <2>1. reimport.queue = <<>> /\ Len(<<>>) = 0
    BY EmptySeq DEF RecoveryTypeInv, ReimportLocalsOK
  <2>2. PressFollows(Config[i])
    BY DEF FollowsArchive
  <2> QED
    BY <2>1, <2>2 DEF PressFollows
<1> QED
  BY <1>1, <1>2, <1>3, BesideInvariant, PTL DEF RecoverySpec
=============================================================================
