--------------------------- MODULE SnapshotProofs ---------------------------
(***************************************************************************)
(* Proofs about the archive of Sync: what its snapshots are of the logs of *)
(* the presses.  They rest on nothing the database holds, so they are used *)
(* again where a reimport changes it (RecoveryProofs).                     *)
(***************************************************************************)
EXTENDS SyncProofs

-----------------------------------------------------------------------------
(* The lock, whoever else syncs.                                           *)

LEMMA LockInit == Init => LockHeld
BY DEF Init, LockHeld, Idle, Workers

\* Nobody's lock changes while worker w moves on.
LEMMA LockMove ==
  ASSUME TypeInv, LockHeld, NEW w \in Workers, run[w].pc # "idle",
         NEW r, Become(w, r), lock' = lock
  PROVE  LockHeld'
<1>1. \A v \in Workers \ {w} : run'[v] = run[v]
  BY DEF Become, TypeInv, TypeOK
<1> QED
  BY <1>1 DEF LockHeld, Workers

LEMMA LockEnd ==
  ASSUME TypeInv, LockHeld, NEW w \in Workers, Become(w, Idle), Release(w)
  PROVE  LockHeld'
<1>1. run'[w] = Idle /\ \A v \in Workers \ {w} : run'[v] = run[v]
  BY DEF Become, TypeInv, TypeOK
<1> QED
  BY <1>1 DEF LockHeld, Workers, Release, Idle

LEMMA LockStart ==
  ASSUME TypeInv, LockHeld, NEW w \in Service, NEW machines, RunSyncOnce(w, machines)
  PROVE  LockHeld'
<1>1. \A v \in Service : run[v].pc = "idle"
  BY WorkersAssumption DEF WorkersAssumption, RunSyncOnce, LockHeld, Workers
<1>2. \A v \in Service \ {w} : run'[v] = run[v]
  BY DEF RunSyncOnce, Launch, Become, TypeInv, TypeOK, Workers
<1> QED
  BY <1>1, <1>2 DEF LockHeld, RunSyncOnce

LEMMA LockNext == TypeInv /\ LockHeld /\ [Next]_vars => LockHeld'
<1> SUFFICES ASSUME TypeInv, LockHeld, [Next]_vars PROVE LockHeld'
  OBVIOUS
<1> USE DEF At
<1>1. CASE PressStep
  BY <1>1 DEF PressStep, LockHeld
<1>2. CASE TickStart \/ \E w \in Manual : ManualStart(w)
  BY <1>2, LockStart DEF TickStart, ManualStart, Service
<1>3. ASSUME NEW w \in Cli, CliStart(w) \/ CliCrash(w) PROVE LockHeld'
  <2>1. w \notin Service
    BY WorkersAssumption DEF WorkersAssumption
  <2>2. /\ \A v \in Service : run'[v] = run[v]
        /\ lock' = lock
    BY <1>3, <2>1 DEF CliStart, CliCrash, Launch, LocalStep, Become, TypeInv, TypeOK, Workers
  <2> QED
    BY <2>2 DEF LockHeld
<1>4. ASSUME NEW w \in Workers, Progress(w) PROVE LockHeld'
  <2>1. CASE RecordRun(w)
    BY <2>1, LockMove, LockEnd DEF RecordRun
  <2>2. CASE ~RecordRun(w)
    BY <1>4, <2>2, LockMove DEF Progress, FetchListing, SkipFile, PlanFile, Download,
       Received, FileGone, DownloadFails, Validate, Reject, GiveUpFile, Archive,
       ImportCheck, ImportDate, CheckedStep, FilesDone, LocalStep
  <2> QED
    BY <2>1, <2>2
<1>5. ASSUME NEW w \in Workers, Failure(w) PROVE LockHeld'
  <2>1. CASE Abort(w)
    BY <2>1, LockEnd DEF Abort
  <2>2. CASE ~Abort(w)
    BY <1>5, <2>2, LockMove DEF Failure, ListingFails, DownloadDamaged, Received,
       DownloadFails, StepFails, GiveUpFile, LocalStep
  <2> QED
    BY <2>1, <2>2
<1>6. CASE ServiceCrash
  BY <1>6 DEF ServiceCrash, LockHeld, Workers, Idle
<1>7. CASE UNCHANGED vars
  BY <1>7 DEF vars, LockHeld
<1> QED
  BY <1>1, <1>2, <1>3, <1>4, <1>5, <1>6, <1>7 DEF Next

-----------------------------------------------------------------------------
(* The archive, whoever else syncs.                                        *)

\* Only the step Archive writes a snapshot.
LEMMA OnlyArchive ==
  ASSUME [Next]_vars
  PROVE  archived' = archived \/ \E w \in Workers : Archive(w)
<1>1. ASSUME NEW w \in Workers, Progress(w) PROVE archived' = archived \/ Archive(w)
  BY <1>1 DEF Progress, FetchListing, SkipFile, PlanFile, Download, Received,
     FileGone, DownloadFails, Validate, Reject, GiveUpFile, ImportCheck, ImportDate,
     CheckedStep, FilesDone, RecordRun, LocalStep
<1>2. ASSUME NEW w \in Workers, Failure(w) PROVE archived' = archived
  BY <1>2 DEF Failure, ListingFails, DownloadDamaged, Received, DownloadFails,
     StepFails, GiveUpFile, Abort, LocalStep
<1>3. CASE PressStep \/ ServiceCrash \/ UNCHANGED vars
  BY <1>3 DEF PressStep, ServiceCrash, vars
<1>4. CASE \/ TickStart \/ (\E w \in Manual : ManualStart(w))
           \/ (\E w \in Cli : CliStart(w) \/ CliCrash(w))
  BY <1>4 DEF TickStart, ManualStart, RunSyncOnce, CliStart, CliCrash, Launch, LocalStep
<1> QED
  BY <1>1, <1>2, <1>3, <1>4 DEF Next

LEMMA WhatArchiveWrites ==
  ASSUME TypeInv, NEW w \in Workers, Archive(w)
  PROVE  /\ run[w].pc = "archive" /\ run[w].body \in Counts
         /\ Machine(w) \in Machines /\ run[w].file \in Files
         /\ \A m \in Machines, f \in Files :
              archived'[m][f] = IF m = Machine(w) /\ f = run[w].file
                                THEN run[w].body ELSE archived[m][f]
<1>1. /\ run[w].pc = "archive" /\ run[w].body \in Counts
      /\ Machine(w) \in Machines /\ run[w].file \in Files
  BY Locals DEF Archive, At, LocalsOK, Validated, Fetching
<1> QED
  BY <1>1 DEF Archive, TypeInv, TypeOK

LEMMA SnapshotsStay ==
  ASSUME TypeInv, [Next]_vars,
         NEW m \in Machines, NEW f \in Files, archived[m][f] # Absent
  PROVE  archived'[m][f] # Absent
BY OnlyArchive, WhatArchiveWrites, CountsFacts

-----------------------------------------------------------------------------
(* Snapshots are versions of the press's logs, with any syncs beside each  *)
(* other, when a cut download shows.                                       *)

LEMMA SnapshotInit == Init => SnapshotInv
<1> SUFFICES ASSUME Init PROVE SnapshotInv
  OBVIOUS
<1>1. PressOrder /\ SnapshotsOfPress /\ ImportedIsArchived
  BY DEF Init, PressInit, PressOrder, SnapshotsOfPress, ImportedIsArchived
<1>2. \A w \in Workers : BodyOfPress(w) /\ CommitIsArchived(w)
  BY DEF Init, Idle, BodyOfPress, CommitIsArchived, Validated
<1> QED
  BY <1>1, <1>2 DEF SnapshotInv

\* A log only grows, and a closed one no longer changes.
LEMMA PressGrows ==
  ASSUME TypeInv, PressOrder, PressStep
  PROVE  /\ PressOrder'
         /\ \A m \in Machines, f \in Files, n \in Counts :
              VersionOf(m, f, n) => VersionOf(m, f, n)'
<1> USE DEF TypeInv, TypeOK, PressTypeOK
<1>1. PICK m \in Machines :
        \/ \E d \in Days : OpenDay(m, d) \/ AppendRecord(m, d) \/ Rotate(m, d)
        \/ \E f \in Files : Expire(m, f)
  BY DEF PressStep, PressNext
<1>2. CASE \E f \in Files : Expire(m, f)
  BY <1>2 DEF Expire, PressOrder, VersionOf, Content
<1>3. ASSUME NEW d \in Days, OpenDay(m, d) \/ AppendRecord(m, d) \/ Rotate(m, d),
             NEW k \in Machines, NEW c \in Days
      PROVE  /\ acl[k][c] \in Counts => acl'[k][c] \in Counts /\ acl'[k][c] >= acl[k][c]
             /\ csv[k][c] \in Counts => csv'[k][c] = csv[k][c]
             /\ csv[k][c] \in Counts /\ acl[k][c] \in Counts => acl'[k][c] = acl[k][c]
             /\ csv[k][c] = Absent /\ csv'[k][c] # Absent =>
                  acl[k][c] \in Counts /\ acl'[k][c] = acl[k][c] /\ acl[k][c] <= csv'[k][c]
  <2>1. /\ acl[k][c] \in Counts \cup {Absent} /\ csv[k][c] \in Counts \cup {Absent}
        /\ acl'[k][c] \in Counts \cup {Absent} /\ csv'[k][c] \in Counts \cup {Absent}
    <3>1. TypeInv'
      BY TypeInvPress
    <3> QED
      BY <3>1
  <2> HIDE DEF TypeInv, TypeOK, PressTypeOK
  <2>5. /\ acl[k][c] # Absent <=> acl[k][c] \in Int
        /\ csv[k][c] # Absent <=> csv[k][c] \in Int
    BY <2>1, CountsFacts, AbsentAssumption DEF AbsentAssumption
  <2>2. CASE OpenDay(m, d)
    <3>1. csv'[k][c] = csv[k][c] /\ (acl[k][c] # Absent => acl'[k][c] = acl[k][c])
      BY <2>2 DEF OpenDay, TypeInv, TypeOK, PressTypeOK
    <3> QED
      BY <2>1, <2>5, <3>1, CountsFacts
  <2>3. CASE AppendRecord(m, d)
    <3>1. /\ csv'[k][c] = csv[k][c]
          /\ \/ acl'[k][c] = acl[k][c]
             \/ acl[k][c] \in Counts /\ acl'[k][c] = acl[k][c] + 1 /\ csv[k][c] = Absent
      BY <2>3 DEF AppendRecord, TypeInv, TypeOK, PressTypeOK
    <3> QED
      BY <2>1, <2>5, <3>1, CountsFacts
  <2>4. CASE Rotate(m, d)
    <3>1. PICK n \in acl[m][d] .. MaxRows : csv' = [csv EXCEPT ![m][d] = n]
      BY <2>4 DEF Rotate
    <3>2. n >= acl[m][d] /\ acl[m][d] \in Counts /\ csv[m][d] = Absent /\ acl' = acl
      BY <2>4, CountsFacts, MaxRowsAssumption DEF Rotate, MaxRowsAssumption
    <3>3. CASE k = m /\ c = d
      <4>1. csv'[k][c] = n
        BY <3>1, <3>3 DEF TypeInv, TypeOK, PressTypeOK
      <4> QED
        BY <2>1, <2>5, <3>1, <3>2, <3>3, <4>1, CountsFacts
    <3>4. CASE ~(k = m /\ c = d)
      <4>1. csv'[k][c] = csv[k][c]
        BY <3>1, <3>4 DEF TypeInv, TypeOK, PressTypeOK
      <4> QED
        BY <2>1, <2>5, <3>2, <4>1, CountsFacts
    <3> QED
      BY <3>3, <3>4
  <2> QED
    BY <1>3, <2>2, <2>3, <2>4
<1>4. CASE \E d \in Days : OpenDay(m, d) \/ AppendRecord(m, d) \/ Rotate(m, d)
  <2>1. PressOrder'
    <3> SUFFICES ASSUME NEW k \in Machines, NEW c \in Days, csv'[k][c] # Absent
                 PROVE  acl'[k][c] \in Counts /\ acl'[k][c] <= csv'[k][c]
      BY DEF PressOrder
    <3>1. CASE csv[k][c] \in Counts
      <4>1. acl[k][c] \in Counts /\ acl[k][c] <= csv[k][c]
        BY <3>1, CountsFacts DEF PressOrder
      <4> QED
        BY <1>3, <1>4, <3>1, <4>1
    <3>2. CASE csv[k][c] = Absent
      BY <1>3, <1>4, <3>2
    <3> QED
      BY <3>1, <3>2
  <2>2. ASSUME NEW k \in Machines, NEW f \in Files, NEW n \in Counts, VersionOf(k, f, n)
        PROVE  VersionOf(k, f, n)'
    <3>1. f[1] \in Days
      BY DEF Files
    <3>2. CASE f[2] = "ACL"
      <4>1. acl[k][f[1]] \in Counts /\ n <= acl[k][f[1]]
        BY <2>2, <3>2 DEF VersionOf, Content
      <4>2. acl'[k][f[1]] \in Counts /\ acl'[k][f[1]] >= acl[k][f[1]]
        BY <1>3, <1>4, <3>1, <4>1
      <4>3. n <= acl'[k][f[1]]
        <5>1. n \in Int /\ acl[k][f[1]] \in Int /\ acl'[k][f[1]] \in Int
          BY <4>1, <4>2, CountsFacts
        <5> QED
          BY <4>1, <4>2, <5>1
      <4> QED
        BY <3>2, <4>2, <4>3 DEF VersionOf, Content
    <3>3. CASE f[2] # "ACL"
      <4>1. csv[k][f[1]] \in Counts
        BY <2>2, <3>3 DEF VersionOf, Content
      <4>2. csv'[k][f[1]] = csv[k][f[1]]
        BY <1>3, <1>4, <3>1, <4>1
      <4> QED
        BY <2>2, <3>3, <4>2 DEF VersionOf, Content
    <3> QED
      BY <3>2, <3>3
  <2> QED
    BY <2>1, <2>2
<1> QED
  BY <1>1, <1>2, <1>4

LEMMA SnapshotPress ==
  ASSUME TypeInv, SnapshotInv, PressStep
  PROVE  SnapshotInv'
<1>1. UNCHANGED <<archived, jobs, syncLog, run>>
  BY DEF PressStep, database
<1>2. PressOrder'
  BY PressGrows DEF SnapshotInv
<1>3. SnapshotsOfPress'
  <2>1. \A m \in Machines, f \in Files : archived[m][f] # Absent => archived[m][f] \in Counts
    BY DEF TypeInv, TypeOK
  <2> QED
    BY <1>1, <2>1, PressGrows DEF SnapshotInv, SnapshotsOfPress
<1>4. ASSUME NEW w \in Workers PROVE BodyOfPress(w)' /\ CommitIsArchived(w)'
  <2>1. CommitIsArchived(w)'
    BY <1>1 DEF SnapshotInv, CommitIsArchived, Machine
  <2>2. BodyOfPress(w)'
    <3> SUFFICES ASSUME run[w].pc \in {"validate"} \cup Validated, run[w].body # Broken
                 PROVE  VersionOf(Machine(w), run[w].file, run[w].body)'
      BY <1>1 DEF BodyOfPress
    <3>1. /\ Machine(w) \in Machines /\ run[w].file \in Files /\ run[w].body \in Counts
          /\ Machine(w)' = Machine(w)
      BY <1>1, Locals DEF Fetching, Validated, LocalsOK, Bodies, Machine
    <3>2. VersionOf(Machine(w), run[w].file, run[w].body)
      BY DEF SnapshotInv, BodyOfPress
    <3>3. DEFINE k == Machine(w)
                 f == run[w].file
                 n == run[w].body
    <3>4. VersionOf(k, f, n)'
      BY <1>1, <3>1, <3>2, PressGrows DEF SnapshotInv, VersionOf, Content
    <3> QED
      BY <1>1, <3>1, <3>4
  <2> QED
    BY <2>1, <2>2
<1>5. ImportedIsArchived'
  BY <1>1 DEF SnapshotInv, ImportedIsArchived
<1> QED
  BY <1>2, <1>3, <1>4, <1>5 DEF SnapshotInv
\* Worker w moves on; no log, no snapshot changes.
LEMMA SnapshotBecome ==
  ASSUME TypeInv, SnapshotInv, NEW w \in Workers, NEW r, Become(w, r),
         UNCHANGED <<press, archived>>, ImportedIsArchived',
         BodyOfPress(w)', CommitIsArchived(w)'
  PROVE  SnapshotInv'
<1>1. \A v \in Workers \ {w} : run'[v] = run[v]
  BY DEF Become, TypeInv, TypeOK
<1>2. UNCHANGED <<acl, csv, archived>>
  BY DEF press
<1>3. ASSUME NEW v \in Workers \ {w} PROVE BodyOfPress(v)' /\ CommitIsArchived(v)'
  BY <1>1, <1>2 DEF SnapshotInv, BodyOfPress, CommitIsArchived, VersionOf, Content, Machine
<1>4. PressOrder' /\ SnapshotsOfPress'
  BY <1>2 DEF SnapshotInv, PressOrder, SnapshotsOfPress, VersionOf, Content
<1> QED
  BY <1>3, <1>4 DEF SnapshotInv

\* The worker is elsewhere than between download and import.
LEMMA SnapshotElsewhere ==
  ASSUME TypeInv, SnapshotInv, NEW w \in Workers, NEW r, Become(w, r),
         UNCHANGED <<press, archived, database>>, r.pc \notin {"validate"} \cup Validated
  PROVE  SnapshotInv'
<1>1. run'[w] = r
  BY DEF Become, TypeInv, TypeOK
<1>2. BodyOfPress(w)' /\ CommitIsArchived(w)'
  BY <1>1 DEF BodyOfPress, CommitIsArchived, Validated
<1>3. ImportedIsArchived'
  BY DEF SnapshotInv, ImportedIsArchived, database
<1> QED
  BY <1>2, <1>3, SnapshotBecome

LEMMA SnapshotGiveUpFile ==
  ASSUME TypeInv, SnapshotInv, NEW w \in Workers, GiveUpFile(w)
  PROVE  SnapshotInv'
<1> DEFINE r == [run[w] EXCEPT !.pc = "files", !.file = NoFile,
                               !.body = Absent, !.outcome = "errors"]
<1>1. r.pc = "files"
  BY Locals DEF Run
<1> QED
  BY <1>1, SnapshotElsewhere DEF GiveUpFile, LocalStep, Validated

LEMMA SnapshotReceived ==
  ASSUME TypeInv, SnapshotInv, NEW w \in Workers,
         NEW body \in {Broken, Content(Machine(w), run[w].file)}, Received(w, body)
  PROVE  SnapshotInv'
<1>1. /\ run'[w] = [run[w] EXCEPT !.pc = "validate", !.body = body]
      /\ run[w] \in Run /\ UNCHANGED <<acl, csv, archived, database>>
  BY Locals DEF Received, LocalStep, Become, TypeInv, TypeOK, press
<1>2. /\ run'[w].pc = "validate" /\ run'[w].body = body
      /\ run'[w].file = run[w].file /\ Machine(w)' = Machine(w)
  BY <1>1 DEF Run, Machine
<1>3. Content(Machine(w), run[w].file) \in Counts
  BY Locals DEF Received, At, Fetching, TypeInv, OfferedExists
<1>4. VersionOf(Machine(w), run[w].file, Content(Machine(w), run[w].file))
  <2>1. Content(Machine(w), run[w].file) \in Int
    BY <1>3, CountsFacts
  <2> QED
    BY <1>3, <2>1 DEF VersionOf
<1>5. BodyOfPress(w)' /\ CommitIsArchived(w)'
  BY <1>1, <1>2, <1>4 DEF BodyOfPress, CommitIsArchived, VersionOf, Content
<1>6. ImportedIsArchived'
  BY <1>1 DEF SnapshotInv, ImportedIsArchived, database
<1> QED
  BY <1>5, <1>6, SnapshotBecome DEF Received, LocalStep

\* The body stays what it was while it is checked.
LEMMA SnapshotChecked ==
  ASSUME TypeInv, SnapshotInv, NEW w \in Workers, NEW from, NEW to,
         <<from, to>> \in {<<"validate", "archive">>, <<"check", "commit">>},
         CheckedStep(w, from, to)
  PROVE  SnapshotInv'
<1>1. /\ run'[w] = [run[w] EXCEPT !.pc = to] /\ run[w] \in Run /\ run[w].pc = from
      /\ UNCHANGED <<acl, csv, archived, database>>
  BY Locals DEF CheckedStep, At, LocalStep, Become, TypeInv, TypeOK, press
<1>2. /\ run'[w].pc = to /\ run'[w].body = run[w].body
      /\ run'[w].file = run[w].file /\ Machine(w)' = Machine(w)
  BY <1>1 DEF Run, Machine
<1>3. BodyOfPress(w) /\ CommitIsArchived(w)
  BY DEF SnapshotInv
<1>4. BodyOfPress(w)' /\ CommitIsArchived(w)'
  BY <1>1, <1>2, <1>3 DEF BodyOfPress, CommitIsArchived, VersionOf, Content, Validated
<1>5. ImportedIsArchived'
  BY <1>1 DEF SnapshotInv, ImportedIsArchived, database
<1> QED
  BY <1>4, <1>5, SnapshotBecome DEF CheckedStep, LocalStep

LEMMA SnapshotArchive ==
  ASSUME TypeInv, SnapshotInv, NEW w \in Workers, Archive(w)
  PROVE  SnapshotInv'
<1> DEFINE k == Machine(w)
           g == run[w].file
<1>1. /\ run'[w] = [run[w] EXCEPT !.pc = "check"]
      /\ run[w] \in Run /\ run[w].pc = "archive" /\ run[w].body \in Counts
      /\ k \in Machines /\ g \in Files
      /\ UNCHANGED <<acl, csv, jobs, syncLog>>
  BY Locals DEF Archive, Become, TypeInv, TypeOK, At, LocalsOK, Fetching, Validated,
     database, press
<1>2. /\ run'[w].pc = "check" /\ run'[w].body = run[w].body
      /\ run'[w].file = g /\ Machine(w)' = k
  BY <1>1 DEF Run, Machine
<1>3. ASSUME NEW m \in Machines, NEW f \in Files
      PROVE  archived'[m][f] = IF m = k /\ f = g THEN run[w].body ELSE archived[m][f]
  BY <1>1 DEF Archive, TypeInv, TypeOK
<1>4. VersionOf(k, g, run[w].body) /\ run[w].body # Absent
  BY <1>1, CountsFacts DEF SnapshotInv, BodyOfPress, Validated
<1>5. PressOrder'
  BY <1>1 DEF SnapshotInv, PressOrder
<1>6. SnapshotsOfPress'
  BY <1>1, <1>3, <1>4 DEF SnapshotInv, SnapshotsOfPress, VersionOf, Content
<1>7. BodyOfPress(w)' /\ CommitIsArchived(w)'
  BY <1>1, <1>2, <1>3, <1>4 DEF BodyOfPress, CommitIsArchived, VersionOf, Content
<1>8. ASSUME NEW v \in Workers \ {w} PROVE BodyOfPress(v)' /\ CommitIsArchived(v)'
  <2>1. run'[v] = run[v]
    BY DEF Archive, Become, TypeInv, TypeOK
  <2>2. BodyOfPress(v)'
    BY <1>1, <2>1 DEF SnapshotInv, BodyOfPress, VersionOf, Content, Machine
  <2>3. CommitIsArchived(v)'
    <3> SUFFICES ASSUME run[v].pc \in {"check", "commit"}
                 PROVE  archived'[Machine(v)][run[v].file] # Absent
      BY <2>1 DEF CommitIsArchived, Machine
    <3>1. Machine(v) \in Machines /\ run[v].file \in Files
      BY Locals DEF Fetching
    <3> QED
      BY <1>3, <1>4, <3>1 DEF SnapshotInv, CommitIsArchived
  <2> QED
    BY <2>2, <2>3
<1>9. ImportedIsArchived'
  <2> SUFFICES ASSUME NEW m \in Machines, NEW d \in Days, syncLog[m][d] # "none"
               PROVE  archived'[m][<<d, syncLog[m][d]>>] # Absent
    BY <1>1 DEF ImportedIsArchived
  <2>1. <<d, syncLog[m][d]>> \in Files
    BY DEF TypeInv, TypeOK, Files
  <2> QED
    BY <1>3, <1>4, <2>1 DEF SnapshotInv, ImportedIsArchived
<1> QED
  BY <1>5, <1>6, <1>7, <1>8, <1>9 DEF SnapshotInv

LEMMA SnapshotImportDate ==
  ASSUME TypeInv, SnapshotInv, NEW w \in Workers, ImportDate(w)
  PROVE  SnapshotInv'
<1> DEFINE k == Machine(w)
           g == run[w].file
<1>1. /\ run'[w] = [run[w] EXCEPT !.pc = "files", !.file = NoFile, !.body = Absent]
      /\ run[w] \in Run /\ run[w].pc = "commit"
      /\ k \in Machines /\ g \in Files /\ Day(w) \in Days /\ Ext(w) \in Exts
      /\ UNCHANGED <<press, archived>>
      /\ Become(w, run'[w])
  BY Locals DEF ImportDate, Become, TypeInv, TypeOK, At, Fetching
<1>2. g = <<Day(w), Ext(w)>> /\ archived[k][g] # Absent
  BY <1>1 DEF Files, Day, Ext, SnapshotInv, CommitIsArchived
<1>3. BodyOfPress(w)' /\ CommitIsArchived(w)'
  BY <1>1 DEF BodyOfPress, CommitIsArchived, Validated, Run
<1>4. ImportedIsArchived'
  <2> SUFFICES ASSUME NEW m \in Machines, NEW d \in Days, syncLog'[m][d] # "none"
               PROVE  archived[m][<<d, syncLog'[m][d]>>] # Absent
    BY <1>1 DEF ImportedIsArchived
  <2>1. CASE m = k /\ d = Day(w)
    <3>1. syncLog'[m][d] = Ext(w)
      BY <1>1, <2>1 DEF ImportDate, TypeInv, TypeOK
    <3> QED
      BY <1>2, <2>1, <3>1
  <2>2. CASE ~(m = k /\ d = Day(w))
    <3>1. syncLog'[m][d] = syncLog[m][d]
      BY <1>1, <2>2 DEF ImportDate, TypeInv, TypeOK
    <3> QED
      BY <3>1 DEF SnapshotInv, ImportedIsArchived
  <2> QED
    BY <2>1, <2>2
<1> QED
  BY <1>1, <1>3, <1>4, SnapshotBecome
LEMMA SnapshotProgress ==
  ASSUME TypeInv, SnapshotInv, NEW w \in Workers, Progress(w)
  PROVE  SnapshotInv'
<1> USE DEF At
<1>1. CASE FetchListing(w)
  <2>1. PICK undated \in SUBSET Undated :
          LET names == offered[Machine(w)] \cup undated IN
          LocalStep(w, [run[w] EXCEPT !.pc = "files", !.listing = names, !.todo = names])
    BY <1>1 DEF FetchListing
  <2> DEFINE names == offered[Machine(w)] \cup undated
             r == [run[w] EXCEPT !.pc = "files", !.listing = names, !.todo = names]
  <2>2. r.pc = "files"
    BY Locals DEF Run
  <2> QED
    BY <1>1, <2>1, <2>2, SnapshotElsewhere DEF FetchListing, LocalStep, Validated
<1>2. ASSUME NEW f \in Files \cup Undated, SkipFile(w, f) PROVE SnapshotInv'
  <2> DEFINE r == [run[w] EXCEPT !.todo = @ \ {f}]
  <2>1. r.pc = "files"
    BY <1>2, Locals DEF Run, SkipFile
  <2> QED
    BY <1>2, <2>1, SnapshotElsewhere DEF SkipFile, LocalStep, Validated
<1>3. ASSUME NEW f \in Files \cup Undated, PlanFile(w, f) PROVE SnapshotInv'
  <2> DEFINE r == [run[w] EXCEPT !.pc = "download", !.file = f, !.todo = @ \ {f}]
  <2>1. r.pc = "download"
    BY Locals DEF Run
  <2> QED
    BY <1>3, <2>1, SnapshotElsewhere DEF PlanFile, LocalStep, Validated
<1>4. CASE Download(w)
  BY <1>4, SnapshotReceived DEF Download
<1>5. CASE FileGone(w)
  BY <1>5, SnapshotGiveUpFile DEF FileGone, DownloadFails
<1>6. CASE Validate(w) \/ ImportCheck(w)
  BY <1>6, SnapshotChecked DEF Validate, ImportCheck
<1>7. CASE Reject(w)
  BY <1>7, SnapshotGiveUpFile DEF Reject
<1>8. CASE FilesDone(w)
  <2> DEFINE r == [run[w] EXCEPT !.pc = "record"]
  <2>1. r.pc = "record"
    BY Locals DEF Run
  <2> QED
    BY <1>8, <2>1, SnapshotElsewhere DEF FilesDone, LocalStep, Validated
<1>9. CASE RecordRun(w)
  <2> DEFINE r == [Idle EXCEPT !.pc = "listing", !.queue = Tail(run[w].queue)]
  <2>1. r.pc = "listing" /\ Idle.pc = "idle"
    BY DEF Idle
  <2> QED
    BY <1>9, <2>1, SnapshotElsewhere DEF RecordRun, Validated
<1> QED
  BY <1>1, <1>2, <1>3, <1>4, <1>5, <1>6, <1>7, <1>8, <1>9,
     SnapshotArchive, SnapshotImportDate DEF Progress

LEMMA SnapshotFailure ==
  ASSUME LineCuts = FALSE, TypeInv, SnapshotInv, NEW w \in Workers, Failure(w)
  PROVE  SnapshotInv'
<1> USE DEF At
<1>1. CASE ListingFails(w)
  <2> DEFINE r == [run[w] EXCEPT !.pc = "record", !.outcome = "unreachable"]
  <2>1. r.pc = "record"
    BY Locals DEF Run
  <2> QED
    BY <1>1, <2>1, SnapshotElsewhere DEF ListingFails, LocalStep, Validated
<1>2. CASE DownloadDamaged(w)
  BY <1>2, SnapshotReceived DEF DownloadDamaged
<1>3. CASE DownloadFails(w) \/ StepFails(w)
  BY <1>3, SnapshotGiveUpFile DEF DownloadFails, StepFails
<1>4. CASE Abort(w)
  <2>1. Idle.pc = "idle"
    BY DEF Idle
  <2> QED
    BY <1>4, <2>1, SnapshotElsewhere DEF Abort, Validated
<1> QED
  BY <1>1, <1>2, <1>3, <1>4 DEF Failure

LEMMA SnapshotNext ==
  LineCuts = FALSE /\ TypeInv /\ SnapshotInv /\ [Next]_vars => SnapshotInv'
<1> SUFFICES ASSUME LineCuts = FALSE, TypeInv, SnapshotInv, [Next]_vars
             PROVE  SnapshotInv'
  OBVIOUS
<1>1. ASSUME NEW w \in Workers, NEW machines, Launch(w, machines) PROVE SnapshotInv'
  <2> DEFINE r == [Idle EXCEPT !.pc = "listing", !.queue = machines]
  <2>1. r.pc = "listing"
    BY DEF Idle
  <2> QED
    BY <1>1, <2>1, SnapshotElsewhere DEF Launch, Validated
<1>2. CASE TickStart \/ (\E w \in Manual : ManualStart(w)) \/ (\E w \in Cli : CliStart(w))
  BY <1>1, <1>2 DEF TickStart, ManualStart, CliStart, RunSyncOnce, Workers, Service
<1>3. ASSUME NEW w \in Cli, CliCrash(w) PROVE SnapshotInv'
  <2>1. Idle.pc = "idle"
    BY DEF Idle
  <2> QED
    BY <1>3, <2>1, SnapshotElsewhere DEF CliCrash, LocalStep, Validated, Workers
<1>4. ASSUME NEW w \in Workers, Progress(w) \/ Failure(w) PROVE SnapshotInv'
  BY <1>4, SnapshotProgress, SnapshotFailure
<1>5. CASE ServiceCrash \/ UNCHANGED vars
  <2>1. \A v \in Workers : run'[v] = Idle \/ run'[v] = run[v]
    BY <1>5 DEF ServiceCrash, vars
  <2>2. UNCHANGED <<acl, csv, archived, syncLog>>
    BY <1>5 DEF ServiceCrash, vars, press, database
  <2>3. ASSUME NEW v \in Workers PROVE BodyOfPress(v)' /\ CommitIsArchived(v)'
    BY <2>1, <2>2 DEF SnapshotInv, BodyOfPress, CommitIsArchived, VersionOf, Content,
       Machine, Idle, Validated
  <2>4. (PressOrder /\ SnapshotsOfPress /\ ImportedIsArchived)'
    BY <2>2 DEF SnapshotInv, PressOrder, SnapshotsOfPress, ImportedIsArchived, VersionOf, Content
  <2> QED
    BY <2>3, <2>4 DEF SnapshotInv
<1> QED
  BY <1>2, <1>3, <1>4, <1>5, SnapshotPress DEF Next

\* The closed log in the archive holds at least what the running one there holds.
LEMMA ArchivedOrder ==
  ASSUME TypeInv, SnapshotInv, NEW m \in Machines, NEW d \in Days,
         archived[m][<<d, "ACL">>] # Absent, archived[m][<<d, "CSV">>] # Absent
  PROVE  archived[m][<<d, "CSV">>] >= archived[m][<<d, "ACL">>]
<1> DEFINE a == archived[m][<<d, "ACL">>]
           c == archived[m][<<d, "CSV">>]
<1>1. <<d, "ACL">> \in Files /\ <<d, "CSV">> \in Files
  BY DEF Files, Exts
<1>2. a \in Counts /\ c \in Counts
  BY <1>1 DEF TypeInv, TypeOK
<1>3. VersionOf(m, <<d, "ACL">>, a) /\ VersionOf(m, <<d, "CSV">>, c)
  BY <1>1 DEF SnapshotInv, SnapshotsOfPress
<1>4. a <= acl[m][d] /\ acl[m][d] \in Counts /\ c = csv[m][d]
  BY <1>3 DEF VersionOf, Content
<1>5. acl[m][d] <= csv[m][d]
  BY <1>2, <1>4, CountsFacts DEF SnapshotInv, PressOrder
<1>6. a \in Int /\ c \in Int /\ acl[m][d] \in Int
  BY <1>2, <1>4, CountsFacts
<1> QED
  BY <1>4, <1>5, <1>6

LEMMA SnapshotInvariant ==
  ASSUME LineCuts = FALSE PROVE Spec => [](TypeInv /\ SnapshotInv)
<1>1. Init => TypeInv /\ SnapshotInv
  BY TypeInvInit, SnapshotInit
<1>2. TypeInv /\ SnapshotInv /\ [Next]_vars => (TypeInv /\ SnapshotInv)'
  BY TypeInvNext, SnapshotNext
<1> QED
  BY <1>1, <1>2, PTL DEF Spec

\* If a cut download always shows, a rebuild makes every final day final again,
\* with syncs from the command line too: of two files of one day in the archive
\* the CSV is never the shorter, so it is read last and accepted (_raw_files,
\* _validate_snapshot).
THEOREM RebuildsKeepFinality ==
  ASSUME LineCuts = FALSE PROVE Spec => []RebuildKeepsFinality
<1>1. TypeInv /\ SnapshotInv => RebuildKeepsFinality
  <2> SUFFICES ASSUME TypeInv, SnapshotInv,
                      NEW m \in Machines, NEW d \in Days, syncLog[m][d] = "CSV"
               PROVE  Rebuilt(m, d).kind = "CSV"
    BY DEF RebuildKeepsFinality
  <2>1. archived[m][<<d, "CSV">>] # Absent
    BY DEF SnapshotInv, ImportedIsArchived
  <2>2. CsvWins(m, d)
    BY <2>1, ArchivedOrder DEF CsvWins
  <2> QED
    BY <2>2 DEF Rebuilt
<1> QED
  BY <1>1, SnapshotInvariant, PTL

-----------------------------------------------------------------------------
(* Snapshots are replaced by newer ones only, when no sync from the command *)
(* line runs beside.                                                       *)

LEMMA ArchiveInit == Init => ArchiveInv
BY LockInit DEF Init, ArchiveInv, NewerThanArchive, Idle

\* A step of the one worker that runs.
LEMMA ArchiveBecome ==
  ASSUME TypeInv, ArchiveInv, Cli = {}, LockHeld', NEW w \in Workers, run[w].pc # "idle",
         NEW r, Become(w, r), NewerThanArchive(w)'
  PROVE  ArchiveInv'
<1>1. \A v \in Workers \ {w} : run'[v] = Idle
  BY OthersIdle DEF Become, ArchiveInv, TypeInv, TypeOK
<1>2. ASSUME NEW v \in Workers \ {w} PROVE NewerThanArchive(v)'
  BY <1>1 DEF NewerThanArchive, Idle
<1> QED
  BY <1>2 DEF ArchiveInv

LEMMA ArchiveElsewhere ==
  ASSUME TypeInv, SnapshotInv, ArchiveInv, Cli = {}, LockHeld',
         NEW w \in Workers, run[w].pc # "idle", NEW r, Become(w, r),
         r.pc \notin {"validate"} \cup Validated
  PROVE  ArchiveInv'
<1>1. run'[w] = r
  BY DEF Become, TypeInv, TypeOK
<1>2. NewerThanArchive(w)'
  BY <1>1 DEF NewerThanArchive, Validated
<1> QED
  BY <1>2, ArchiveBecome

LEMMA ArchiveGiveUpFile ==
  ASSUME TypeInv, SnapshotInv, ArchiveInv, Cli = {}, LockHeld',
         NEW w \in Workers, run[w].pc # "idle", GiveUpFile(w)
  PROVE  ArchiveInv'
<1> DEFINE r == [run[w] EXCEPT !.pc = "files", !.file = NoFile,
                               !.body = Absent, !.outcome = "errors"]
<1>1. r.pc = "files"
  BY Locals DEF Run
<1> QED
  BY <1>1, ArchiveElsewhere DEF GiveUpFile, LocalStep, Validated

LEMMA ArchiveReceived ==
  ASSUME TypeInv, SnapshotInv, ArchiveInv, Cli = {}, LockHeld', NEW w \in Workers,
         NEW body \in {Broken, Content(Machine(w), run[w].file)}, Received(w, body)
  PROVE  ArchiveInv'
<1> DEFINE old == archived[Machine(w)][run[w].file]
<1>1. /\ run'[w] = [run[w] EXCEPT !.pc = "validate", !.body = body]
      /\ run[w] \in Run /\ run[w].pc = "download" /\ archived' = archived
  BY Locals DEF Received, At, LocalStep, Become, TypeInv, TypeOK
<1>2. /\ run'[w].pc = "validate" /\ run'[w].body = body
      /\ run'[w].file = run[w].file /\ Machine(w)' = Machine(w)
  BY <1>1 DEF Run, Machine
<1>3. Machine(w) \in Machines /\ run[w].file \in Files
  BY <1>1, Locals DEF Fetching
<1>4. old # Absent => VersionOf(Machine(w), run[w].file, old) /\ old \in Counts
  BY <1>3 DEF SnapshotInv, SnapshotsOfPress, TypeInv, TypeOK
<1>5. old # Absent => Content(Machine(w), run[w].file) >= old
  BY <1>4, CountsFacts DEF VersionOf
<1>6. NewerThanArchive(w)'
  BY <1>1, <1>2, <1>5 DEF NewerThanArchive
<1> QED
  BY <1>1, <1>6, ArchiveBecome DEF Received, LocalStep

LEMMA ArchiveChecked ==
  ASSUME TypeInv, SnapshotInv, ArchiveInv, Cli = {}, LockHeld',
         NEW w \in Workers, NEW from, NEW to,
         <<from, to>> \in {<<"validate", "archive">>, <<"check", "commit">>},
         CheckedStep(w, from, to)
  PROVE  ArchiveInv'
<1>1. /\ run'[w] = [run[w] EXCEPT !.pc = to] /\ run[w] \in Run /\ run[w].pc = from
      /\ archived' = archived
  BY Locals DEF CheckedStep, At, LocalStep, Become, TypeInv, TypeOK
<1>2. /\ run'[w].pc = to /\ run'[w].body = run[w].body
      /\ run'[w].file = run[w].file /\ Machine(w)' = Machine(w)
  BY <1>1 DEF Run, Machine
<1>3. NewerThanArchive(w)'
  BY <1>1, <1>2 DEF ArchiveInv, NewerThanArchive
<1> QED
  BY <1>1, <1>3, ArchiveBecome DEF CheckedStep, LocalStep

LEMMA ArchiveArchive ==
  ASSUME TypeInv, SnapshotInv, ArchiveInv, Cli = {}, LockHeld', NEW w \in Workers, Archive(w)
  PROVE  ArchiveInv'
<1>1. /\ run'[w] = [run[w] EXCEPT !.pc = "check"] /\ run[w] \in Run
      /\ run[w].pc = "archive" /\ Machine(w) \in Machines /\ run[w].file \in Files
  BY Locals DEF Archive, At, Become, TypeInv, TypeOK, Fetching
<1>2. /\ run'[w].pc = "check" /\ run'[w].body = run[w].body
      /\ run'[w].file = run[w].file /\ Machine(w)' = Machine(w)
  BY <1>1 DEF Run, Machine
<1>3. archived'[Machine(w)][run[w].file] = run[w].body
  BY <1>1 DEF Archive, TypeInv, TypeOK
<1>4. NewerThanArchive(w)'
  BY <1>2, <1>3 DEF NewerThanArchive
<1> QED
  BY <1>1, <1>4, ArchiveBecome DEF Archive

LEMMA ArchiveImportDate ==
  ASSUME TypeInv, SnapshotInv, ArchiveInv, Cli = {}, LockHeld', NEW w \in Workers, ImportDate(w)
  PROVE  ArchiveInv'
<1> DEFINE r == [run[w] EXCEPT !.pc = "files", !.file = NoFile, !.body = Absent]
<1>1. r.pc = "files"
  BY Locals DEF Run
<1> QED
  BY <1>1, ArchiveElsewhere DEF ImportDate, At, Validated

LEMMA ArchiveProgress ==
  ASSUME TypeInv, SnapshotInv, ArchiveInv, Cli = {}, LockHeld', NEW w \in Workers, Progress(w)
  PROVE  ArchiveInv'
<1> USE DEF At
<1>1. CASE FetchListing(w)
  <2>1. PICK undated \in SUBSET Undated :
          LET names == offered[Machine(w)] \cup undated IN
          LocalStep(w, [run[w] EXCEPT !.pc = "files", !.listing = names, !.todo = names])
    BY <1>1 DEF FetchListing
  <2> DEFINE names == offered[Machine(w)] \cup undated
             r == [run[w] EXCEPT !.pc = "files", !.listing = names, !.todo = names]
  <2>2. r.pc = "files"
    BY Locals DEF Run
  <2> QED
    BY <1>1, <2>1, <2>2, ArchiveElsewhere DEF FetchListing, LocalStep, Validated
<1>2. ASSUME NEW f \in Files \cup Undated, SkipFile(w, f) PROVE ArchiveInv'
  <2> DEFINE r == [run[w] EXCEPT !.todo = @ \ {f}]
  <2>1. r.pc = "files"
    BY <1>2, Locals DEF Run, SkipFile
  <2> QED
    BY <1>2, <2>1, ArchiveElsewhere DEF SkipFile, LocalStep, Validated
<1>3. ASSUME NEW f \in Files \cup Undated, PlanFile(w, f) PROVE ArchiveInv'
  <2> DEFINE r == [run[w] EXCEPT !.pc = "download", !.file = f, !.todo = @ \ {f}]
  <2>1. r.pc = "download"
    BY Locals DEF Run
  <2> QED
    BY <1>3, <2>1, ArchiveElsewhere DEF PlanFile, LocalStep, Validated
<1>4. CASE Download(w)
  BY <1>4, ArchiveReceived DEF Download
<1>5. CASE FileGone(w)
  BY <1>5, ArchiveGiveUpFile DEF FileGone, DownloadFails
<1>6. CASE Validate(w) \/ ImportCheck(w)
  BY <1>6, ArchiveChecked DEF Validate, ImportCheck
<1>7. CASE Reject(w)
  BY <1>7, ArchiveGiveUpFile DEF Reject
<1>8. CASE FilesDone(w)
  <2> DEFINE r == [run[w] EXCEPT !.pc = "record"]
  <2>1. r.pc = "record"
    BY Locals DEF Run
  <2> QED
    BY <1>8, <2>1, ArchiveElsewhere DEF FilesDone, LocalStep, Validated
<1>9. CASE RecordRun(w)
  <2> DEFINE r == [Idle EXCEPT !.pc = "listing", !.queue = Tail(run[w].queue)]
  <2>1. r.pc = "listing" /\ Idle.pc = "idle"
    BY DEF Idle
  <2> QED
    BY <1>9, <2>1, ArchiveElsewhere DEF RecordRun, Validated
<1> QED
  BY <1>1, <1>2, <1>3, <1>4, <1>5, <1>6, <1>7, <1>8, <1>9,
     ArchiveArchive, ArchiveImportDate DEF Progress

LEMMA ArchiveFailure ==
  ASSUME LineCuts = FALSE, TypeInv, SnapshotInv, ArchiveInv, Cli = {}, LockHeld', NEW w \in Workers, Failure(w)
  PROVE  ArchiveInv'
<1> USE DEF At
<1>1. CASE ListingFails(w)
  <2> DEFINE r == [run[w] EXCEPT !.pc = "record", !.outcome = "unreachable"]
  <2>1. r.pc = "record"
    BY Locals DEF Run
  <2> QED
    BY <1>1, <2>1, ArchiveElsewhere DEF ListingFails, LocalStep, Validated
<1>2. CASE DownloadDamaged(w)
  BY <1>2, ArchiveReceived DEF DownloadDamaged
<1>3. CASE DownloadFails(w) \/ StepFails(w)
  BY <1>3, ArchiveGiveUpFile DEF DownloadFails, StepFails
<1>4. CASE Abort(w)
  <2>1. Idle.pc = "idle"
    BY DEF Idle
  <2> QED
    BY <1>4, <2>1, ArchiveElsewhere DEF Abort, Validated
<1> QED
  BY <1>1, <1>2, <1>3, <1>4 DEF Failure

LEMMA ArchiveNext ==
  /\ LineCuts = FALSE /\ Cli = {}
  /\ TypeInv /\ SnapshotInv /\ ArchiveInv
  /\ [Next]_vars
  => ArchiveInv'
<1> SUFFICES ASSUME LineCuts = FALSE, Cli = {}, TypeInv, SnapshotInv, ArchiveInv, [Next]_vars
             PROVE  ArchiveInv'
  OBVIOUS
<1>1. LockHeld'
  BY LockNext DEF ArchiveInv
<1>2. CASE PressStep
  BY <1>1, <1>2 DEF PressStep, ArchiveInv, NewerThanArchive, Machine
<1>3. ASSUME NEW w \in Workers, NEW machines, Launch(w, machines) PROVE ArchiveInv'
  <2>1. run'[w].pc = "listing" /\ \A v \in Workers \ {w} : run'[v] = run[v]
    BY <1>3 DEF Launch, Become, Idle, TypeInv, TypeOK
  <2>2. archived' = archived
    BY <1>3 DEF Launch
  <2>3. ASSUME NEW v \in Workers PROVE NewerThanArchive(v)'
    BY <2>1, <2>2 DEF ArchiveInv, NewerThanArchive, Machine
  <2> QED
    BY <1>1, <2>3 DEF ArchiveInv
<1>4. CASE TickStart \/ \E w \in Manual : ManualStart(w)
  BY <1>3, <1>4 DEF TickStart, ManualStart, RunSyncOnce, Workers, Service
<1>5. ASSUME NEW w \in Workers, Progress(w) \/ Failure(w) PROVE ArchiveInv'
  BY <1>1, <1>5, ArchiveProgress, ArchiveFailure
<1>6. CASE ServiceCrash \/ UNCHANGED vars
  <2>1. archived' = archived /\ \A v \in Workers : run'[v] = Idle \/ run'[v] = run[v]
    BY <1>6 DEF ServiceCrash, vars
  <2>2. ASSUME NEW v \in Workers PROVE NewerThanArchive(v)'
    BY <2>1 DEF ArchiveInv, NewerThanArchive, Machine, Idle
  <2> QED
    BY <1>1, <2>2 DEF ArchiveInv
<1> QED
  BY <1>2, <1>4, <1>5, <1>6 DEF Next

\* No step replaces a snapshot by a shorter one.
ArchiveGrows ==
  \A m \in Machines, f \in Files :
    archived[m][f] # Absent => archived'[m][f] # Absent /\ archived'[m][f] >= archived[m][f]

LEMMA ArchiveOnlyGrows ==
  ASSUME TypeInv, ArchiveInv, [Next]_vars
  PROVE  ArchiveGrows
<1>1. CASE archived' = archived
  <2>1. \A m \in Machines, f \in Files : archived[m][f] # Absent => archived[m][f] \in Int
    BY CountsFacts DEF TypeInv, TypeOK
  <2> QED
    BY <1>1, <2>1 DEF ArchiveGrows
<1>2. ASSUME NEW w \in Workers, Archive(w) PROVE ArchiveGrows
  <2> SUFFICES ASSUME NEW m \in Machines, NEW f \in Files, archived[m][f] # Absent
               PROVE  archived'[m][f] # Absent /\ archived'[m][f] >= archived[m][f]
    BY DEF ArchiveGrows
  <2>1. archived[m][f] \in Counts
    BY DEF TypeInv, TypeOK
  <2>2. run[w].body \in Int /\ archived[m][f] \in Int
    BY <1>2, <2>1, WhatArchiveWrites, CountsFacts
  <2>3. m = Machine(w) /\ f = run[w].file => run[w].body >= archived[m][f]
    BY <1>2, WhatArchiveWrites, CountsFacts DEF ArchiveInv, NewerThanArchive
  <2> QED
    BY <1>2, <2>2, <2>3, WhatArchiveWrites, CountsFacts
<1> QED
  BY <1>1, <1>2, OnlyArchive

\* If a cut download always shows, and under the service alone, a snapshot in
\* the archive is only ever replaced by one at least as long: the download was
\* made after the archived one and nobody else writes in between (_archive).
THEOREM SnapshotsNeverShrink ==
  ASSUME LineCuts = FALSE, Cli = {} PROVE Spec => ArchiveNeverShrinks
<1>1. Init => ArchiveInv
  BY ArchiveInit
<1>2. TypeInv /\ SnapshotInv /\ ArchiveInv /\ [Next]_vars => ArchiveInv'
  BY ArchiveNext
<1>3. TypeInv /\ SnapshotInv /\ ArchiveInv /\ [Next]_vars
      => [\A m \in Machines, f \in Files :
            archived[m][f] # Absent => archived'[m][f] >= archived[m][f]]_vars
  BY ArchiveOnlyGrows DEF ArchiveGrows
<1> QED
  BY <1>1, <1>2, <1>3, SnapshotInvariant, PTL DEF Spec, ArchiveNeverShrinks
=============================================================================
