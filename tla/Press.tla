------------------------------- MODULE Press -------------------------------
(***************************************************************************)
(* The presses, seen through the directory each serves at /accounting/.    *)
(* They are outside the repository: what is here is what pressledger/      *)
(* sync.py relies on and tools/fakeprinter.py mocks.  A press writes one   *)
(* log file per day: the running ACL, which only grows, and the CSV it     *)
(* leaves once the day is closed.  A file is abstracted to the number of   *)
(* 4303 records in it, because files of one day are prefixes of each       *)
(* other.                                                                  *)
(***************************************************************************)
EXTENDS Integers

CONSTANTS Machines,   \* configured presses
          Days,       \* log days
          MaxRows,    \* bound on the records a press writes in one day
          Absent      \* there is no such file

ASSUME MaxRowsAssumption == MaxRows \in Nat
ASSUME AbsentAssumption  == Absent \notin Int

Exts  == {"ACL", "CSV"}
Files == Days \X Exts
Counts == 0 .. MaxRows

VARIABLES acl,      \* acl[m][d]: records in the running log, Absent before the day opens
          csv,      \* csv[m][d]: records in the closed log, Absent before rotation
          offered   \* offered[m]: the files a listing of press m shows

press == <<acl, csv, offered>>

PressTypeOK ==
  /\ acl \in [Machines -> [Days -> Counts \cup {Absent}]]
  /\ csv \in [Machines -> [Days -> Counts \cup {Absent}]]
  /\ offered \in [Machines -> SUBSET Files]

PressInit ==
  /\ acl = [m \in Machines |-> [d \in Days |-> Absent]]
  /\ csv = [m \in Machines |-> [d \in Days |-> Absent]]
  /\ offered = [m \in Machines |-> {}]

\* What a GET of file f answers when nothing goes wrong.
Content(m, f) == IF f[2] = "ACL" THEN acl[m][f[1]] ELSE csv[m][f[1]]

OpenDay(m, d) ==
  /\ acl[m][d] = Absent
  /\ acl' = [acl EXCEPT ![m][d] = 0]
  /\ offered' = [offered EXCEPT ![m] = @ \cup {<<d, "ACL">>}]
  /\ UNCHANGED csv

AppendRecord(m, d) ==
  /\ acl[m][d] \in Counts /\ acl[m][d] < MaxRows
  /\ csv[m][d] = Absent
  /\ acl' = [acl EXCEPT ![m][d] = @ + 1]
  /\ UNCHANGED <<csv, offered>>

\* The day closes.  The CSV holds at least the records of the ACL; the stale
\* ACL may stay in the listing beside it.
Rotate(m, d) ==
  /\ acl[m][d] \in Counts
  /\ csv[m][d] = Absent
  /\ \E n \in acl[m][d] .. MaxRows : csv' = [csv EXCEPT ![m][d] = n]
  /\ \E dropped \in SUBSET {<<d, "ACL">>} :
       offered' = [offered EXCEPT ![m] = (@ \ dropped) \cup {<<d, "CSV">>}]
  /\ UNCHANGED acl

\* The press drops a closed day's file from its directory.
Expire(m, f) ==
  /\ f \in offered[m]
  /\ csv[m][f[1]] # Absent
  /\ offered' = [offered EXCEPT ![m] = @ \ {f}]
  /\ UNCHANGED <<acl, csv>>

PressNext ==
  \E m \in Machines :
    \/ \E d \in Days : OpenDay(m, d) \/ AppendRecord(m, d) \/ Rotate(m, d)
    \/ \E f \in Files : Expire(m, f)
=============================================================================
