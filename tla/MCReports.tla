------------------------------ MODULE MCReports ------------------------------
(***************************************************************************)
(* Two presses, two log days that straddle the end of a month, up to two   *)
(* runs a day.  Job ids and lines repeat across the presses, a job runs on *)
(* both and over the month, its proof starts the day before its log, pages *)
(* are odd in number, stamps are missing, no time at all, or a time to     *)
(* SQLite or to Python alone.                                              *)
(***************************************************************************)
EXTENDS Pages

\* '--:--:--', '24:00:00' and '9:05:00'; a 31st where the month has 29 days, and
\* '2026-8-3'.
MCOddClocks == 1 :> [sql |-> NoTime, py |-> NoTime] @@
               6 :> [sql |-> LastClock, py |-> NoTime] @@
               7 :> [sql |-> NoTime, py |-> 3]
MCOddDates  == 4 :> [sql |-> 5, py |-> NoTime] @@ 9 :> [sql |-> NoTime, py |-> 3]

MCMachines == {"p1", "p2"}
MCCaptured == [n \in {"A-1", "A-2", "B", "Cal"} |-> IF n \in {"A-1", "A-2"} THEN "A" ELSE ""]

Columns == <<"jobid", "jobtype", "jobname", "startdate", "starttime", "readydate",
             "readytime", "result", "noffinishedsets", "nofprintedbw", "nofprintedc",
             "mediaformat1", "nofsimplex1", "nofduplex1", "medianame1",
             "mediaformat2", "nofsimplex2", "nofduplex2", "medianame2">>

\* A record with nothing in it, and one run of a job.
Nothing == [c \in Range(Columns) |-> EmptyCell(c)]

Run(jobid, type, name, stamps, result, sets, bw, colour) ==
  [Nothing EXCEPT !["jobid"] = jobid, !["jobtype"] = type, !["jobname"] = name,
     !["startdate"] = stamps[1], !["starttime"] = stamps[2],
     !["readydate"] = stamps[3], !["readytime"] = stamps[4], !["result"] = result,
     !["noffinishedsets"] = sets, !["nofprintedbw"] = bw, !["nofprintedc"] = colour]

On1(run, format, simplex, duplex) ==
  [run EXCEPT !["mediaformat1"] = format, !["nofsimplex1"] = simplex, !["nofduplex1"] = duplex]
On2(run, name, simplex, duplex) ==
  [run EXCEPT !["medianame2"] = name, !["nofsimplex2"] = simplex, !["nofduplex2"] = duplex]

Proof  == On1(Run(7, "IP", "A-1", <<1, 4, 2, 2>>, "Done", 1, 1, Blank), "A4", 0, 1)
Order  == On2(On1(Run(8, "IP", "A-2", <<2, 3, Empty, 4>>, "Abrt", 2, 2, 1), "A4", 0, 3),
              "Cover", 1, 0)
Check  == On1(Run(7, "SYSTEM", "Cal", <<2, 2, Empty, 3>>, "Done", 1, 1, 0), "A4", 1, Blank)
NoJob  == On1(Run(8, "IP", "B", <<2, 3, Empty, Empty>>, "Done", 1, 3, 0), "", 1, 1)
Retry  == On1(Run(9, "IP", "A-1", <<3, 2, 3, 1>>, "Done", 1, 1, 1), "A4", 1, 0)
Single == Run(9, "AP", "", <<Empty, Empty, Empty, Empty>>, "Stop", Garbled, 4, 0)
Second == On1(Run(7, "IP", "A-1", <<2, 4, 4, 6>>, "Done", 3, 2, 0), "A4", 2, 1)
Late   == On1(Run(9, "IP", "A-2", <<3, 3, Empty, 4>>, "Stop", 2, 1, 0), "A3", 0, 1)
Tied   == Run(9, "IP", "A-2", <<3, 2, 9, 7>>, "Stop", 1, 1, 0)
\* SQL has a runtime of Second, Python of Tied: such stamps the promise of one
\* runtime must leave out.
ASSUME RuntimesDiffer == /\ RuntimeS(Second) # NoTime /\ DurationS(Second) = NoTime
                         /\ DurationS(Tied) # NoTime /\ RuntimeS(Tied) = NoTime

MCLogs == [m \in MCMachines |-> [d \in {2, 3} |->
  CASE m = "p1" /\ d = 2 -> {<<Proof, Order>>, <<Check, NoJob>>}
    [] m = "p1" /\ d = 3 -> {<<Retry>>, <<Single>>}
    [] m = "p2" /\ d = 2 -> {<<Second>>}
    [] OTHER             -> {<<Late>>, <<Tied>>}]]

\* A press that logs every column, and one that changes its columns within the
\* day: the first record has no readydate and its media stands in another order.
Changed == <<"medianame2", "nofduplex2", "nofsimplex2", "jobname", "jobtype", "result",
             "startdate", "starttime", "readytime", "mediaformat1", "nofduplex1",
             "nofsimplex1", "jobid", "nofprintedc", "nofprintedbw", "noffinishedsets">>
MCLayouts == {<<Columns>>, <<Changed, Columns>>}

MCFilters ==
  {NoFilter} \cup {[NoFilter EXCEPT !.jobtype = t] : t \in JobTypes} \cup
  {[NoFilter EXCEPT !.machine = m] : m \in {"p1", "gone"}} \cup
  {[NoFilter EXCEPT !.from = 2], [NoFilter EXCEPT !.from = 3], [NoFilter EXCEPT !.to = 2],
   [NoFilter EXCEPT !.from = 2, !.to = 2, !.machine = "p1"],
   [NoFilter EXCEPT !.jobtype = "IP", !.machine = "p2", !.to = 3],
   [NoFilter EXCEPT !.result = "Done"], [NoFilter EXCEPT !.exclude = "SYSTEM"],
   [NoFilter EXCEPT !.q = {<<"A-1">>}], [NoFilter EXCEPT !.q = {<<"A">>, <<"A4">>, <<"Cal">>}]}
=============================================================================
