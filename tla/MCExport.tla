------------------------------ MODULE MCExport ------------------------------
(***************************************************************************)
(* Two presses and two days, a page of two rows.  Day 1 of both presses    *)
(* holds the same job id on the same line with the same end, on the day    *)
(* after the log; the running log shows interim clicks and is as long as   *)
(* the closed one in the end; a job noted as started at '9:05:00' reports  *)
(* an earlier end; a closed log may be cut after its first run.            *)
(***************************************************************************)
EXTENDS Export, TLC

\* No odd date, and the clock text '9:05:00'.
MCOddDates  == <<>>
MCOddClocks == 4 :> [sql |-> NoTime, py |-> 3]

Line(jobid, jobtype, stamps, clicks) ==
  [jobid |-> jobid, jobtype |-> jobtype, startdate |-> stamps[1], starttime |-> stamps[2],
   readydate |-> stamps[3], readytime |-> stamps[4], clicks |-> clicks, media |-> {clicks}]

Night == Line(7, "IP", <<1, 2, 2, 3>>, 3)
Short == Line(7, "IP", <<1, 2, 2, 3>>, 2)
Cal   == Line(6, "SYSTEM", <<1, 2, Empty, 3>>, 1)
Early == Line(6, "IP", <<2, 4, Empty, 2>>, 2)

MCClosed == [m \in {1, 2} |-> [d \in {1, 2} |->
  CASE m = 1 /\ d = 1 -> <<Night, Cal>>
    [] m = 2 /\ d = 1 -> <<Short>>
    [] m = 1 /\ d = 2 -> <<Early>>
    [] OTHER          -> <<>>]]

\* A job in print stands in the log with the clicks so far.
SoFar(run) == [run EXCEPT !.clicks = 1, !.media = {1}]

MCLive == [m \in {1, 2} |-> [d \in {1, 2} |->
  CASE m = 1 /\ d = 1 -> {<<SoFar(Night)>>, <<SoFar(Night), Cal>>}
    [] OTHER          -> {}]]

MCCuts == [m \in {1, 2} |-> [d \in {1, 2} |-> IF m = 1 /\ d = 1 THEN {1} ELSE {}]]

MCRuns == {Night, Short, Cal, Early, SoFar(Night)}
=============================================================================
