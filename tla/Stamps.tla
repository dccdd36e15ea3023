------------------------------- MODULE Stamps -------------------------------
(***************************************************************************)
(* Dates and clock fields of the log.  reports.py keeps them as text,      *)
(* compares them as text in SQL, reads them with strftime in SQL and with  *)
(* strptime in Python, and derives the runtime of a run on both ways.      *)
(*                                                                         *)
(* A date is its rank among the texts of dates, a clock field its rank     *)
(* among the texts of clock fields; 0 is the empty text, which sorts       *)
(* first.  A day of the calendar written YYYY-MM-DD, or a time of the day  *)
(* written HH:MM:SS, says its rank to both readers.  Any other text is     *)
(* odd, and the readers need not agree on it: '14:30', '24:00:00' and      *)
(* '2026-02-31' are read by SQLite alone, '9:05:00' and '2026-8-3' by      *)
(* Python alone, '23:59:60' by neither.                                    *)
(***************************************************************************)
EXTENDS Integers

CONSTANTS LastClock,   \* rank of the last clock field
          NoTime,      \* None, and NULL
          OddDates,    \* what the readers make of an odd text: [sql |-> ..., py |-> ...],
          OddClocks    \* a number or NoTime

Readings == [sql : Int \cup {NoTime}, py : Int \cup {NoTime}]

ASSUME LastClockAssumption == LastClock \in Nat \ {0}
ASSUME NoTimeAssumption    == NoTime \notin Int
ASSUME OddAssumption ==
  /\ DOMAIN OddDates \subseteq Nat \ {0}
  /\ \A d \in DOMAIN OddDates : OddDates[d] \in Readings
  /\ DOMAIN OddClocks \subseteq 1 .. LastClock
  /\ \A t \in DOMAIN OddClocks : OddClocks[t] \in Readings

Empty  == 0
Dates  == Nat
Fields == 0 .. LastClock

\* date || ' ' || clock, as SQL compares it.
Text(d, t) == d * (LastClock + 1) + t

\* The instant of a day and a time, in clock ticks.
Instant(day, time) == day * LastClock + time

Day(d, reader)  == IF d \in DOMAIN OddDates THEN OddDates[d][reader] ELSE d
Time(t, reader) == IF t \in DOMAIN OddClocks THEN OddClocks[t][reader] ELSE t

ReadBy(reader, d, t) ==
  IF /\ d # Empty /\ Day(d, reader) # NoTime
     /\ t # Empty /\ Time(t, reader) # NoTime
  THEN Instant(Day(d, reader), Time(t, reader)) ELSE NoTime

\* parse_stamp, in Python, and strftime('%s'), in SQL.
ParseStamp(d, t) == ReadBy("py", d, t)
SqlStamp(d, t)   == ReadBy("sql", d, t)

\* The day a run finished on: the press leaves readydate empty on its start day.
CompletedDate(r) == IF r.readydate # Empty THEN r.readydate ELSE r.startdate

Ts(r) == Text(r.startdate, r.starttime)

EndTs(r) == IF r.readytime # Empty THEN Text(CompletedDate(r), r.readytime) ELSE Ts(r)

\* Mutants: an end before the start counts; the end is taken without the fallback
\* to startdate.
MutDurationSBackwards(r) ==
  LET start == ParseStamp(r.startdate, r.starttime)
      end   == ParseStamp(CompletedDate(r), r.readytime)
  IN IF start = NoTime \/ end = NoTime THEN NoTime ELSE end - start
MutDurationSNoFallback(r) ==
  LET start == ParseStamp(r.startdate, r.starttime)
      end   == ParseStamp(r.readydate, r.readytime)
  IN IF start = NoTime \/ end = NoTime THEN NoTime
     ELSE IF end < start THEN NoTime ELSE end - start

\* duration_s, in Python.
DurationS(r) ==
  LET start == ParseStamp(r.startdate, r.starttime)
      end   == ParseStamp(CompletedDate(r), r.readytime)
  IN IF start = NoTime \/ end = NoTime THEN NoTime
     ELSE IF end < start THEN NoTime ELSE end - start

\* _RUNTIME_S, in SQL: the order is checked on the text, and a difference with
\* NULL is NULL.
RuntimeS(r) ==
  LET start == SqlStamp(r.startdate, r.starttime)
      end   == SqlStamp(CompletedDate(r), r.readytime)
  IN IF /\ r.startdate # Empty /\ r.starttime # Empty /\ r.readytime # Empty
        /\ Text(CompletedDate(r), r.readytime) >= Ts(r)
        /\ start # NoTime /\ end # NoTime
     THEN end - start ELSE NoTime

RunStamps == [startdate : Dates, starttime : Fields, readydate : Dates, readytime : Fields]

-----------------------------------------------------------------------------
\* The stamps of a run are written as the press writes them, or are no stamp to
\* either reader.
Unread(reading) == reading.sql = NoTime /\ reading.py = NoTime

ReadAlike(r) ==
  /\ \A d \in {r.startdate, r.readydate} \cap DOMAIN OddDates : Unread(OddDates[d])
  /\ \A t \in {r.starttime, r.readytime} \cap DOMAIN OddClocks : Unread(OddClocks[t])
=============================================================================
