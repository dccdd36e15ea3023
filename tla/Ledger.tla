------------------------------- MODULE Ledger -------------------------------
(***************************************************************************)
(* What PressLedger promises about an imported day, free of how it gets    *)
(* there: a day is replaced as a whole, by a version that holds at least   *)
(* as many records, and a day replaced by its CSV is final.  The promise   *)
(* is the one export clients build on (GET /api/v1/days, "final").         *)
(***************************************************************************)
EXTENDS Integers

CONSTANTS Machines, Days, MaxRows

VARIABLES rows,   \* rows[m][d]: records of the day in the table jobs
          kind    \* kind[m][d]: source of the day, "none" before any import

vars == <<rows, kind>>

Init ==
  /\ rows = [m \in Machines |-> [d \in Days |-> 0]]
  /\ kind = [m \in Machines |-> [d \in Days |-> "none"]]

Replace(m, d, n, k) ==
  /\ kind[m][d] # "CSV"
  /\ n >= rows[m][d]
  /\ rows' = [rows EXCEPT ![m][d] = n]
  /\ kind' = [kind EXCEPT ![m][d] = k]

Next ==
  \E m \in Machines, d \in Days, n \in 0 .. MaxRows, k \in {"ACL", "CSV"} :
    Replace(m, d, n, k)

Spec == Init /\ [][Next]_vars
=============================================================================
