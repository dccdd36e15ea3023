----------------------------- MODULE MCRecovery -----------------------------
(***************************************************************************)
(* Instances of Recovery for TLC: one configured press.                    *)
(***************************************************************************)
EXTENDS Recovery

CONSTANT p1

OnePress == <<p1>>
=============================================================================
