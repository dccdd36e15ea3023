------------------------------- MODULE MCSync -------------------------------
(***************************************************************************)
(* Instances of Sync for TLC: one press or two, in the order of the        *)
(* configuration.  Log days would be interchangeable, but every run has    *)
(* one; presses are not, because sync_all visits them in order.            *)
(***************************************************************************)
EXTENDS Sync

CONSTANTS p1, p2

OnePress   == <<p1>>
TwoPresses == <<p1, p2>>
=============================================================================
