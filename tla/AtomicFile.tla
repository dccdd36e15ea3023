----------------------------- MODULE AtomicFile -----------------------------
(***************************************************************************)
(* What _archive promises about one file of the raw archive, and what      *)
(* Sync takes it for: whoever looks, at any moment and after any crash,    *)
(* finds no file or one whole snapshot.                                    *)
(***************************************************************************)
CONSTANTS Snapshots,   \* the snapshots that may be archived
          Missing      \* no file of that name

VARIABLE file

Init == file = Missing

Replace(s) == file' = s

Next == \E s \in Snapshots : Replace(s)

Spec == Init /\ [][Next]_file
=============================================================================
