------------------------------- MODULE TableRead -------------------------------
(***************************************************************************)
(* What reading a table of a device promises, whatever the device answers: *)
(* rows of the table that was asked for, in ascending order and so none of *)
(* them twice, no more than a limit, and then an end that stands.          *)
(***************************************************************************)
EXTENDS Naturals, Sequences

CONSTANTS Row, Limit

VARIABLES rows, ended

vars == <<rows, ended>>

Init == rows = <<>> /\ ended = FALSE

More ==
  /\ ~ended
  /\ Len(rows) < Limit
  /\ \E r \in Row :
       /\ rows # <<>> => rows[Len(rows)] < r
       /\ rows' = Append(rows, r)
  /\ ended' \in BOOLEAN

End == ~ended /\ ended' = TRUE /\ UNCHANGED rows

Next == More \/ End

Spec == Init /\ [][Next]_vars
====
