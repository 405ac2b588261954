---------------------------- MODULE DiscoveryPath ----------------------------
(***************************************************************************)
(* What upstream discovery promises of the path it shows: the path grows   *)
(* at its end, by one device it does not hold yet, to MaxHops devices at   *)
(* the most, and once it has ended it does not change.                     *)
(***************************************************************************)
EXTENDS Naturals, Sequences

CONSTANTS Addr, MaxHops

VARIABLES
  path,   \* the addresses of the hops
  ended   \* the walk has returned

pathVars == <<path, ended>>

Init == path = <<>> /\ ended = FALSE

\* A further hop; it may be the last one.
Extend(a) ==
  /\ ~ended
  /\ Len(path) < MaxHops
  /\ \A i \in 1 .. Len(path) : path[i] # a
  /\ path' = Append(path, a)
  /\ ended' \in BOOLEAN

\* No further hop.
End == ~ended /\ ended' = TRUE /\ path' = path

Next == End \/ \E a \in Addr : Extend(a)

Spec == Init /\ [][Next]_pathVars
====
