-------------------------- MODULE MCUpstreamSession --------------------------
(***************************************************************************)
(* Small instances of UpstreamSession.                                     *)
(***************************************************************************)
EXTENDS UpstreamSession

\* A path that ends well or at a choice, a silent next switch (resumed from the
\* hop below it), and one that is known by its name alone.
Arrived == [stall |-> None, resume |-> None, choices |-> TRUE]
Silent == [stall |-> "silent", resume |-> "hop", choices |-> FALSE]
Unnamed == [stall |-> "unnamed", resume |-> None, choices |-> FALSE]

TwoOutcomes == {Arrived, Silent}
ThreeOutcomes == {Arrived, Silent, Unnamed}

TwoAddr == {"s1", "hop"}
ThreeAddr == {"s1", "s2", "hop"}
====
