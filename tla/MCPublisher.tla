---------------------------- MODULE MCPublisher -----------------------------
(* Publisher on small instances. *)
EXTENDS Publisher

Parked(x) == [state |-> "parked", gps |-> x]

\* A fix that comes and goes next to a value that changes: the delta either way
\* has a changed path and one that is added or removed.
LosingFix == {[state |-> "parked", gps |-> 0, seatbox |-> "open"],
              [state |-> "parked", seatbox |-> "closed"]}

\* Positions a small step apart, and one reached while driving.
CreepingSnapshots ==
    {Parked(0), Parked(1), [state |-> "ready-to-drive", gps |-> 1]}

TwoSnapshots == {Parked(0), Parked(5)}
=============================================================================
