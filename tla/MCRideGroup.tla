---------------------------- MODULE MCRideGroup ----------------------------
EXTENDS RideGroup

Idle(r) == [phase |-> "idle", op |-> None, rev |-> r, fence |-> None]
Journaled(p, r, f) == [phase |-> p, op |-> "o", rev |-> r, fence |-> f]

Stopping ==
    {Idle(1), Journaled("preparing", 2, None), Journaled("prepared", 3, 1),
     Journaled("uncertain", 4, 1), Idle(5)}

MCGrant(stream, epoch, consent, peers) ==
    [session |-> "s", stream |-> stream, epoch |-> epoch, rev |-> 1, consent |-> consent,
     peers |-> peers]

MCGrants == {MCGrant("a", 1, 1, Peers), MCGrant("b", 2, 1, Peers), MCGrant("b", 2, 2, {})}

MCPeerMessages ==
    {[peer |-> p, epoch |-> e, stream |-> e, seq |-> q] : p \in Peers, e \in 1..2, q \in 0..2}

Load(conns, cuts, faults, waits, flips, journals, snaps, results) ==
    [conns |-> conns, cuts |-> cuts, faults |-> faults, waits |-> waits, flips |-> flips,
     journals |-> journals, snaps |-> snaps, results |-> results,
     acts |-> 0, grants |-> 0, clears |-> 0, gps |-> 0, peers |-> 0]

Sharing(load, acts, grants, clears, gps, peers) ==
    [load EXCEPT !.acts = acts, !.grants = grants, !.clears = clears, !.gps = gps,
                 !.peers = peers]

Stopped == {Journaled("prepared", 3, 1), Journaled("confirmed", 4, 1), Idle(5)}
Resting == {Idle(1)}
Disturbed == {Idle(1), Journaled("preparing", 2, None)}

\* Stops, alone, with waiting and over a reconnect; the block setting with faults;
\* then sharing: the source, peers, vetoes, a block, waiting, clears, a reconnect.
MCLoads ==
    { Load(1, 0, 0, 0, 0, Stopping, 3, 2),
      Load(1, 0, 0, 1, 0, Stopped, 2, 2),
      Load(2, 1, 0, 0, 0, Stopping, 2, 1),
      Load(1, 0, 1, 0, 2, Resting, 1, 0),
      Sharing(Load(1, 0, 0, 0, 0, Resting, 1, 0), 1, 3, 0, 3, 0),
      Sharing(Load(1, 0, 0, 0, 0, Resting, 1, 0), 1, 2, 0, 0, 3),
      Sharing(Load(1, 0, 0, 0, 0, Disturbed, 2, 0), 2, 1, 0, 0, 0),
      Sharing(Load(1, 0, 0, 0, 2, Resting, 1, 0), 1, 1, 0, 0, 0),
      Sharing(Load(1, 0, 0, 1, 0, Resting, 1, 0), 1, 1, 0, 2, 0),
      Sharing(Load(1, 0, 0, 0, 0, Resting, 1, 0), 2, 2, 1, 0, 0),
      Sharing(Load(2, 1, 0, 0, 0, Resting, 2, 0), 1, 1, 0, 0, 0) }
=============================================================================
