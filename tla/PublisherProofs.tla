--------------------------- MODULE PublisherProofs ---------------------------
(***************************************************************************)
(* Theorems about Publisher, for every set of snapshots and every value of *)
(* the other constants.  The baseline of the deltas is compared with what  *)
(* the server holds after any number of frames under way, so the first     *)
(* lemmas are about Replay; the second ones are about the copies that      *)
(* smoothing, diffing and merging can produce.                             *)
(***************************************************************************)
EXTENDS Publisher, SequenceLemmas

(* Replay *)

ReplayStep(f, copy, frames, n) == IF n = 0 THEN copy ELSE Apply(f[n - 1], frames[n])

IsReplay(f, copy, frames, m) == f = [n \in 0..m |-> ReplayStep(f, copy, frames, n)]

LEMMA ReplayExists ==
    ASSUME NEW copy, NEW frames, NEW m \in Nat
    PROVE  \E f : IsReplay(f, copy, frames, m)
<1> DEFINE Good == {k \in Nat : \E f : IsReplay(f, copy, frames, k)}
<1>1. 0 \in Good
  <2> DEFINE f == [n \in 0..0 |-> copy]
  <2>1. IsReplay(f, copy, frames, 0)
    BY DEF IsReplay, ReplayStep
  <2> QED BY <2>1
<1>2. ASSUME NEW k \in Nat, k \in Good PROVE k + 1 \in Good
  <2>1. PICK f : IsReplay(f, copy, frames, k)
    BY <1>2
  <2> DEFINE g == [n \in 0..(k + 1) |-> IF n <= k THEN f[n] ELSE ReplayStep(f, copy, frames, n)]
  <2>2. \A n \in 0..k : g[n] = f[n] /\ f[n] = ReplayStep(f, copy, frames, n)
    BY <2>1 DEF IsReplay
  <2>3. g[k + 1] = ReplayStep(f, copy, frames, k + 1)
    OBVIOUS
  <2>4. g = [n \in 0..(k + 1) |-> g[n]]
    OBVIOUS
  <2> HIDE DEF g
  <2>5. \A n \in 0..(k + 1) : g[n] = ReplayStep(g, copy, frames, n)
    <3> TAKE n \in 0..(k + 1)
    <3>1. n # 0 => n - 1 \in 0..k /\ g[n - 1] = f[n - 1]
      BY <2>2
    <3>2. g[n] = ReplayStep(f, copy, frames, n)
      BY <2>2, <2>3
    <3> QED BY <3>1, <3>2 DEF ReplayStep
  <2>6. IsReplay(g, copy, frames, k + 1)
    BY <2>4, <2>5 DEF IsReplay
  <2> QED BY <2>6
<1>3. Nat \subseteq Good
  <2> HIDE DEF Good
  <2> QED BY <1>1, <1>2, SetInduction
<1> QED BY <1>3

\* Replay is the last of a row of copies, each the one before with a frame applied.
RowOf(f, copy, frames, m) ==
    /\ f[0] = copy
    /\ \A k \in Nat : k + 1 <= m => f[k + 1] = Apply(f[k], frames[k + 1])

LEMMA ReplayRow ==
    ASSUME NEW X, NEW copy, NEW frames \in Seq(X)
    PROVE  \E f : Replay(copy, frames) = f[Len(frames)] /\ RowOf(f, copy, frames, Len(frames))
<1>0. Len(frames) \in Nat
  OBVIOUS
<1>1. PICK f : IsReplay(f, copy, frames, Len(frames))
  BY <1>0, ReplayExists, Zenon
<1>2. f = [n \in 0..Len(frames) |-> IF n = 0 THEN copy ELSE Apply(f[n - 1], frames[n])]
  BY <1>1, Zenon DEF IsReplay, ReplayStep
<1>3. \E h : /\ h = [n \in 0..Len(frames) |->
                       IF n = 0 THEN copy ELSE Apply(h[n - 1], frames[n])]
             /\ Replay(copy, frames) = h[Len(frames)]
  BY <1>2, Zenon DEF Replay
<1>4. PICK h : /\ IsReplay(h, copy, frames, Len(frames))
               /\ Replay(copy, frames) = h[Len(frames)]
  BY <1>3, Zenon DEF IsReplay, ReplayStep
<1>5. \A n \in 0..Len(frames) : h[n] = ReplayStep(h, copy, frames, n)
  BY <1>4 DEF IsReplay
<1>6. h[0] = copy
  <2>1. h[0] = ReplayStep(h, copy, frames, 0)
    BY <1>0, <1>5
  <2> QED BY <2>1 DEF ReplayStep
<1>7. ASSUME NEW k \in Nat, k + 1 <= Len(frames)
      PROVE  h[k + 1] = Apply(h[k], frames[k + 1])
  <2>1. h[k + 1] = ReplayStep(h, copy, frames, k + 1)
    BY <1>0, <1>5, <1>7
  <2>2. k + 1 # 0 /\ (k + 1) - 1 = k
    OBVIOUS
  <2> QED BY <2>1, <2>2, Zenon DEF ReplayStep
<1>8. RowOf(h, copy, frames, Len(frames))
  BY <1>6, <1>7 DEF RowOf
<1> QED BY <1>4, <1>8

LEMMA ReplayAppend ==
    ASSUME NEW X, NEW copy, NEW q \in Seq(X), NEW frame \in X
    PROVE  Replay(copy, Append(q, frame)) = Apply(Replay(copy, q), frame)
<1>1. PICK r : r = Append(q, frame)
  OBVIOUS
<1>2. PICK l \in Nat : l = Len(q)
  OBVIOUS
<1>3. /\ r \in Seq(X) /\ Len(r) = l + 1 /\ r[l + 1] = frame
      /\ \A i \in 1..l : r[i] = q[i]
  BY <1>1, <1>2
<1>4. PICK f : Replay(copy, q) = f[l] /\ RowOf(f, copy, q, l)
  BY <1>2, ReplayRow
<1>5. PICK g : Replay(copy, r) = g[l + 1] /\ RowOf(g, copy, r, l + 1)
  BY <1>3, ReplayRow
<1> DEFINE Good == {n \in Nat : n <= l => f[n] = g[n]}
<1>6. 0 \in Good
  BY <1>4, <1>5 DEF RowOf
<1>7. ASSUME NEW n \in Nat, n \in Good PROVE n + 1 \in Good
  <2> SUFFICES ASSUME n + 1 <= l PROVE f[n + 1] = g[n + 1]
    OBVIOUS
  <2>1. n + 1 \in 1..l /\ n + 1 <= l + 1 /\ f[n] = g[n]
    BY <1>7
  <2>2. r[n + 1] = q[n + 1]
    BY <1>3, <2>1
  <2>3. f[n + 1] = Apply(f[n], q[n + 1]) /\ g[n + 1] = Apply(g[n], r[n + 1])
    BY <1>4, <1>5, <2>1 DEF RowOf
  <2> QED BY <2>1, <2>2, <2>3
<1>8. Nat \subseteq Good
  <2> HIDE DEF Good
  <2> QED BY <1>6, <1>7, SetInduction
<1>9. f[l] = g[l]
  BY <1>8
<1>10. g[l + 1] = Apply(g[l], frame)
  BY <1>3, <1>5 DEF RowOf
<1> QED BY <1>1, <1>4, <1>5, <1>9, <1>10

LEMMA ReplayTail ==
    ASSUME NEW X, NEW copy, NEW q \in Seq(X), q # <<>>
    PROVE  Replay(Apply(copy, Head(q)), Tail(q)) = Replay(copy, q)
<1>1. PICK r : r = Tail(q)
  OBVIOUS
<1>2. PICK l \in Nat : l + 1 = Len(q)
  <2>1. Len(q) \in Nat /\ Len(q) # 0
    OBVIOUS
  <2>2. Len(q) - 1 \in Nat /\ (Len(q) - 1) + 1 = Len(q)
    BY <2>1
  <2> QED BY <2>2
<1>3. /\ r \in Seq(X) /\ Len(r) = l /\ Head(q) = q[1]
      /\ \A i \in 1..l : r[i] = q[i + 1]
  BY <1>1, <1>2
<1>4. PICK f : Replay(copy, q) = f[l + 1] /\ RowOf(f, copy, q, l + 1)
  BY <1>2, ReplayRow
<1>5. PICK g : /\ Replay(Apply(copy, Head(q)), r) = g[l]
               /\ RowOf(g, Apply(copy, Head(q)), r, l)
  BY <1>3, ReplayRow
<1> DEFINE Good == {n \in Nat : n <= l => g[n] = f[n + 1]}
<1>6. 0 \in Good
  <2>1. f[0 + 1] = Apply(f[0], q[0 + 1])
    BY <1>4 DEF RowOf
  <2> QED BY <1>3, <1>4, <1>5, <2>1 DEF RowOf
<1>7. ASSUME NEW n \in Nat, n \in Good PROVE n + 1 \in Good
  <2> SUFFICES ASSUME n + 1 <= l PROVE g[n + 1] = f[(n + 1) + 1]
    OBVIOUS
  <2>1. n + 1 \in 1..l /\ n + 1 \in Nat /\ (n + 1) + 1 <= l + 1 /\ g[n] = f[n + 1]
    BY <1>7
  <2>2. r[n + 1] = q[(n + 1) + 1]
    BY <1>3, <2>1
  <2>3. g[n + 1] = Apply(g[n], r[n + 1])
    BY <1>5, <2>1 DEF RowOf
  <2>4. f[(n + 1) + 1] = Apply(f[n + 1], q[(n + 1) + 1])
    BY <1>4, <2>1 DEF RowOf
  <2> QED BY <2>1, <2>2, <2>3, <2>4
<1>8. Nat \subseteq Good
  <2> HIDE DEF Good
  <2> QED BY <1>6, <1>7, SetInduction
<1>9. g[l] = f[l + 1]
  BY <1>8
<1> QED BY <1>1, <1>4, <1>5, <1>9

---------------------------------------------------------------------------
(* The inductive invariant *)

ValuesAt(k) == {s[k] : s \in {t \in Snapshots : k \in DOMAIN t}}

Frame == [kind : {"state", "delta"}, data : Copies, removed : SUBSET Paths, born : Nat]

DataInv ==
    /\ chan \in Seq(Frame)
    /\ server \in Copies \cup {None} /\ lastSentFlat \in Copies \cup {None}
    /\ lastGPS \in ValuesAt(GpsKey) \cup {None}
    /\ snap \in [Procs -> Copies \cup {None}]

\* Publisher.mu is held exactly while Publish sends.
MutexInv ==
    /\ \A p \in Procs \ {Query} : pc[p] \in {"sending", "admitted"} <=> holder = p
    /\ holder # Query

\* Once the callback of a disconnect has run, nobody is inside Publish and there is no
\* baseline until the next connection.
LinkInv ==
    /\ up => ~resetDue
    /\ ~up /\ ~resetDue => holder = None /\ lastSentFlat = None

\* A baseline on a connection that has lost nothing is backed by a state the server has,
\* or that is under way to it.
BaseInv ==
    up /\ ~damaged /\ lastSentFlat # None =>
        server # None \/ \E j \in DOMAIN chan : chan[j].kind = "state"

IInv ==
    /\ TypeOK /\ DataInv /\ MutexInv /\ LinkInv /\ BaseInv
    /\ BaselineMatchesServer /\ FreshDeltaHasBase

---------------------------------------------------------------------------
(* Copies *)

IsCopy(f) ==
    /\ f = [k \in DOMAIN f |-> f[k]]
    /\ \A k \in DOMAIN f : k \in Paths /\ f[k] \in ValuesAt(k)

LEMMA CopyIs == \A f \in Copies : IsCopy(f)
<1> TAKE f \in Copies
<1>1. PICK p \in SUBSET Paths, from \in [Paths -> Snapshots] :
        /\ \A k \in Paths : k \in DOMAIN from[k]
        /\ f = [k \in p |-> from[k][k]]
  BY DEF Copies
<1>2. DOMAIN f = p /\ \A k \in p : f[k] = from[k][k]
  BY <1>1
<1>3. \A k \in p : k \in Paths /\ from[k] \in Snapshots /\ k \in DOMAIN from[k]
  BY <1>1
<1>4. \A k \in DOMAIN f : k \in Paths /\ f[k] \in ValuesAt(k)
  BY <1>2, <1>3 DEF ValuesAt
<1>5. f = [k \in DOMAIN f |-> f[k]]
  BY <1>1, <1>2
<1> QED BY <1>4, <1>5 DEF IsCopy

LEMMA IsACopy ==
    ASSUME NEW f, IsCopy(f)
    PROVE  f \in Copies
<1> DEFINE Fits(k, s) == k \in DOMAIN s /\ (k \in DOMAIN f => s[k] = f[k])
           from == [k \in Paths |-> CHOOSE s \in Snapshots : Fits(k, s)]
<1>1. ASSUME NEW k \in Paths PROVE \E s \in Snapshots : Fits(k, s)
  <2>1. CASE k \in DOMAIN f
    BY <2>1 DEF IsCopy, ValuesAt
  <2>2. CASE k \notin DOMAIN f
    BY <2>2 DEF Paths
  <2> QED BY <2>1, <2>2
<1>2. \A k \in Paths : from[k] \in Snapshots /\ Fits(k, from[k])
  <2> HIDE DEF Fits
  <2> QED BY <1>1
<1>3. from \in [Paths -> Snapshots] /\ \A k \in Paths : k \in DOMAIN from[k]
  BY <1>2
<1>4. DOMAIN f \in SUBSET Paths
  BY DEF IsCopy
<1>5. f = [k \in DOMAIN f |-> from[k][k]]
  <2>1. \A k \in DOMAIN f : f[k] = from[k][k]
    BY <1>2, <1>4
  <2>2. f = [k \in DOMAIN f |-> f[k]]
    BY DEF IsCopy
  <2> HIDE DEF from
  <2> QED BY <2>1, <2>2
<1> HIDE DEF from
<1> QED BY <1>3, <1>4, <1>5 DEF Copies

LEMMA CopyIsNotNone == \A f \in Copies : f # None
BY SnapshotAssumption

LEMMA SmoothCopy ==
    ASSUME NEW s \in Copies, lastGPS \in ValuesAt(GpsKey) \cup {None}
    PROVE  Smooth(s) \in Copies /\ NextGPS(s) \in ValuesAt(GpsKey) \cup {None}
<1>1. IsCopy(s)
  BY CopyIs
<1>2. NextGPS(s) \in ValuesAt(GpsKey) \cup {None}
  BY <1>1 DEF NextGPS, IsCopy
<1>3. CASE ~Suppressed(s)
  BY <1>2, <1>3 DEF Smooth
<1>4. CASE Suppressed(s)
  <2>1. GpsKey \in DOMAIN s /\ lastGPS \in ValuesAt(GpsKey)
    BY <1>4 DEF Suppressed
  <2>2. PICK t : t = [s EXCEPT ![GpsKey] = lastGPS]
    OBVIOUS
  <2>3. DOMAIN t = DOMAIN s /\ \A k \in DOMAIN s : t[k] = IF k = GpsKey THEN lastGPS ELSE s[k]
    BY <2>2
  <2>4. t = [k \in DOMAIN t |-> t[k]]
    BY <2>2
  <2>5. IsCopy(t)
    BY <1>1, <2>1, <2>3, <2>4 DEF IsCopy
  <2>6. Smooth(s) = t
    BY <1>4, <2>2 DEF Smooth
  <2> QED BY <1>2, <2>5, <2>6, IsACopy
<1> QED BY <1>3, <1>4

LEMMA ChangedCopy ==
    ASSUME NEW old \in Copies, NEW new \in Copies
    PROVE  /\ Changed(old, new) \in Copies /\ Removed(old, new) \subseteq Paths
           /\ DOMAIN Changed(old, new) =
                {k \in DOMAIN new : k \notin DOMAIN old \/ old[k] # new[k]}
           /\ \A k \in DOMAIN Changed(old, new) : Changed(old, new)[k] = new[k]
<1>1. IsCopy(old) /\ IsCopy(new)
  BY CopyIs
<1>2. PICK keys : keys = {k \in DOMAIN new : k \notin DOMAIN old \/ old[k] # new[k]}
  OBVIOUS
<1>3. PICK c : c = [k \in keys |-> new[k]]
  OBVIOUS
<1>4. Changed(old, new) = c
  BY <1>2, <1>3 DEF Changed
<1>5. DOMAIN c = keys /\ \A k \in keys : c[k] = new[k]
  BY <1>3
<1>6. c = [k \in DOMAIN c |-> c[k]]
  BY <1>3
<1>7. IsCopy(c)
  BY <1>1, <1>2, <1>5, <1>6 DEF IsCopy
<1>8. Removed(old, new) \subseteq Paths
  BY <1>1 DEF Removed, IsCopy
<1> QED BY <1>2, <1>4, <1>5, <1>7, <1>8, IsACopy

\* Merging the difference of two snapshots into the old one gives the new one.
LEMMA DeltaRebuilds ==
    ASSUME NEW old \in Copies, NEW new \in Copies
    PROVE  Apply(old, DeltaFrame(old, new)) = new
<1>1. IsCopy(old) /\ IsCopy(new) /\ old # None
  BY CopyIs, CopyIsNotNone
<1>2. PICK c : c = Changed(old, new)
  OBVIOUS
<1>3. /\ DOMAIN c = {k \in DOMAIN new : k \notin DOMAIN old \/ old[k] # new[k]}
      /\ \A k \in DOMAIN c : c[k] = new[k]
  BY <1>2, ChangedCopy
<1>4. PICK keys : keys = (DOMAIN old \cup DOMAIN c) \ (DOMAIN old \ DOMAIN new)
  OBVIOUS
<1>5. keys = DOMAIN new
  BY <1>3, <1>4
<1>6. \A k \in keys : (IF k \in DOMAIN c THEN c[k] ELSE old[k]) = new[k]
  BY <1>3, <1>5
<1>7. Apply(old, DeltaFrame(old, new))
        = [k \in keys |-> IF k \in DOMAIN c THEN c[k] ELSE old[k]]
  BY <1>1, <1>2, <1>4 DEF Apply, DeltaFrame, Removed
<1>8. new = [k \in keys |-> new[k]]
  BY <1>1, <1>5 DEF IsCopy
<1> QED BY <1>6, <1>7, <1>8

LEMMA ApplyCopy ==
    ASSUME NEW copy \in Copies \cup {None}, NEW frame \in Frame
    PROVE  /\ Apply(copy, frame) \in Copies \cup {None}
           /\ frame.kind = "state" => Apply(copy, frame) \in Copies
           /\ copy # None => Apply(copy, frame) # None
<1>1. frame.data \in Copies /\ frame.kind \in {"state", "delta"}
  BY DEF Frame
<1>2. CASE frame.kind = "state"
  BY <1>1, <1>2, CopyIsNotNone DEF Apply
<1>3. CASE frame.kind # "state" /\ copy = None
  BY <1>3 DEF Apply
<1>4. CASE frame.kind # "state" /\ copy # None
  <2>1. IsCopy(copy) /\ IsCopy(frame.data)
    BY <1>1, <1>4, CopyIs
  <2>2. PICK d : d = frame.data
    OBVIOUS
  <2>3. PICK keys : keys = (DOMAIN copy \cup DOMAIN d) \ frame.removed
    OBVIOUS
  <2>4. PICK c : c = [k \in keys |-> IF k \in DOMAIN d THEN d[k] ELSE copy[k]]
    OBVIOUS
  <2>5. Apply(copy, frame) = c
    BY <1>4, <2>2, <2>3, <2>4 DEF Apply
  <2>6. c = [k \in DOMAIN c |-> c[k]] /\ DOMAIN c = keys
    BY <2>4
  <2>7. \A k \in keys : \/ k \in DOMAIN d /\ c[k] = d[k]
                        \/ k \in DOMAIN copy /\ c[k] = copy[k]
    BY <2>3, <2>4
  <2>8. IsCopy(c)
    BY <2>1, <2>2, <2>6, <2>7 DEF IsCopy
  <2> QED BY <1>4, <2>5, <2>8, IsACopy, CopyIsNotNone
<1> QED BY <1>2, <1>3, <1>4

---------------------------------------------------------------------------
(* The goroutines and the mutex *)

Stages == {"idle", "collected", "sending", "admitted"}
InSend == {"sending", "admitted"}

ProcInv ==
    /\ pc \in [Procs -> Stages] /\ holder \in Procs \cup {None}
    /\ snap \in [Procs -> Copies \cup {None}]
    /\ \A p \in Procs : snap[p] = None <=> pc[p] = "idle"
    /\ MutexInv

LEMMA ProcsAre ==
    /\ Main \in Procs /\ Query \in Procs /\ Tickers \subseteq Procs /\ None \notin Procs
    /\ Query \notin Tickers /\ Main # Query
BY PublisherAssumption DEF Procs

\* One goroutine moves on, with the mutex it takes, keeps or gives back.
LEMMA Moved ==
    ASSUME ProcInv, NEW p \in Procs, NEW t \in Stages, NEW v \in Copies \cup {None},
           v = None <=> t = "idle",
           pc' = [pc EXCEPT ![p] = t], snap' = [snap EXCEPT ![p] = v],
           \/ p = Query /\ holder' = holder
           \/ p # Query /\ (pc[p] \in InSend <=> t \in InSend) /\ holder' = holder
           \/ p # Query /\ holder \in {None, p} /\ t \in InSend /\ holder' = p
           \/ p # Query /\ holder = p /\ t \notin InSend /\ holder' = None
    PROVE  ProcInv'
<1>1. /\ pc \in [Procs -> Stages] /\ holder \in Procs \cup {None} /\ holder # Query
      /\ snap \in [Procs -> Copies \cup {None}]
      /\ \A q \in Procs : snap[q] = None <=> pc[q] = "idle"
      /\ \A q \in Procs \ {Query} : pc[q] \in InSend <=> holder = q
  BY DEF ProcInv, MutexInv, InSend
<1>2. /\ pc' \in [Procs -> Stages] /\ pc'[p] = t
      /\ \A q \in Procs \ {p} : pc'[q] = pc[q]
  BY <1>1
<1>3. /\ snap' \in [Procs -> Copies \cup {None}] /\ snap'[p] = v
      /\ \A q \in Procs \ {p} : snap'[q] = snap[q]
  BY <1>1
<1>4. \A q \in Procs : snap'[q] = None <=> pc'[q] = "idle"
  BY <1>1, <1>2, <1>3
<1>5. /\ holder' \in Procs \cup {None} /\ holder' # Query
      /\ \A q \in Procs \ {Query} : pc'[q] \in InSend <=> holder' = q
  BY <1>1, <1>2, ProcsAre
<1> QED BY <1>2, <1>3, <1>4, <1>5 DEF ProcInv, MutexInv, InSend

LEMMA ProcStep ==
    ASSUME ProcInv, vehicle \in Snapshots, lastGPS \in ValuesAt(GpsKey) \cup {None},
           [Next]_vars
    PROVE  ProcInv'
<1>0. /\ vehicle \in Copies \cup {None} /\ vehicle # None /\ None \in Copies \cup {None}
      /\ pc \in [Procs -> Stages] /\ snap \in [Procs -> Copies \cup {None}]
      /\ \A p \in Procs : snap[p] = None <=> pc[p] = "idle"
      /\ \A p \in Procs \ {Query} : pc[p] \in InSend <=> holder = p
      /\ holder # Query
  BY SnapshotAssumption DEF ProcInv, MutexInv, InSend
<1>1. CASE UNCHANGED procVars
  BY <1>1 DEF procVars, ProcInv, MutexInv
<1>2. ASSUME NEW p \in Tickers, TickerCollects(p) PROVE ProcInv'
  <2>1. /\ p \in Procs /\ p # Query /\ "collected" \in Stages /\ "collected" \notin InSend
        /\ pc[p] \notin InSend
    BY <1>2, ProcsAre DEF TickerCollects, Stages, InSend
  <2>2. /\ pc' = [pc EXCEPT ![p] = "collected"] /\ snap' = [snap EXCEPT ![p] = vehicle]
        /\ holder' = holder
    BY <1>2 DEF TickerCollects, Move
  <2> QED BY <1>0, <2>1, <2>2, Moved
<1>3. CASE MainCollects
  <2>1. /\ Main \in Procs /\ Main # Query /\ "collected" \in Stages
        /\ "collected" \notin InSend /\ pc[Main] \notin InSend
    BY <1>3, ProcsAre DEF MainCollects, Stages, InSend
  <2>2. /\ pc' = [pc EXCEPT ![Main] = "collected"] /\ snap' = [snap EXCEPT ![Main] = vehicle]
        /\ holder' = holder
    BY <1>3 DEF MainCollects, Move
  <2> QED BY <1>0, <2>1, <2>2, Moved
<1>4. CASE QueryCollects
  <2>1. Query \in Procs /\ "sending" \in Stages
    BY ProcsAre DEF Stages
  <2>2. /\ pc' = [pc EXCEPT ![Query] = "sending"] /\ snap' = [snap EXCEPT ![Query] = vehicle]
        /\ holder' = holder
    BY <1>4 DEF QueryCollects, Move
  <2> QED BY <1>0, <2>1, <2>2, Moved
<1>5. CASE QuerySends
  <2>1. Query \in Procs /\ "idle" \in Stages
    BY ProcsAre DEF Stages
  <2>2. /\ pc' = [pc EXCEPT ![Query] = "idle"] /\ snap' = [snap EXCEPT ![Query] = None]
        /\ holder' = holder
    BY <1>5 DEF QuerySends, Move
  <2> QED BY <1>0, <2>1, <2>2, Moved
<1>6. ASSUME NEW p \in Tickers \cup {Main}, PublishBuffers(p) \/ PublishNothing(p)
      PROVE  ProcInv'
  <2>1. /\ p \in Procs /\ p # Query /\ "idle" \in Stages /\ "idle" \notin InSend
        /\ pc[p] \notin InSend
    BY <1>6, ProcsAre DEF PublishBuffers, PublishNothing, Stages, InSend
  <2>2. /\ pc' = [pc EXCEPT ![p] = "idle"] /\ snap' = [snap EXCEPT ![p] = None]
        /\ holder' = holder
    BY <1>6 DEF PublishBuffers, PublishNothing, Move
  <2> QED BY <1>0, <2>1, <2>2, Moved
<1>7. ASSUME NEW p \in Tickers \cup {Main}, PublishStarts(p) PROVE ProcInv'
  <2>1. p \in Procs /\ p # Query /\ "sending" \in Stages /\ "sending" \in InSend
    BY ProcsAre DEF Stages, InSend
  <2>2. snap[p] \in Copies
    BY <1>0, <1>7, <2>1 DEF PublishStarts
  <2>3. Smooth(snap[p]) \in Copies /\ Smooth(snap[p]) # None
    BY <2>2, SmoothCopy, CopyIsNotNone
  <2>4. /\ pc' = [pc EXCEPT ![p] = "sending"] /\ snap' = [snap EXCEPT ![p] = Smooth(snap[p])]
        /\ holder = None /\ holder' = p
    BY <1>7 DEF PublishStarts, Move
  <2> QED BY <2>1, <2>3, <2>4, Moved
<1>8. ASSUME NEW p \in Tickers \cup {Main}, PublishSends(p) PROVE ProcInv'
  <2>1. p \in Procs /\ p # Query /\ "idle" \in Stages /\ "idle" \notin InSend
    BY ProcsAre DEF Stages, InSend
  <2>2. holder = p
    BY <1>0, <1>8, <2>1 DEF PublishSends, InSend
  <2>3. /\ pc' = [pc EXCEPT ![p] = "idle"] /\ snap' = [snap EXCEPT ![p] = None]
        /\ holder' = None
    BY <1>8 DEF PublishSends, Move
  <2> QED BY <1>0, <2>1, <2>2, <2>3, Moved
<1>9. ASSUME NEW p \in Procs, SendRefused(p) \/ SendFull(p) PROVE ProcInv'
  <2>1. "idle" \in Stages /\ "idle" \notin InSend /\ pc[p] \in InSend
    BY <1>9 DEF SendRefused, SendFull, Stages, InSend
  <2>2. /\ pc' = [pc EXCEPT ![p] = "idle"] /\ snap' = [snap EXCEPT ![p] = None]
        /\ holder' = IF holder = p THEN None ELSE holder
    BY <1>9 DEF SendRefused, SendFull, Abandon, Move
  <2>3. \/ p = Query /\ holder' = holder
        \/ p # Query /\ holder = p /\ holder' = None
    BY <1>0, <2>1, <2>2
  <2> QED BY <1>0, <2>1, <2>2, <2>3, Moved
<1>10. ASSUME NEW p \in Procs, SendAdmitted(p) PROVE ProcInv'
  <2>1. "admitted" \in Stages /\ "admitted" \in InSend /\ pc[p] \in InSend /\ pc[p] # "idle"
    BY <1>10 DEF SendAdmitted, Stages, InSend
  <2>2. pc' = [pc EXCEPT ![p] = "admitted"] /\ snap' = snap /\ holder' = holder
    BY <1>10 DEF SendAdmitted, Move
  <2>3. snap' = [snap EXCEPT ![p] = snap[p]] /\ snap[p] \in Copies \cup {None}
    BY <1>0, <2>2
  <2>4. snap[p] # None
    BY <1>0, <2>1
  <2> QED BY <2>1, <2>2, <2>3, <2>4, Moved
<1>11. CASE \/ VehicleChanges \/ Connect \/ Disconnect \/ ResetBaseline \/ ServerReceives
            \/ FrameLost \/ MainFails \/ UNCHANGED vars
  BY <1>1, <1>11 DEF VehicleChanges, Connect, Disconnect, ResetBaseline, ServerReceives,
                     FrameLost, MainFails, vars, procVars
<1> QED BY <1>2, <1>3, <1>4, <1>5, <1>6, <1>7, <1>8, <1>9, <1>10, <1>11
        DEF Next, Publish, Send

---------------------------------------------------------------------------
(* The channel and the data *)

ChanInv ==
    /\ up \in BOOLEAN /\ epoch \in 0..MaxEpochs /\ damaged \in BOOLEAN
    /\ chan \in Seq(Frame) /\ Len(chan) <= SendCap
    /\ \A i \in DOMAIN chan : chan[i].born \in 0..epoch

ValueInv ==
    /\ vehicle \in Snapshots /\ sinceFull \in 0..FullResyncEvery
    /\ signal \in BOOLEAN /\ resetDue \in BOOLEAN /\ queries \in 0..MaxQueries
    /\ queried \in BOOLEAN
    /\ server \in Copies \cup {None} /\ lastSentFlat \in Copies \cup {None}
    /\ lastGPS \in ValuesAt(GpsKey) \cup {None}

LEMMA InvParts == TypeOK /\ DataInv /\ MutexInv <=> ProcInv /\ ChanInv /\ ValueInv
<1>1. TypeOK /\ DataInv /\ MutexInv => ProcInv /\ ChanInv /\ ValueInv
  BY DEF TypeOK, DataInv, ProcInv, ChanInv, ValueInv, Stages
<1>2. ASSUME ProcInv, ChanInv, ValueInv PROVE TypeOK /\ DataInv /\ MutexInv
  <2>1. \A i \in DOMAIN chan : chan[i] \in Frame
    BY <1>2 DEF ChanInv
  <2>2. \A i \in DOMAIN chan : chan[i].kind \in {"state", "delta"}
    BY <2>1 DEF Frame
  <2> QED BY <1>2, <2>2 DEF TypeOK, DataInv, ProcInv, ChanInv, ValueInv, Stages
<1> QED BY <1>1, <1>2

\* The end of Publish in the connected case: a state, or a delta against the baseline.
LEMMA PublishSendsFacts ==
    ASSUME ProcInv, ChanInv, ValueInv, NEW p \in Tickers \cup {Main}, PublishSends(p)
    PROVE  \E flat \in Copies, frame \in Frame :
             /\ chan' = Append(chan, frame) /\ lastSentFlat' = flat /\ frame.born = epoch
             /\ \/ frame.kind = "state" /\ frame.data = flat /\ queried' = FALSE
                   /\ sinceFull' = 0
                \/ /\ frame.kind = "delta" /\ frame = DeltaFrame(lastSentFlat, flat)
                   /\ lastSentFlat \in Copies /\ queried' = queried
                   /\ sinceFull < FullResyncEvery /\ sinceFull' = sinceFull + 1
<1>1. p \in Procs /\ p # Query
  BY ProcsAre
<1>2. PICK flat \in Copies : flat = snap[p]
  <2>1. snap[p] \in Copies \cup {None} /\ snap[p] # None
    BY <1>1 DEF ProcInv, PublishSends
  <2> QED BY <2>1
<1>3. epoch \in Nat /\ queried' = (queried /\ ~Full(p, flat))
  BY <1>2, PublisherAssumption DEF ChanInv, PublishSends
<1>4. CASE Full(p, flat)
  <2>1. /\ chan' = Append(chan, StateFrame(flat)) /\ lastSentFlat' = flat
        /\ queried' = FALSE /\ sinceFull' = 0
    BY <1>2, <1>4 DEF PublishSends, Put
  <2>2. /\ StateFrame(flat) \in Frame /\ StateFrame(flat).kind = "state"
        /\ StateFrame(flat).data = flat /\ StateFrame(flat).born = epoch
    BY <1>2, <1>3 DEF StateFrame, Frame
  <2> QED BY <2>1, <2>2
<1>5. CASE ~Full(p, flat)
  <2>1. /\ chan' = Append(chan, DeltaFrame(lastSentFlat, flat)) /\ lastSentFlat' = flat
        /\ sinceFull' = sinceFull + 1
    BY <1>2, <1>5 DEF PublishSends, Put
  <2>2. lastSentFlat \in Copies /\ sinceFull < FullResyncEvery
    BY <1>5, PublisherAssumption DEF Full, ValueInv
  <2>3. queried' = queried
    BY <1>2, <1>5 DEF PublishSends, ValueInv
  <2>4. /\ DeltaFrame(lastSentFlat, flat) \in Frame
        /\ DeltaFrame(lastSentFlat, flat).kind = "delta"
        /\ DeltaFrame(lastSentFlat, flat).born = epoch
    BY <1>2, <1>3, <2>2, ChangedCopy DEF DeltaFrame, Frame
  <2> QED BY <2>1, <2>2, <2>3, <2>4
<1> QED BY <1>4, <1>5

\* get_state puts a full state.
LEMMA QuerySendsFacts ==
    ASSUME ProcInv, ChanInv, QuerySends
    PROVE  \E frame \in Frame :
             chan' = Append(chan, frame) /\ frame.kind = "state" /\ frame.born = epoch
<1>1. PICK flat \in Copies : flat = snap[Query]
  <2>1. snap[Query] \in Copies \cup {None} /\ snap[Query] # None
    BY ProcsAre DEF ProcInv, QuerySends
  <2> QED BY <2>1
<1>2. epoch \in Nat
  BY PublisherAssumption DEF ChanInv
<1>3. /\ StateFrame(flat) \in Frame /\ StateFrame(flat).kind = "state"
      /\ StateFrame(flat).born = epoch
  BY <1>1, <1>2 DEF StateFrame, Frame
<1> QED BY <1>1, <1>3 DEF QuerySends, Put

\* Only these touch the channel or what the server holds.
LEMMA ChanFrame ==
    ASSUME [Next]_vars
    PROVE  \/ Connect \/ Disconnect \/ ServerReceives \/ FrameLost \/ QuerySends
           \/ \E p \in Tickers \cup {Main} : PublishSends(p)
           \/ UNCHANGED <<channelVars, server, queried>>
<1>1. CASE VehicleChanges \/ ResetBaseline \/ MainCollects \/ MainFails \/ QueryCollects
  BY <1>1 DEF VehicleChanges, ResetBaseline, MainCollects, MainFails, QueryCollects
<1>2. CASE \E p \in Tickers : TickerCollects(p)
  BY <1>2 DEF TickerCollects
<1>3. ASSUME NEW p \in Tickers \cup {Main},
             PublishBuffers(p) \/ PublishNothing(p) \/ PublishStarts(p)
      PROVE  UNCHANGED <<channelVars, server, queried>>
  BY <1>3 DEF PublishBuffers, PublishNothing, PublishStarts
<1>4. ASSUME NEW p \in Procs, Send(p) PROVE UNCHANGED <<channelVars, server, queried>>
  BY <1>4 DEF Send, SendRefused, SendAdmitted, SendFull, Abandon
<1>5. CASE UNCHANGED vars
  BY <1>5 DEF vars
<1> QED BY <1>1, <1>2, <1>3, <1>4, <1>5 DEF Next, Publish

\* Only these touch the baseline.
LEMMA BaselineFrame ==
    ASSUME [Next]_vars
    PROVE  \/ \E p \in Tickers \cup {Main} : PublishSends(p)
           \/ lastSentFlat' = None /\ UNCHANGED sinceFull
           \/ UNCHANGED <<lastSentFlat, sinceFull>>
<1> USE DEF pubVars
<1>1. CASE VehicleChanges \/ ResetBaseline \/ MainCollects \/ MainFails \/ QueryCollects
  BY <1>1 DEF VehicleChanges, ResetBaseline, MainCollects, MainFails, QueryCollects
<1>2. CASE \E p \in Tickers : TickerCollects(p)
  BY <1>2 DEF TickerCollects
<1>3. ASSUME NEW p \in Tickers \cup {Main},
             PublishBuffers(p) \/ PublishNothing(p) \/ PublishStarts(p)
      PROVE  \/ lastSentFlat' = None /\ UNCHANGED sinceFull
             \/ UNCHANGED <<lastSentFlat, sinceFull>>
  BY <1>3 DEF PublishBuffers, PublishNothing, PublishStarts
<1>4. ASSUME NEW p \in Procs, Send(p) PROVE UNCHANGED <<lastSentFlat, sinceFull>>
  BY <1>4 DEF Send, SendRefused, SendAdmitted, SendFull, Abandon
<1>5. CASE Connect \/ Disconnect \/ ServerReceives \/ FrameLost \/ QuerySends
  BY <1>5 DEF Connect, Disconnect, ServerReceives, FrameLost, QuerySends
<1>6. CASE UNCHANGED vars
  BY <1>6 DEF vars
<1> QED BY <1>1, <1>2, <1>3, <1>4, <1>5, <1>6 DEF Next, Publish

LEMMA ChanStep ==
    ASSUME ProcInv, ChanInv, ValueInv, [Next]_vars
    PROVE  ChanInv'
<1>0. /\ MaxEpochs \in Nat /\ SendCap \in Nat /\ chan \in Seq(Frame) /\ Len(chan) <= SendCap
      /\ epoch \in 0..MaxEpochs /\ Len(chan) \in Nat
      /\ DOMAIN chan = 1..Len(chan) /\ \A i \in DOMAIN chan : chan[i].born \in 0..epoch
  BY PublisherAssumption, ChannelAssumption DEF ChanInv
<1>1. CASE UNCHANGED channelVars
  BY <1>1 DEF channelVars, ChanInv
<1>2. CASE Connect
  <2>1. up' = TRUE /\ epoch' = epoch + 1 /\ epoch < MaxEpochs /\ damaged' = FALSE /\ chan' = chan
    BY <1>2 DEF Connect, ChannelOpens
  <2>2. epoch' \in 0..MaxEpochs /\ \A n \in 0..epoch : n \in 0..epoch'
    BY <1>0, <2>1
  <2> QED BY <1>0, <2>1, <2>2 DEF ChanInv
<1>3. CASE Disconnect
  BY <1>3 DEF Disconnect, ChannelCloses, ChanInv
<1>4. CASE ServerReceives \/ FrameLost
  <2>1. /\ chan' = Tail(chan) /\ chan # <<>> /\ up' = up /\ epoch' = epoch
        /\ damaged' \in {damaged, TRUE}
    BY <1>4 DEF ServerReceives, FrameLost, Deliver, Lose
  <2>2. /\ chan' \in Seq(Frame) /\ Len(chan') <= SendCap
        /\ DOMAIN chan' = 1..(Len(chan) - 1) /\ \A i \in DOMAIN chan' : chan'[i] = chan[i + 1]
    BY <1>0, <2>1
  <2>3. \A i \in DOMAIN chan' : i + 1 \in DOMAIN chan
    BY <1>0, <2>2
  <2>4. \A i \in DOMAIN chan' : chan'[i].born \in 0..epoch
    BY <1>0, <2>2, <2>3
  <2>5. damaged' \in BOOLEAN /\ up' \in BOOLEAN
    BY <2>1, Zenon DEF ChanInv
  <2> QED BY <1>0, <2>1, <2>2, <2>4, <2>5 DEF ChanInv
<1>5. ASSUME NEW frame \in Frame, chan' = Append(chan, frame), frame.born = epoch,
             HasRoom, UNCHANGED <<up, epoch, damaged>>
      PROVE  ChanInv'
  <2>1. /\ chan' \in Seq(Frame) /\ Len(chan') = Len(chan) + 1
        /\ DOMAIN chan' = 1..(Len(chan) + 1) /\ chan'[Len(chan) + 1] = frame
        /\ \A i \in 1..Len(chan) : chan'[i] = chan[i]
    BY <1>0, <1>5
  <2>2. Len(chan') <= SendCap
    BY <1>0, <1>5, <2>1 DEF HasRoom
  <2>3. \A i \in DOMAIN chan' : i \in 1..Len(chan) \/ i = Len(chan) + 1
    BY <1>0, <2>1
  <2>4. epoch \in 0..epoch
    BY <1>0
  <2>5. \A i \in DOMAIN chan' : chan'[i].born \in 0..epoch
    BY <1>0, <1>5, <2>1, <2>3, <2>4
  <2> QED BY <1>5, <2>1, <2>2, <2>5 DEF ChanInv
<1>6. CASE QuerySends
  <2>1. HasRoom /\ UNCHANGED <<up, epoch, damaged>>
    BY <1>6 DEF QuerySends, Put
  <2> QED BY <1>5, <1>6, <2>1, QuerySendsFacts
<1>7. ASSUME NEW p \in Tickers \cup {Main}, PublishSends(p) PROVE ChanInv'
  <2>1. HasRoom /\ UNCHANGED <<up, epoch, damaged>>
    BY <1>7 DEF PublishSends, Put
  <2>2. PICK frame \in Frame : chan' = Append(chan, frame) /\ frame.born = epoch
    BY <1>7, PublishSendsFacts
  <2> QED BY <1>5, <2>1, <2>2
<1> QED BY <1>1, <1>2, <1>3, <1>4, <1>6, <1>7, ChanFrame

LEMMA ValueStep ==
    ASSUME ProcInv, ChanInv, ValueInv, [Next]_vars
    PROVE  ValueInv'
<1>0. MaxQueries \in Nat /\ FullResyncEvery \in Nat
  BY PublisherAssumption
<1>1. server' \in Copies \cup {None}
  <2>1. CASE ServerReceives
    <3>1. Head(chan) \in Frame
      BY <2>1 DEF ServerReceives, Deliver, ChanInv
    <3> QED BY <2>1, <3>1, ApplyCopy DEF ServerReceives, ValueInv
  <2>2. CASE Connect
    BY <2>2 DEF Connect
  <2>3. CASE UNCHANGED server
    BY <2>3 DEF ValueInv
  <2> QED BY <2>1, <2>2, <2>3, ChanFrame DEF Disconnect, FrameLost, QuerySends, PublishSends
<1>2. queried' \in BOOLEAN
  <2>1. CASE UNCHANGED queried
    BY <2>1 DEF ValueInv
  <2>2. CASE QuerySends
    BY <2>2 DEF QuerySends
  <2>3. ASSUME NEW p \in Tickers \cup {Main}, PublishSends(p) PROVE queried' \in BOOLEAN
    BY <2>3, PublishSendsFacts DEF ValueInv
  <2> QED BY <2>1, <2>2, <2>3, ChanFrame DEF Connect, Disconnect, FrameLost, ServerReceives
<1>3. lastSentFlat' \in Copies \cup {None} /\ sinceFull' \in 0..FullResyncEvery
  <2>1. ASSUME NEW p \in Tickers \cup {Main}, PublishSends(p)
        PROVE  lastSentFlat' \in Copies \cup {None} /\ sinceFull' \in 0..FullResyncEvery
    <3>1. /\ lastSentFlat' \in Copies
          /\ sinceFull' = 0 \/ (sinceFull < FullResyncEvery /\ sinceFull' = sinceFull + 1)
      BY <2>1, PublishSendsFacts
    <3> QED BY <1>0, <3>1 DEF ValueInv
  <2> QED BY <2>1, BaselineFrame DEF ValueInv
<1>4. lastGPS' \in ValuesAt(GpsKey) \cup {None}
  <2>0. lastGPS \in ValuesAt(GpsKey) \cup {None}
    BY DEF ValueInv
  <2>1. ASSUME NEW p \in Tickers \cup {Main},
               PublishBuffers(p) \/ PublishNothing(p) \/ PublishStarts(p)
        PROVE  lastGPS' \in ValuesAt(GpsKey) \cup {None}
    <3>1. p \in Procs /\ pc[p] = "collected"
      BY <2>1, ProcsAre DEF PublishBuffers, PublishNothing, PublishStarts
    <3>2. snap[p] \in Copies
      BY <3>1 DEF ProcInv
    <3>3. lastGPS' = NextGPS(snap[p])
      BY <2>1 DEF PublishBuffers, PublishNothing, PublishStarts
    <3> QED BY <2>0, <3>2, <3>3, SmoothCopy
  <2>2. ASSUME NEW p \in Tickers \cup {Main}, PublishSends(p) PROVE lastGPS' = lastGPS
    BY <2>2 DEF PublishSends
  <2>3. ASSUME NEW p \in Procs, Send(p) PROVE lastGPS' = lastGPS
    BY <2>3 DEF Send, SendRefused, SendAdmitted, SendFull, Abandon, pubVars
  <2>4. CASE VehicleChanges \/ ResetBaseline \/ MainCollects \/ MainFails \/ QueryCollects
    BY <2>0, <2>4 DEF VehicleChanges, ResetBaseline, MainCollects, MainFails, QueryCollects,
                      pubVars
  <2>5. CASE \/ Connect \/ Disconnect \/ ServerReceives \/ FrameLost \/ QuerySends
             \/ UNCHANGED vars
    BY <2>0, <2>5 DEF Connect, Disconnect, ServerReceives, FrameLost, QuerySends, vars, pubVars
  <2>6. ASSUME NEW p \in Tickers, TickerCollects(p) PROVE lastGPS' = lastGPS
    BY <2>6 DEF TickerCollects, pubVars
  <2> QED BY <2>0, <2>1, <2>2, <2>3, <2>4, <2>5, <2>6 DEF Next, Publish
<1>5. /\ vehicle' \in Snapshots /\ signal' \in BOOLEAN /\ resetDue' \in BOOLEAN
      /\ queries' \in 0..MaxQueries
  <2> USE DEF ValueInv, linkVars
  <2>1. CASE VehicleChanges \/ ResetBaseline \/ MainCollects \/ MainFails
    BY <2>1 DEF VehicleChanges, ResetBaseline, MainCollects, MainFails
  <2>2. CASE QueryCollects
    BY <1>0, <2>2 DEF QueryCollects
  <2>3. CASE Connect \/ Disconnect \/ ServerReceives
    BY <2>3 DEF Connect, Disconnect, ServerReceives
  <2>4. CASE FrameLost \/ QuerySends \/ UNCHANGED vars
    BY <2>4 DEF FrameLost, QuerySends, vars
  <2>5. ASSUME NEW p \in Tickers, TickerCollects(p)
        PROVE  UNCHANGED <<vehicle, signal, resetDue, queries>>
    BY <2>5 DEF TickerCollects
  <2>6. ASSUME NEW p \in Procs, Send(p) PROVE UNCHANGED <<vehicle, signal, resetDue, queries>>
    BY <2>6 DEF Send, SendRefused, SendAdmitted, SendFull, Abandon
  <2>7. ASSUME NEW p \in Tickers \cup {Main}, Publish(p)
        PROVE  UNCHANGED <<vehicle, signal, resetDue, queries>>
    BY <2>7 DEF Publish, PublishBuffers, PublishNothing, PublishStarts, PublishSends
  <2>8. CASE UNCHANGED <<vehicle, signal, resetDue, queries>>
    BY <2>8
  <2> QED BY <2>1, <2>2, <2>3, <2>4, <2>5, <2>6, <2>7, <2>8 DEF Next
<1> QED BY <1>1, <1>2, <1>3, <1>4, <1>5 DEF ValueInv

---------------------------------------------------------------------------
(* The reset of the baseline *)

LEMMA LinkStep ==
    ASSUME ProcInv, ChanInv, ValueInv, LinkInv, [Next]_vars
    PROVE  LinkInv'
<1>0. /\ up => ~resetDue
      /\ ~up /\ ~resetDue => holder = None /\ lastSentFlat = None
  BY DEF LinkInv
<1>1. CASE VehicleChanges \/ ResetBaseline \/ MainCollects \/ MainFails \/ QueryCollects
  BY <1>0, <1>1 DEF VehicleChanges, ResetBaseline, MainCollects, MainFails, QueryCollects,
                    channelVars, pubVars, procVars, linkVars, LinkInv
<1>2. CASE Connect \/ Disconnect
  BY <1>0, <1>2 DEF Connect, Disconnect, ChannelOpens, ChannelCloses, LinkInv
<1>3. CASE ServerReceives \/ FrameLost \/ QuerySends \/ UNCHANGED vars
  BY <1>0, <1>3 DEF ServerReceives, FrameLost, QuerySends, Deliver, Lose, Put, vars,
                    channelVars, pubVars, procVars, linkVars, LinkInv
<1>4. ASSUME NEW p \in Tickers, TickerCollects(p) PROVE LinkInv'
  BY <1>0, <1>4 DEF TickerCollects, channelVars, pubVars, linkVars, LinkInv
<1>5. ASSUME NEW p \in Tickers \cup {Main},
             PublishBuffers(p) \/ PublishNothing(p) \/ PublishStarts(p)
      PROVE  LinkInv'
  BY <1>0, <1>5 DEF PublishBuffers, PublishNothing, PublishStarts, channelVars, linkVars,
                    LinkInv
<1>6. ASSUME NEW p \in Tickers \cup {Main}, PublishSends(p) PROVE LinkInv'
  <2>1. p \in Procs /\ p # Query /\ p # None
    BY ProcsAre
  <2>2. holder = p
    BY <1>6, <2>1 DEF PublishSends, ProcInv, MutexInv
  <2>3. UNCHANGED <<up, resetDue>>
    BY <1>6 DEF PublishSends, Put, linkVars
  <2> QED BY <1>0, <2>1, <2>2, <2>3 DEF LinkInv
<1>7. ASSUME NEW p \in Procs, Send(p) PROVE LinkInv'
  <2>1. UNCHANGED <<up, resetDue, lastSentFlat>>
    BY <1>7 DEF Send, SendRefused, SendAdmitted, SendFull, Abandon, channelVars, pubVars,
                linkVars
  <2>2. holder' \in {None, holder}
    BY <1>7 DEF Send, SendRefused, SendAdmitted, SendFull, Abandon
  <2> QED BY <1>0, <2>1, <2>2 DEF LinkInv
<1> QED BY <1>1, <1>2, <1>3, <1>4, <1>5, <1>6, <1>7 DEF Next, Publish

---------------------------------------------------------------------------
(* Baseline and server *)

\* On a connection that stays as it is, a frame is put, received or nothing happens.
LEMMA LinkedStep ==
    ASSUME ProcInv, ChanInv, ValueInv, LinkInv, [Next]_vars, up', ~damaged'
    PROVE  \/ Connect /\ lastSentFlat' = None /\ epoch' = epoch + 1 /\ chan' = chan
           \/ /\ up /\ ~damaged /\ epoch' = epoch
              /\ \/ ServerReceives /\ lastSentFlat' = lastSentFlat /\ queried' = queried
                 \/ QuerySends /\ lastSentFlat' = lastSentFlat /\ server' = server /\ queried'
                 \/ \E p \in Tickers \cup {Main} : PublishSends(p) /\ server' = server
                 \/ /\ chan' = chan /\ server' = server /\ queried' = queried
                    /\ lastSentFlat' \in {None, lastSentFlat}
<1>1. CASE Connect
  <2>1. ~up /\ ~resetDue /\ lastSentFlat' = lastSentFlat /\ epoch' = epoch + 1 /\ chan' = chan
    BY <1>1 DEF Connect, ChannelOpens, pubVars
  <2> QED BY <1>1, <2>1 DEF LinkInv
<1>2. ~Disconnect /\ ~FrameLost
  BY DEF Disconnect, ChannelCloses, FrameLost, Lose
<1>3. CASE ServerReceives
  BY <1>3 DEF ServerReceives, Deliver, pubVars
<1>4. CASE QuerySends
  BY <1>4 DEF QuerySends, Put, pubVars
<1>5. ASSUME NEW p \in Tickers \cup {Main}, PublishSends(p)
      PROVE  up /\ ~damaged /\ epoch' = epoch /\ server' = server
  BY <1>5 DEF PublishSends, Put
<1>6. CASE UNCHANGED <<channelVars, server, queried>>
  <2>1. up /\ ~damaged /\ UNCHANGED <<epoch, chan, server, queried>>
    BY <1>6 DEF channelVars
  <2> QED BY <1>5, <2>1, BaselineFrame
<1> QED BY <1>1, <1>2, <1>3, <1>4, <1>5, <1>6, ChanFrame

LEMMA TailFacts ==
    ASSUME ChanInv, ServerReceives
    PROVE  /\ chan # <<>> /\ Head(chan) \in Frame /\ Head(chan) = chan[1]
           /\ 1 \in DOMAIN chan
           /\ chan' = Tail(chan) /\ server' = Apply(server, chan[1])
           /\ \A i \in DOMAIN chan' : i + 1 \in DOMAIN chan /\ chan'[i] = chan[i + 1]
           /\ \A i \in DOMAIN chan : i # 1 => i - 1 \in DOMAIN chan' /\ chan'[i - 1] = chan[i]
<1>1. chan \in Seq(Frame) /\ chan # <<>> /\ chan' = Tail(chan)
  BY DEF ChanInv, ServerReceives, Deliver
<1>2. PICK l \in Nat \ {0} : l = Len(chan)
  BY <1>1
<1>3. /\ DOMAIN chan = 1..l /\ DOMAIN chan' = 1..(l - 1) /\ Head(chan) = chan[1]
      /\ chan[1] \in Frame /\ \A i \in 1..(l - 1) : chan'[i] = chan[i + 1]
  BY <1>1, <1>2
<1>4. \A i \in 1..(l - 1) : i + 1 \in 1..l
  OBVIOUS
<1>5. \A i \in 1..l : i # 1 => i - 1 \in 1..(l - 1) /\ (i - 1) + 1 = i
  OBVIOUS
<1>6. server' = Apply(server, chan[1]) /\ 1 \in 1..l
  BY <1>3 DEF ServerReceives
<1> QED BY <1>1, <1>3, <1>4, <1>5, <1>6

LEMMA BaseStep ==
    ASSUME ProcInv, ChanInv, ValueInv, LinkInv, BaseInv, [Next]_vars
    PROVE  BaseInv'
<1> SUFFICES ASSUME up', ~damaged', lastSentFlat' # None
             PROVE  server' # None \/ \E j \in DOMAIN chan' : chan'[j].kind = "state"
  BY DEF BaseInv
<1>1. CASE up /\ ~damaged /\ ServerReceives /\ lastSentFlat' = lastSentFlat
  <2>1. server \in Copies \cup {None}
    BY DEF ValueInv
  <2>2. CASE server # None
    BY <1>1, <2>1, <2>2, TailFacts, ApplyCopy
  <2>3. ASSUME NEW j \in DOMAIN chan, chan[j].kind = "state"
        PROVE  server' # None \/ \E i \in DOMAIN chan' : chan'[i].kind = "state"
    <3>1. CASE j = 1
      <4>1. server' \in Copies
        BY <1>1, <2>1, <2>3, <3>1, TailFacts, ApplyCopy
      <4> QED BY <4>1, CopyIsNotNone
    <3>2. CASE j # 1
      BY <1>1, <2>3, <3>2, TailFacts
    <3> QED BY <3>1, <3>2
  <2> QED BY <1>1, <2>2, <2>3 DEF BaseInv
<1>2. ASSUME NEW frame \in Frame, chan' = Append(chan, frame),
             \/ frame.kind = "state"
             \/ server' # None \/ \E j \in DOMAIN chan : chan[j].kind = "state"
      PROVE  server' # None \/ \E j \in DOMAIN chan' : chan'[j].kind = "state"
  <2>1. chan \in Seq(Frame)
    BY DEF ChanInv
  <2>2. PICK l \in Nat : l = Len(chan)
    BY <2>1
  <2>3. /\ DOMAIN chan = 1..l /\ DOMAIN chan' = 1..(l + 1) /\ chan'[l + 1] = frame
        /\ l + 1 \in 1..(l + 1) /\ \A j \in 1..l : j \in 1..(l + 1) /\ chan'[j] = chan[j]
    BY <1>2, <2>1, <2>2
  <2> QED BY <1>2, <2>3
<1>3. CASE QuerySends
  BY <1>2, <1>3, QuerySendsFacts
<1>4. ASSUME NEW p \in Tickers \cup {Main}, PublishSends(p), server' = server, up, ~damaged
      PROVE  server' # None \/ \E j \in DOMAIN chan' : chan'[j].kind = "state"
  <2>1. PICK frame \in Frame : /\ chan' = Append(chan, frame)
                               /\ frame.kind = "state" \/ lastSentFlat \in Copies
    BY <1>4, PublishSendsFacts
  <2>2. lastSentFlat \in Copies =>
          server' # None \/ \E j \in DOMAIN chan : chan[j].kind = "state"
    BY <1>4, CopyIsNotNone DEF BaseInv
  <2> QED BY <1>2, <2>1, <2>2
<1>5. CASE up /\ ~damaged /\ chan' = chan /\ server' = server /\ lastSentFlat # None
  BY <1>5 DEF BaseInv
<1> QED BY <1>1, <1>3, <1>4, <1>5, LinkedStep

LEMMA BaselineStep ==
    ASSUME ProcInv, ChanInv, ValueInv, LinkInv, BaselineMatchesServer, [Next]_vars
    PROVE  BaselineMatchesServer'
<1> SUFFICES ASSUME up', ~damaged', ~queried', lastSentFlat' # None
             PROVE  Replay(server', chan') = lastSentFlat'
  BY DEF BaselineMatchesServer
<1>0. chan \in Seq(Frame)
  BY DEF ChanInv
<1>1. CASE up /\ ~damaged /\ ServerReceives /\ lastSentFlat' = lastSentFlat /\ ~queried
  <2>1. Replay(server, chan) = lastSentFlat
    BY <1>1 DEF BaselineMatchesServer
  <2>2. server' = Apply(server, Head(chan)) /\ chan' = Tail(chan) /\ chan # <<>>
    BY <1>1, TailFacts
  <2>3. Replay(server', chan') = Replay(server, chan)
    BY <1>0, <2>2, ReplayTail
  <2> QED BY <1>1, <2>1, <2>3
<1>2. ASSUME NEW p \in Tickers \cup {Main}, PublishSends(p), server' = server, up, ~damaged
      PROVE  Replay(server', chan') = lastSentFlat'
  <2>1. PICK flat \in Copies, frame \in Frame :
             /\ chan' = Append(chan, frame) /\ lastSentFlat' = flat
             /\ \/ frame.kind = "state" /\ frame.data = flat
                \/ /\ frame = DeltaFrame(lastSentFlat, flat)
                   /\ lastSentFlat \in Copies /\ queried' = queried
    BY <1>2, PublishSendsFacts
  <2>2. Replay(server', chan') = Apply(Replay(server, chan), frame)
    BY <1>0, <1>2, <2>1, ReplayAppend
  <2>3. CASE frame.kind = "state" /\ frame.data = flat
    BY <2>1, <2>2, <2>3 DEF Apply
  <2>4. CASE /\ frame = DeltaFrame(lastSentFlat, flat)
             /\ lastSentFlat \in Copies /\ queried' = queried
    <3>1. Replay(server, chan) = lastSentFlat
      BY <1>2, <2>4, CopyIsNotNone DEF BaselineMatchesServer
    <3> QED BY <2>1, <2>2, <2>4, <3>1, DeltaRebuilds
  <2> QED BY <2>1, <2>3, <2>4
<1>3. CASE /\ up /\ ~damaged /\ chan' = chan /\ server' = server /\ ~queried
           /\ lastSentFlat' = lastSentFlat
  BY <1>3 DEF BaselineMatchesServer
<1> QED BY <1>1, <1>2, <1>3, LinkedStep

LEMMA FreshStep ==
    ASSUME ProcInv, ChanInv, ValueInv, LinkInv, BaseInv, FreshDeltaHasBase, [Next]_vars
    PROVE  FreshDeltaHasBase'
<1> SUFFICES ASSUME NEW k \in DOMAIN chan', up', ~damaged', chan'[k].kind = "delta",
                    chan'[k].born = epoch'
             PROVE  server' # None \/ \E j \in 1..(k - 1) : chan'[j].kind = "state"
  BY DEF FreshDeltaHasBase
<1>0. chan \in Seq(Frame) /\ server \in Copies \cup {None} /\ DOMAIN chan = 1..Len(chan)
      /\ Len(chan) \in Nat
  BY DEF ChanInv, ValueInv
<1>1. CASE Connect /\ epoch' = epoch + 1 /\ chan' = chan
  <2>1. chan[k].born \in 0..epoch /\ epoch \in Nat
    BY <1>1, PublisherAssumption DEF ChanInv
  <2> QED BY <1>1, <2>1
<1>2. CASE up /\ ~damaged /\ epoch' = epoch /\ ServerReceives
  <2>1. k \in Nat /\ k + 1 \in DOMAIN chan /\ chan[k + 1] = chan'[k]
    BY <1>0, <1>2, TailFacts
  <2>2. server # None \/ \E j \in 1..((k + 1) - 1) : chan[j].kind = "state"
    BY <1>2, <2>1 DEF FreshDeltaHasBase
  <2>3. CASE server # None
    BY <1>0, <1>2, <2>3, TailFacts, ApplyCopy
  <2>4. ASSUME NEW j \in 1..((k + 1) - 1), chan[j].kind = "state"
        PROVE  server' # None \/ \E i \in 1..(k - 1) : chan'[i].kind = "state"
    <3>1. CASE j = 1
      <4>1. server' \in Copies
        BY <1>0, <1>2, <2>4, <3>1, TailFacts, ApplyCopy
      <4> QED BY <4>1, CopyIsNotNone
    <3>2. CASE j # 1
      <4>1. j \in DOMAIN chan /\ j - 1 \in 1..(k - 1)
        BY <1>0, <2>1, <3>2
      <4> QED BY <1>2, <2>4, <3>2, <4>1, TailFacts
    <3> QED BY <3>1, <3>2
  <2> QED BY <2>2, <2>3, <2>4
<1>3. ASSUME NEW frame \in Frame, chan' = Append(chan, frame), server' = server,
             up, ~damaged, epoch' = epoch, frame.kind = "state" \/ lastSentFlat \in Copies
      PROVE  server' # None \/ \E j \in 1..(k - 1) : chan'[j].kind = "state"
  <2>1. PICK l \in Nat : l = Len(chan)
    BY <1>0
  <2>2. /\ DOMAIN chan = 1..l /\ DOMAIN chan' = 1..(l + 1) /\ chan'[l + 1] = frame
        /\ \A j \in 1..l : chan'[j] = chan[j]
    BY <1>0, <1>3, <2>1
  <2>3. CASE k \in 1..l
    <3>1. server # None \/ \E j \in 1..(k - 1) : chan[j].kind = "state"
      BY <1>3, <2>2, <2>3 DEF FreshDeltaHasBase
    <3>2. \A j \in 1..(k - 1) : chan'[j] = chan[j]
      BY <2>2, <2>3
    <3> QED BY <1>3, <3>1, <3>2
  <2>4. CASE k = l + 1
    <3>1. lastSentFlat \in Copies
      BY <1>3, <2>2, <2>4
    <3>2. server # None \/ \E j \in DOMAIN chan : chan[j].kind = "state"
      BY <1>3, <3>1, CopyIsNotNone DEF BaseInv
    <3>3. k - 1 = l
      BY <2>4
    <3> QED BY <1>3, <2>2, <3>2, <3>3
  <2> QED BY <2>2, <2>3, <2>4
<1>4. CASE up /\ ~damaged /\ epoch' = epoch /\ QuerySends /\ server' = server
  <2>1. PICK frame \in Frame : chan' = Append(chan, frame) /\ frame.kind = "state"
    BY <1>4, QuerySendsFacts
  <2> QED BY <1>3, <1>4, <2>1
<1>5. ASSUME NEW p \in Tickers \cup {Main}, PublishSends(p), server' = server, up, ~damaged,
             epoch' = epoch
      PROVE  server' # None \/ \E j \in 1..(k - 1) : chan'[j].kind = "state"
  <2>1. PICK frame \in Frame : /\ chan' = Append(chan, frame)
                               /\ frame.kind = "state" \/ lastSentFlat \in Copies
    BY <1>5, PublishSendsFacts
  <2> QED BY <1>3, <1>5, <2>1
<1>6. CASE up /\ ~damaged /\ epoch' = epoch /\ chan' = chan /\ server' = server
  BY <1>6 DEF FreshDeltaHasBase
<1> QED BY <1>1, <1>2, <1>4, <1>5, <1>6, LinkedStep

---------------------------------------------------------------------------
(* Theorems *)

LEMMA IInvInit == Init => IInv
<1> SUFFICES ASSUME Init PROVE IInv
  OBVIOUS
<1> USE DEF Init, ChannelInit
<1>1. ProcInv
  <2>1. /\ pc \in [Procs -> Stages] /\ snap \in [Procs -> Copies \cup {None}]
        /\ \A p \in Procs : pc[p] = "idle" /\ snap[p] = None
    BY DEF Stages
  <2>2. \A p \in Procs : holder # p
    BY ProcsAre
  <2> QED BY <2>1, <2>2, ProcsAre DEF ProcInv, MutexInv
<1>2. ChanInv
  <2>1. chan \in Seq(Frame) /\ Len(chan) <= SendCap /\ DOMAIN chan = {}
    BY ChannelAssumption
  <2>2. epoch \in 0..MaxEpochs
    BY PublisherAssumption
  <2> QED BY <2>1, <2>2, Zenon DEF ChanInv
<1>3. ValueInv
  <2>1. sinceFull \in 0..FullResyncEvery /\ queries \in 0..MaxQueries
    BY PublisherAssumption
  <2> QED BY <2>1, Zenon DEF ValueInv
<1>4. LinkInv /\ BaseInv /\ BaselineMatchesServer /\ FreshDeltaHasBase
  BY DEF LinkInv, BaseInv, BaselineMatchesServer, FreshDeltaHasBase
<1> QED BY <1>1, <1>2, <1>3, <1>4, InvParts DEF IInv

LEMMA IInvStep == IInv /\ [Next]_vars => IInv'
<1> SUFFICES ASSUME IInv, [Next]_vars PROVE IInv'
  OBVIOUS
<1>1. ProcInv /\ ChanInv /\ ValueInv
  BY InvParts DEF IInv
<1>2. ProcInv' /\ ChanInv' /\ ValueInv'
  BY <1>1, ProcStep, ChanStep, ValueStep DEF ValueInv
<1>3. (TypeOK /\ DataInv /\ MutexInv)'
  BY <1>2, InvParts, PTL
<1>4. LinkInv' /\ BaseInv'
  BY <1>1, LinkStep, BaseStep DEF IInv
<1>5. BaselineMatchesServer' /\ FreshDeltaHasBase'
  BY <1>1, BaselineStep, FreshStep DEF IInv
<1> QED BY <1>3, <1>4, <1>5 DEF IInv

\* Every variable of the publisher keeps its type; in particular sendChan stays within its
\* capacity and flushesSinceFull within fullResyncEvery.
THEOREM TypesAlwaysOK == Spec => []TypeOK
<1>1. IInv => TypeOK
  BY DEF IInv
<1> QED BY IInvInit, IInvStep, <1>1, PTL DEF Spec

\* For any snapshots, number of goroutines and length of the queue: the deltas, removals,
\* resyncs and leftover frames under way rebuild exactly the baseline Publish diffs against.
THEOREM BaselineAlwaysMatches == Spec => []BaselineMatchesServer
<1>1. IInv => BaselineMatchesServer
  BY DEF IInv
<1> QED BY IInvInit, IInvStep, <1>1, PTL DEF Spec

\* No delta of the current connection goes ahead of a full state of it.
THEOREM FreshDeltasHaveBase == Spec => []FreshDeltaHasBase
<1>1. IInv => FreshDeltaHasBase
  BY DEF IInv
<1> QED BY IInvInit, IInvStep, <1>1, PTL DEF Spec
=============================================================================
