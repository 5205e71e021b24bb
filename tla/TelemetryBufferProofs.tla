----------------------- MODULE TelemetryBufferProofs -----------------------
(***************************************************************************)
(* Theorems about TelemetryBuffer, for every value of its constants.  What *)
(* holds of the items in memory has to hold of both saved copies as well,  *)
(* because a restart may load either: that is the strengthening.           *)
(***************************************************************************)
EXTENDS TelemetryBuffer, TLAPS

\* What is true of a list of snapshots wherever it is kept, when n snapshots
\* have been taken.
Sorted(seq) == \A i, j \in 1..Len(seq) : i < j => seq[i].id < seq[j].id
Sound(seq, n) ==
    /\ seq \in Seq(Item)
    /\ Sorted(seq)
    /\ \A i \in 1..Len(seq) : seq[i].id <= n /\ seq[i].stamp = seq[i].taken

Small(seq) == MaxSize > 0 => Len(seq) <= MaxSize

ListsInv == Sound(items, added) /\ Sound(redis.items, added) /\ Sound(disk.items, added)
SizesInv == Small(items) /\ Small(redis.items) /\ Small(disk.items)

\* With stores that do not fail: a finished save is in the file, and whatever
\* Redis holds is at least as new.
SavesInv ==
    /\ redis.version \in 0..saves /\ disk.version \in 0..saves
    /\ disk.version >= kept
    /\ redis.version # 0 => redis.version >= kept
    /\ saving = "disk" => redis.version \in {0, saves}

IInv == TypeOK /\ ListsInv /\ ForeignTimesNeverSent

---------------------------------------------------------------------------
(* subsample *)

\* The place in the list of the j-th snapshot that subsample keeps.
Place(n, j) == IF j = 1 THEN 1 ELSE IF j = SubsampleLen(n) THEN n ELSE 2 * (j - 1)

LEMMA PlaceIncreases ==
    ASSUME NEW n \in Nat, n >= 3
    PROVE  /\ SubsampleLen(n) \in Nat /\ SubsampleLen(n) >= 3 /\ SubsampleLen(n) <= n
           /\ \A j \in 1..SubsampleLen(n) : Place(n, j) \in 1..n
           /\ \A j, k \in 1..SubsampleLen(n) : j < k => Place(n, j) < Place(n, k)
<1>1. PICK h \in Nat : h = (n - 1) \div 2 /\ 2 * h <= n - 1 /\ n - 1 <= 2 * h + 1
  OBVIOUS
<1>2. SubsampleLen(n) = 2 + h
  BY <1>1 DEF SubsampleLen
<1> QED
  BY <1>1, <1>2 DEF Place

\* subsample keeps a subsequence that starts with the first snapshot and ends
\* with the last.
LEMMA SubsampleFacts ==
    ASSUME NEW q \in Seq(Item), Len(q) >= 3
    PROVE  /\ subsample(q) \in Seq(Item)
           /\ Len(subsample(q)) = SubsampleLen(Len(q))
           /\ \A j \in 1..SubsampleLen(Len(q)) : subsample(q)[j] = q[Place(Len(q), j)]
<1> DEFINE n == Len(q)
<1>1. n \in Nat /\ \A i \in 1..n : q[i] \in Item
  OBVIOUS
<1>2. SubsampleLen(n) \in Nat /\ \A j \in 1..SubsampleLen(n) : Place(n, j) \in 1..n
  BY <1>1, PlaceIncreases
<1>3. subsample(q) = [j \in 1..SubsampleLen(n) |-> q[Place(n, j)]]
  <2>1. subsample(q) = [j \in 1..SubsampleLen(n) |->
                          IF j = 1 THEN q[1] ELSE IF j = SubsampleLen(n) THEN q[n]
                          ELSE q[2 * (j - 1)]]
    BY <1>1 DEF subsample
  <2> QED
    BY <2>1 DEF Place
<1> HIDE DEF n
<1>4. \A j \in 1..SubsampleLen(n) : q[Place(n, j)] \in Item
  BY <1>1, <1>2
<1> QED
  BY <1>2, <1>3, <1>4 DEF n

LEMMA TrimSound ==
    ASSUME NEW m \in Nat, NEW q, Sound(q, m)
    PROVE  Sound(Trim(q), m)
<1>1. CASE ~(MaxSize > 0 /\ Len(q) > MaxSize /\ Len(q) >= 3)
  <2>1. Trim(q) = q
    BY <1>1, BufferAssumption DEF Trim, subsample, Sound
  <2> QED
    BY <2>1
<1>2. CASE MaxSize > 0 /\ Len(q) > MaxSize /\ Len(q) >= 3
  <2> DEFINE r == subsample(q)
             n == Len(q)
             L == SubsampleLen(n)
  <2>1. Trim(q) = r
    BY <1>2 DEF Trim
  <2>2. r \in Seq(Item) /\ Len(r) = L /\ \A j \in 1..L : r[j] = q[Place(n, j)]
    BY <1>2, SubsampleFacts DEF Sound
  <2>3. /\ \A j \in 1..L : Place(n, j) \in 1..n
        /\ \A j, k \in 1..L : j < k => Place(n, j) < Place(n, k)
    BY <1>2, PlaceIncreases DEF Sound
  <2> HIDE DEF r, n, L
  <2>4. Sorted(r)
    BY <2>2, <2>3 DEF Sorted, Sound, n
  <2>5. \A j \in 1..Len(r) : r[j].id <= m /\ r[j].stamp = r[j].taken
    BY <2>2, <2>3 DEF Sound, n
  <2> QED
    BY <2>1, <2>2, <2>4, <2>5 DEF Sound
<1> QED
  BY <1>1, <1>2

\* subsample halves the list and adds an end back: from a maximum of three on
\* that is enough, for one and two it is not.
LEMMA TrimSmall ==
    ASSUME MaxSize \notin {1, 2}, NEW q \in Seq(Item), MaxSize > 0 => Len(q) <= MaxSize + 1
    PROVE  Small(Trim(q))
<1>1. CASE ~(MaxSize > 0 /\ Len(q) > MaxSize)
  BY <1>1, BufferAssumption DEF Trim, Small
<1>2. CASE MaxSize > 0 /\ Len(q) > MaxSize
  <2>1. MaxSize \in Nat /\ MaxSize >= 3 /\ Len(q) = MaxSize + 1
    BY <1>2, BufferAssumption
  <2>2. Len(Trim(q)) = 2 + (MaxSize \div 2)
    BY <1>2, <2>1, SubsampleFacts DEF Trim, SubsampleLen
  <2> QED
    BY <2>1, <2>2 DEF Small
<1> QED
  BY <1>1, <1>2

\* Trim keeps both ends of the list.
LEMMA TrimEnds ==
    ASSUME NEW q \in Seq(Item), Len(q) > 0
    PROVE  /\ Trim(q) \in Seq(Item) /\ Len(Trim(q)) > 0
           /\ Trim(q)[1] = q[1] /\ Trim(q)[Len(Trim(q))] = q[Len(q)]
<1>1. CASE ~(MaxSize > 0 /\ Len(q) > MaxSize /\ Len(q) >= 3)
  BY <1>1, BufferAssumption DEF Trim, subsample
<1>2. CASE MaxSize > 0 /\ Len(q) > MaxSize /\ Len(q) >= 3
  <2> DEFINE n == Len(q)
  <2>1. Trim(q) = subsample(q) /\ n \in Nat
    BY <1>2 DEF Trim
  <2>2. SubsampleLen(n) \in Nat /\ SubsampleLen(n) >= 3
    BY <1>2, <2>1, PlaceIncreases
  <2>3. Place(n, 1) = 1 /\ Place(n, SubsampleLen(n)) = n
    BY <2>2 DEF Place
  <2> QED
    BY <1>2, <2>1, <2>2, <2>3, SubsampleFacts
<1> QED
  BY <1>1, <1>2

---------------------------------------------------------------------------
(* The steps *)

LEMMA Initial == Init => IInv /\ SizesInv /\ SavesInv
<1> SUFFICES ASSUME Init PROVE IInv /\ SizesInv /\ SavesInv
  OBVIOUS
<1> USE BufferAssumption, ChannelAssumption DEF Init, ChannelInit, NoValue, Saved
<1>1. <<>> \in Seq(Item) /\ <<>> \in Seq(SUBSET Item) /\ Len(<<>>) = 0
  OBVIOUS
<1>2. TypeOK
  <2>1. redis \in Store /\ disk \in Store
    BY <1>1 DEF Store
  <2>2. saves \in Nat /\ kept \in 0..saves /\ added \in 0..MaxSnapshots /\ session \in 0..MaxRestarts
        /\ epoch \in 0..MaxEpochs /\ Len(chan) <= SendCap
    BY <1>1
  <2> QED
    BY <1>1, <2>1, <2>2 DEF TypeOK
<1>3. ListsInv
  BY <1>1 DEF ListsInv, Sound, Sorted
<1>4. ForeignTimesNeverSent
  BY DEF ForeignTimesNeverSent
<1>5. SizesInv /\ SavesInv
  BY <1>1 DEF SizesInv, SavesInv, Small
<1> QED
  BY <1>2, <1>3, <1>4, <1>5 DEF IInv

\* The list that Add makes before it is trimmed.
LEMMA AppendSound ==
    ASSUME TypeOK, Sound(items, added), NEW item \in Item,
           item.id = added + 1, item.stamp = item.taken
    PROVE  /\ Append(items, item) \in Seq(Item)
           /\ Len(Append(items, item)) = Len(items) + 1
           /\ Sound(Append(items, item), added + 1)
<1> DEFINE n == Len(items)
           q == Append(items, item)
<1>1. /\ n \in Nat /\ q \in Seq(Item) /\ Len(q) = n + 1 /\ q[n + 1] = item
      /\ \A i \in 1..n : q[i] = items[i] /\ items[i] \in Item
  BY DEF TypeOK
<1>2. added \in Nat /\ \A i \in 1..n : items[i].id \in Nat /\ items[i].id <= added
  BY <1>1 DEF TypeOK, Sound, Item
<1> HIDE DEF n, q
<1>3. \A i \in 1..(n + 1) : i \in 1..n \/ i = n + 1
  BY <1>1
<1>4. Sorted(q)
  BY <1>1, <1>2, <1>3 DEF Sound, Sorted, n
<1>5. \A i \in 1..Len(q) : q[i].id <= added + 1 /\ q[i].stamp = q[i].taken
  BY <1>1, <1>2, <1>3 DEF Sound, n
<1> QED
  BY <1>1, <1>4, <1>5 DEF Sound, n, q

\* Add appends the new snapshot and trims.
LEMMA AddFacts ==
    ASSUME TypeOK, Add
    PROVE  \E item \in Item :
             /\ item.id = added + 1 /\ item.stamp = item.taken
             /\ items' = Trim(Append(items, item))
<1> DEFINE now == IF valid THEN "abs" ELSE "rel"
           item == [id |-> added + 1, taken |-> now, stamp |-> now, session |-> session]
<1>0. added + 1 \in 1..MaxSnapshots /\ session \in 0..MaxRestarts /\ now \in {"rel", "abs"}
  BY BufferAssumption DEF TypeOK, Add
<1>1. item \in Item
  BY <1>0 DEF Item
<1>2. items' = Trim(Append(items, item)) /\ item.id = added + 1 /\ item.stamp = item.taken
  BY DEF Add
<1> HIDE DEF item
<1> QED
  BY <1>1, <1>2

LEMMA SoundGrows ==
    ASSUME NEW m \in Int, NEW n \in Int, m <= n, NEW q, Sound(q, m)
    PROVE  Sound(q, n)
<1>1. \A i \in 1..Len(q) : q[i].id \in Int
  <2>1. \A i \in 1..Len(q) : q[i] \in Item
    BY DEF Sound
  <2>2. \A item \in Item : item.id \in Int
    BY DEF Item
  <2> QED
    BY <2>1, <2>2
<1> QED
  BY <1>1 DEF Sound

\* Where the three lists of a state come from.
LEMMA ListsMove ==
    ASSUME TypeOK, [Next]_vars
    PROVE  \/ Add /\ UNCHANGED <<redis, disk>>
           \/ /\ items' \in {items, <<>>, redis.items, disk.items} /\ added' = added
              /\ redis'.items \in {redis.items, items, <<>>}
              /\ disk'.items \in {disk.items, items}
<1> USE DEF bufVars, storeVars, others, Persist, NoValue, Saved
<1>1. CASE Add
  BY <1>1 DEF Add
<1>2. CASE FlushDiscards \/ FlushStarts \/ FlushRetains \/ FlushSends
  BY <1>2 DEF FlushDiscards, FlushStarts, FlushRetains, FlushSends
<1>3. CASE SaveRedis \/ SaveDisk
  BY <1>3 DEF SaveRedis, SaveDisk, Written
<1>4. CASE Restart
  BY <1>4 DEF Restart, Loadable
<1>5. CASE Connect \/ Disconnect \/ BatchLost \/ ServerReceives \/ ClockSynced \/ RedisWiped
  BY <1>5 DEF Connect, Disconnect, BatchLost, ServerReceives, ClockSynced, RedisWiped
<1>6. CASE UNCHANGED vars
  BY <1>6 DEF vars
<1> QED
  BY <1>1, <1>2, <1>3, <1>4, <1>5, <1>6 DEF Next

LEMMA ListsStep ==
    ASSUME TypeOK, ListsInv, [Next]_vars
    PROVE  ListsInv'
<1>0. added \in Nat /\ Sound(<<>>, added)
  BY DEF TypeOK, Sound, Sorted
<1>1. CASE Add /\ UNCHANGED <<redis, disk>>
  <2>1. PICK item \in Item : /\ item.id = added + 1 /\ item.stamp = item.taken
                             /\ items' = Trim(Append(items, item))
    BY <1>1, AddFacts
  <2>2. Sound(Append(items, item), added + 1) /\ added' = added + 1
    BY <1>1, <2>1, AppendSound DEF ListsInv, Add
  <2>3. Sound(items', added')
    BY <1>0, <2>1, <2>2, TrimSound
  <2>4. Sound(redis.items, added') /\ Sound(disk.items, added')
    BY <1>0, <2>2, SoundGrows DEF ListsInv
  <2> QED
    BY <1>1, <2>3, <2>4 DEF ListsInv, Sound, Sorted
<1>2. CASE /\ items' \in {items, <<>>, redis.items, disk.items} /\ added' = added
           /\ redis'.items \in {redis.items, items, <<>>}
           /\ disk'.items \in {disk.items, items}
  <2>1. Sound(items', added') /\ Sound(redis'.items, added') /\ Sound(disk'.items, added')
    BY <1>0, <1>2 DEF ListsInv
  <2> QED
    BY <2>1 DEF ListsInv, Sound, Sorted
<1> QED
  BY <1>1, <1>2, ListsMove

\* The snapshots that Flush sends are snapshots taken so far, and none carries
\* a relative time of another session.
LEMMA BatchFacts ==
    ASSUME TypeOK, Sound(items, added)
    PROVE  /\ Batch \in SUBSET Item /\ Ids(Batch) \subseteq 1..added
           /\ \A item \in Batch : item.taken = "rel" => item.session = session
<1> SUFFICES ASSUME NEW item \in Batch
             PROVE  /\ item \in Item /\ item.id \in 1..added
                    /\ item.taken = "rel" => item.session = session
  BY DEF Ids
<1>1. PICK i \in 1..Len(items) : item = Projected(items[i]) /\ Sendable(items[i])
  BY DEF Batch, Elements, TypeOK
<1>2. /\ items[i] \in Item /\ items[i].id <= added /\ items[i].stamp = items[i].taken
      /\ added \in Nat
  BY DEF TypeOK, Sound
<1> DEFINE old == items[i]
<1>3. /\ item \in Item /\ item.id = old.id /\ item.taken = old.taken
      /\ item.session = old.session
  <2> HIDE DEF old
  <2>1. old \in Item
    BY <1>2 DEF old
  <2>2. /\ [old EXCEPT !.stamp = "abs"] \in Item
        /\ [old EXCEPT !.stamp = "abs"].id = old.id
        /\ [old EXCEPT !.stamp = "abs"].taken = old.taken
        /\ [old EXCEPT !.stamp = "abs"].session = old.session
    BY <2>1 DEF Item
  <2> QED
    BY <1>1, <2>1, <2>2 DEF Projected, old
<1>4. item.id \in 1..added
  BY <1>2, <1>3 DEF Item
<1> QED
  BY <1>1, <1>2, <1>3, <1>4 DEF Sendable

LEMMA TypeStep ==
    ASSUME TypeOK, ListsInv, ListsInv', [Next]_vars
    PROVE  TypeOK'
<1> USE BufferAssumption, ChannelAssumption
    DEF TypeOK, bufVars, storeVars, clockVars, others, channelVars, Persist
<1>0. items' \in Seq(Item)
  BY DEF ListsInv, Sound
<1>1. CASE Add
  <2>1. added' \in 0..MaxSnapshots /\ sent' \subseteq 1..added' /\ saves' \in Nat /\ kept' \in 0..saves'
    BY <1>1 DEF Add
  <2> QED
    BY <1>0, <1>1, <2>1 DEF Add
<1>2. CASE FlushDiscards
  BY <1>0, <1>2 DEF FlushDiscards
<1>3. CASE FlushStarts \/ FlushRetains
  BY <1>3 DEF FlushStarts, FlushRetains
<1>4. CASE FlushSends
  <2>1. Batch \in SUBSET Item /\ Ids(Batch) \subseteq 1..added
    BY BatchFacts DEF ListsInv
  <2>2. chan' \in Seq(SUBSET Item) /\ Len(chan') <= SendCap
    BY <1>4, <2>1 DEF FlushSends, Put, HasRoom
  <2>3. sent' = sent \cup Ids(Batch) /\ added' = added /\ saves' = saves + 1 /\ kept' = kept
    BY <1>4 DEF FlushSends
  <2>4. sent' \subseteq 1..added'
    BY <2>1, <2>3
  <2>5. added' \in 0..MaxSnapshots /\ saves' \in Nat /\ kept' \in 0..saves'
    BY <2>3
  <2>6. flushing' = FALSE /\ saving' = "redis"
    BY <1>4 DEF FlushSends
  <2>7. UNCHANGED <<up, epoch, damaged, redis, disk, clockVars, received>>
    BY <1>4 DEF FlushSends, Put
  <2> QED
    BY <1>0, <2>2, <2>4, <2>5, <2>6, <2>7
<1>5. CASE SaveRedis \/ SaveDisk
  <2>1. Saved(saves, items) \in Store
    BY DEF Saved, Store
  <2>2. redis' \in Store /\ disk' \in Store /\ kept' \in 0..saves'
    BY <1>5, <2>1 DEF SaveRedis, SaveDisk, Written
  <2> QED
    BY <1>5, <2>2 DEF SaveRedis, SaveDisk
<1>6. CASE Restart
  <2>1. chan' \in Seq(SUBSET Item) /\ Len(chan') <= SendCap
    BY <1>6 DEF Restart
  <2>2. up' = FALSE /\ valid' = FALSE /\ flushing' = FALSE /\ saving' = "no"
    BY <1>6 DEF Restart
  <2>3. session' \in 0..MaxRestarts
    BY <1>6 DEF Restart
  <2>4. UNCHANGED <<epoch, damaged, storeVars, saves, added, sent, received>>
    BY <1>6 DEF Restart
  <2> QED
    BY <1>0, <2>1, <2>2, <2>3, <2>4
<1>7. CASE Connect \/ Disconnect
  <2>1. up' \in BOOLEAN /\ damaged' \in BOOLEAN
    BY <1>7 DEF Connect, Disconnect, ChannelOpens, ChannelCloses
  <2>2. epoch' \in 0..MaxEpochs
    BY <1>7 DEF Connect, Disconnect, ChannelOpens, ChannelCloses
  <2>3. UNCHANGED <<chan, others, received>>
    BY <1>7 DEF Connect, Disconnect, ChannelOpens, ChannelCloses
  <2> QED
    BY <2>1, <2>2, <2>3
<1>8. CASE BatchLost \/ ServerReceives
  <2>1. chan # <<>> /\ chan' = Tail(chan)
    BY <1>8 DEF BatchLost, Lose, ServerReceives, Deliver
  <2>2. chan' \in Seq(SUBSET Item) /\ Len(chan') <= SendCap /\ Head(chan) \in SUBSET Item
    BY <2>1
  <2>3. received' \in Seq(SUBSET Item)
    <3>1. received' = received \/ received' = Append(received, Head(chan))
      BY <1>8 DEF BatchLost, ServerReceives
    <3> QED
      BY <2>2, <3>1
  <2>4. damaged' \in BOOLEAN
    BY <1>8 DEF BatchLost, Lose, ServerReceives, Deliver
  <2> QED
    BY <1>8, <2>2, <2>3, <2>4 DEF BatchLost, Lose, ServerReceives, Deliver
<1>9. CASE ClockSynced \/ RedisWiped
  <2>1. NoValue \in Store
    BY DEF NoValue, Saved, Store
  <2> QED
    BY <1>9, <2>1 DEF ClockSynced, RedisWiped
<1>10. CASE UNCHANGED vars
  BY <1>10 DEF vars
<1> QED
  BY <1>1, <1>2, <1>3, <1>4, <1>5, <1>6, <1>7, <1>8, <1>9, <1>10 DEF Next

\* What can happen to sendChan.
LEMMA ChanMoves ==
    ASSUME [Next]_vars
    PROVE  \/ UNCHANGED <<chan, session>>
           \/ chan' = Append(chan, Batch) /\ UNCHANGED session
           \/ chan # <<>> /\ chan' = Tail(chan) /\ UNCHANGED session
           \/ chan' = <<>>
<1> USE DEF bufVars, storeVars, clockVars, others, channelVars
<1>1. CASE Add \/ FlushDiscards \/ FlushStarts \/ FlushRetains
  BY <1>1 DEF Add, FlushDiscards, FlushStarts, FlushRetains
<1>2. CASE FlushSends
  BY <1>2 DEF FlushSends, Put
<1>3. CASE SaveRedis \/ SaveDisk \/ Restart
  BY <1>3 DEF SaveRedis, SaveDisk, Restart
<1>4. CASE Connect \/ Disconnect
  BY <1>4 DEF Connect, Disconnect, ChannelOpens, ChannelCloses
<1>5. CASE BatchLost \/ ServerReceives
  BY <1>5 DEF BatchLost, ServerReceives, Lose, Deliver
<1>6. CASE ClockSynced \/ RedisWiped
  BY <1>6 DEF ClockSynced, RedisWiped
<1>7. CASE UNCHANGED vars
  BY <1>7 DEF vars
<1> QED
  BY <1>1, <1>2, <1>3, <1>4, <1>5, <1>6, <1>7 DEF Next

LEMMA ForeignStep ==
    ASSUME TypeOK, ListsInv, ForeignTimesNeverSent, [Next]_vars
    PROVE  ForeignTimesNeverSent'
<1> USE DEF ForeignTimesNeverSent
<1>0. chan \in Seq(SUBSET Item) /\ Len(chan) \in Nat /\ DOMAIN chan = 1..Len(chan)
  BY DEF TypeOK
<1>1. CASE UNCHANGED <<chan, session>>
  BY <1>1
<1>2. CASE chan' = Append(chan, Batch) /\ UNCHANGED session
  <2>1. Batch \in SUBSET Item /\ \A item \in Batch : item.taken = "rel" => item.session = session
    BY BatchFacts DEF ListsInv
  <2>2. /\ DOMAIN chan' = 1..(Len(chan) + 1) /\ chan'[Len(chan) + 1] = Batch
        /\ \A b \in 1..Len(chan) : chan'[b] = chan[b]
    BY <1>0, <1>2, <2>1
  <2>3. \A b \in DOMAIN chan' : (b \in DOMAIN chan /\ chan'[b] = chan[b]) \/ chan'[b] = Batch
    BY <1>0, <2>2
  <2> QED
    BY <1>2, <2>1, <2>3
<1>3. CASE chan # <<>> /\ chan' = Tail(chan) /\ UNCHANGED session
  <2>1. \A b \in DOMAIN chan' : b + 1 \in DOMAIN chan /\ chan'[b] = chan[b + 1]
    BY <1>0, <1>3
  <2> QED
    BY <1>3, <2>1
<1>4. CASE chan' = <<>>
  BY <1>4
<1> QED
  BY <1>1, <1>2, <1>3, <1>4, ChanMoves

LEMMA SizesStep ==
    ASSUME MaxSize \notin {1, 2}, TypeOK, ListsInv, SizesInv, [Next]_vars
    PROVE  SizesInv'
<1>0. Small(<<>>)
  BY BufferAssumption DEF Small
<1>1. CASE Add /\ UNCHANGED <<redis, disk>>
  <2>1. PICK item \in Item : /\ item.id = added + 1 /\ item.stamp = item.taken
                             /\ items' = Trim(Append(items, item))
    BY <1>1, AddFacts
  <2>2. /\ Append(items, item) \in Seq(Item)
        /\ MaxSize > 0 => Len(Append(items, item)) <= MaxSize + 1
    BY <2>1, AppendSound, BufferAssumption DEF ListsInv, SizesInv, Small, TypeOK
  <2>3. Small(items')
    BY <2>1, <2>2, TrimSmall
  <2> QED
    BY <1>1, <2>3 DEF SizesInv, Small
<1>2. CASE /\ items' \in {items, <<>>, redis.items, disk.items} /\ added' = added
           /\ redis'.items \in {redis.items, items, <<>>}
           /\ disk'.items \in {disk.items, items}
  <2>1. Small(items') /\ Small(redis'.items) /\ Small(disk'.items)
    BY <1>0, <1>2 DEF SizesInv
  <2> QED
    BY <2>1 DEF SizesInv, Small
<1> QED
  BY <1>1, <1>2, ListsMove

LEMMA SavesStep ==
    ASSUME Faulty = {}, TypeOK, SavesInv, [Next]_vars
    PROVE  SavesInv'
<1> USE DEF SavesInv, TypeOK, bufVars, storeVars, clockVars, others, channelVars, Persist
<1>1. CASE Add \/ FlushDiscards \/ FlushSends
  BY <1>1 DEF Add, FlushDiscards, FlushSends, Unlocked
<1>2. CASE FlushStarts \/ FlushRetains
  BY <1>2 DEF FlushStarts, FlushRetains
<1>3. CASE SaveRedis
  <2>1. redis' = Saved(saves, items)
    BY <1>3 DEF SaveRedis, Written
  <2> QED
    BY <1>3, <2>1 DEF SaveRedis, Saved
<1>4. CASE SaveDisk
  <2>1. disk' = Saved(saves, items)
    BY <1>4 DEF SaveDisk, Written
  <2> QED
    BY <1>4, <2>1 DEF SaveDisk, Saved
<1>5. CASE Restart
  BY <1>5 DEF Restart
<1>6. CASE Connect \/ Disconnect \/ BatchLost \/ ServerReceives
  BY <1>6 DEF Connect, Disconnect, BatchLost, ServerReceives
<1>7. CASE ClockSynced \/ RedisWiped
  BY <1>7 DEF ClockSynced, RedisWiped, NoValue, Saved
<1>8. CASE UNCHANGED vars
  BY <1>8 DEF vars
<1> QED
  BY <1>1, <1>2, <1>3, <1>4, <1>5, <1>6, <1>7, <1>8 DEF Next

---------------------------------------------------------------------------
(* Sent once.  While the process has not been restarted, the snapshots in  *)
(* the buffer, those of each batch in sendChan and those of each batch at  *)
(* the server are different ones.                                          *)

Held == Ids(Elements(items))
Apart(a, b) == Ids(a) \cap Ids(b) = {}
AllApart(seq) == \A i, j \in 1..Len(seq) : i # j => Apart(seq[i], seq[j])

\* A batch that was sent: nothing of it is among those held, nor is it yet to come.
Gone(batch, held, n) == Ids(batch) \cap held = {} /\ \A k \in Ids(batch) : k <= n

OnceInv ==
    session = 0 =>
        /\ AllApart(chan) /\ AllApart(received)
        /\ \A i \in 1..Len(received), j \in 1..Len(chan) : Apart(received[i], chan[j])
        /\ \A i \in 1..Len(chan) : Gone(chan[i], Held, added)
        /\ \A i \in 1..Len(received) : Gone(received[i], Held, added)

\* What Trim returns was in the list.
LEMMA TrimElements ==
    ASSUME NEW q \in Seq(Item)
    PROVE  Elements(Trim(q)) \subseteq Elements(q)
<1>1. CASE ~(MaxSize > 0 /\ Len(q) > MaxSize /\ Len(q) >= 3)
  BY <1>1, BufferAssumption DEF Trim, subsample
<1>2. CASE MaxSize > 0 /\ Len(q) > MaxSize /\ Len(q) >= 3
  <2> DEFINE r == subsample(q)
             n == Len(q)
             L == SubsampleLen(n)
  <2>1. Trim(q) = r
    BY <1>2 DEF Trim
  <2>2. r \in Seq(Item) /\ Len(r) = L /\ \A j \in 1..L : r[j] = q[Place(n, j)]
    BY <1>2, SubsampleFacts
  <2>3. \A j \in 1..L : Place(n, j) \in 1..n
    BY <1>2, PlaceIncreases
  <2>4. DOMAIN q = 1..n /\ DOMAIN r = 1..L
    BY <2>2
  <2> HIDE DEF r, n, L
  <2> QED
    BY <2>1, <2>2, <2>3, <2>4 DEF Elements
<1> QED
  BY <1>1, <1>2

\* Add brings one new snapshot into the buffer, the next one.
LEMMA AddHolds ==
    ASSUME TypeOK, Add
    PROVE  \A n \in Held' : n \in Held \/ n = added + 1
<1>1. PICK item \in Item : /\ item.id = added + 1 /\ item.stamp = item.taken
                           /\ items' = Trim(Append(items, item))
  BY AddFacts
<1> DEFINE q == Append(items, item)
<1>2. q \in Seq(Item) /\ \A e \in Elements(q) : e \in Elements(items) \/ e = item
  <2>1. /\ q \in Seq(Item) /\ DOMAIN q = 1..(Len(items) + 1) /\ q[Len(items) + 1] = item
        /\ \A i \in 1..Len(items) : q[i] = items[i]
        /\ DOMAIN items = 1..Len(items) /\ Len(items) \in Nat
    BY <1>1 DEF TypeOK
  <2>2. \A i \in 1..(Len(items) + 1) : i \in 1..Len(items) \/ i = Len(items) + 1
    BY <2>1
  <2> HIDE DEF q
  <2> QED
    BY <2>1, <2>2 DEF Elements
<1>3. Elements(items') \subseteq Elements(q)
  BY <1>1, <1>2, TrimElements
<1> HIDE DEF q
<1>4. Held' = Ids(Elements(items'))
  BY DEF Held, Ids, Elements
<1> QED
  BY <1>1, <1>2, <1>3, <1>4 DEF Held, Ids

\* The snapshots of the batch come out of the buffer.
LEMMA BatchHeld ==
    ASSUME TypeOK
    PROVE  Ids(Batch) \subseteq Held
<1>1. SUFFICES ASSUME NEW item \in Batch PROVE item.id \in Held
  BY DEF Ids
<1>2. PICK old \in Elements(items) : item = Projected(old)
  BY DEF Batch
<1>3. old \in Item
  BY DEF Elements, TypeOK
<1>4. item.id = old.id
  <2>1. [old EXCEPT !.stamp = "abs"].id = old.id
    BY <1>3 DEF Item
  <2> QED
    BY <1>2, <2>1 DEF Projected
<1> QED
  BY <1>2, <1>4 DEF Held, Ids

\* A step is one of these, as far as batches and the buffer are concerned.
KeepsBatches == UNCHANGED <<chan, received>> /\ (added' = added \/ added' = added + 1)
                /\ \A n \in Held' : n \in Held \/ (n = added + 1 /\ added' = added + 1)
Sends == /\ items' = <<>> /\ chan' = Append(chan, Batch) /\ UNCHANGED <<received, added>>
Takes == /\ chan # <<>> /\ chan' = Tail(chan) /\ UNCHANGED <<items, added>>
         /\ received' \in {received, Append(received, Head(chan))}

\* A run of steps without a restart, or the restart that ends it.
LEMMA OnceMoves ==
    ASSUME TypeOK, [Next]_vars
    PROVE  \/ session' # 0
           \/ session' = session /\ (KeepsBatches \/ Sends \/ Takes)
<1> USE DEF bufVars, storeVars, clockVars, others, channelVars, Persist
<1>0. ASSUME items' = items \/ items' = <<>>
      PROVE  Held' \subseteq Held
  BY <1>0 DEF Held, Ids, Elements
<1>1. CASE Add
  BY <1>1, AddHolds DEF Add, KeepsBatches
<1>2. CASE FlushDiscards \/ FlushStarts \/ FlushRetains
  BY <1>0, <1>2 DEF FlushDiscards, FlushStarts, FlushRetains, KeepsBatches
<1>3. CASE FlushSends
  BY <1>3 DEF FlushSends, Put, Sends
<1>4. CASE SaveRedis \/ SaveDisk
  BY <1>0, <1>4 DEF SaveRedis, SaveDisk, KeepsBatches
<1>5. CASE Restart
  BY <1>5 DEF Restart, TypeOK
<1>6. CASE Connect \/ Disconnect
  BY <1>0, <1>6 DEF Connect, Disconnect, ChannelOpens, ChannelCloses, KeepsBatches
<1>7. CASE BatchLost \/ ServerReceives
  BY <1>7 DEF BatchLost, ServerReceives, Lose, Deliver, Takes
<1>8. CASE ClockSynced \/ RedisWiped
  BY <1>0, <1>8 DEF ClockSynced, RedisWiped, KeepsBatches
<1>9. CASE UNCHANGED vars
  BY <1>0, <1>9 DEF vars, KeepsBatches
<1> QED
  BY <1>1, <1>2, <1>3, <1>4, <1>5, <1>6, <1>7, <1>8, <1>9 DEF Next

LEMMA ApartCommutes == \A a, b : Apart(a, b) <=> Apart(b, a)
  BY DEF Apart

\* A batch that was sent stays gone.
LEMMA GoneStays ==
    ASSUME TypeOK, NEW batch, Gone(batch, Held, added), Ids(batch) \subseteq Int,
           \/ KeepsBatches
           \/ Sends \/ Takes
    PROVE  Gone(batch, Held', added')
<1>1. added \in Int
  BY DEF TypeOK
<1>2. Held' = Ids(Elements(items')) 
  BY DEF Held, Ids, Elements
<1>3. CASE KeepsBatches
  BY <1>1, <1>2, <1>3 DEF KeepsBatches, Gone
<1>4. CASE Sends
  BY <1>2, <1>4 DEF Sends, Gone, Ids, Elements
<1>5. CASE Takes
  BY <1>2, <1>5 DEF Takes, Gone, Held
<1> QED
  BY <1>3, <1>4, <1>5

LEMMA OnceStep ==
    ASSUME TypeOK, ListsInv, OnceInv, [Next]_vars
    PROVE  OnceInv'
<1>0. /\ chan \in Seq(SUBSET Item) /\ received \in Seq(SUBSET Item)
      /\ Len(chan) \in Nat /\ Len(received) \in Nat /\ added \in Int
  BY DEF TypeOK
<1>1. \A batch \in SUBSET Item : Ids(batch) \subseteq Int
  BY DEF Ids, Item
<1>2. SUFFICES ASSUME session' = 0, session = 0, KeepsBatches \/ Sends \/ Takes
               PROVE  OnceInv'
  BY OnceMoves DEF OnceInv
<1>3. /\ AllApart(chan) /\ AllApart(received)
      /\ \A i \in 1..Len(received), j \in 1..Len(chan) : Apart(received[i], chan[j])
      /\ \A i \in 1..Len(chan) : Gone(chan[i], Held, added)
      /\ \A i \in 1..Len(received) : Gone(received[i], Held, added)
  BY <1>2 DEF OnceInv
<1>4. \A batch \in SUBSET Item : Gone(batch, Held, added) => Gone(batch, Held', added')
  BY <1>1, <1>2, GoneStays
<1>5. SUFFICES /\ AllApart(chan') /\ AllApart(received')
               /\ \A i \in 1..Len(received'), j \in 1..Len(chan') : Apart(received'[i], chan'[j])
               /\ \A i \in 1..Len(chan') : Gone(chan'[i], Held', added')
               /\ \A i \in 1..Len(received') : Gone(received'[i], Held', added')
  BY DEF OnceInv, AllApart, Apart, Ids
<1>6. /\ \A i \in 1..Len(chan) : chan[i] \in SUBSET Item
      /\ \A i \in 1..Len(received) : received[i] \in SUBSET Item
  BY <1>0
<1>7. CASE KeepsBatches
  BY <1>3, <1>4, <1>6, <1>7 DEF KeepsBatches
<1>8. CASE Sends
  <2> DEFINE n == Len(chan)
  <2>1. Batch \in SUBSET Item /\ \A k \in Ids(Batch) : k \in Held /\ k <= added
    BY <1>0, BatchFacts, BatchHeld DEF ListsInv
  <2>2. /\ Len(chan') = n + 1 /\ chan'[n + 1] = Batch
        /\ \A i \in 1..n : chan'[i] = chan[i]
        /\ \A i \in 1..(n + 1) : i \in 1..n \/ i = n + 1
        /\ received' = received
    BY <1>0, <1>8, <2>1 DEF Sends
  <2>3. \A i \in 1..n : Apart(chan[i], Batch) /\ Apart(Batch, chan[i])
    BY <1>3, <2>1 DEF Gone, Apart
  <2>4. \A i \in 1..Len(received) : Apart(received[i], Batch)
    BY <1>3, <2>1 DEF Gone, Apart
  <2>5. Gone(Batch, Held', added')
    <3>1. Held' = {} /\ added' = added
      BY <1>8 DEF Sends, Held, Ids, Elements
    <3> QED
      BY <2>1, <3>1 DEF Gone
  <2> HIDE DEF n
  <2>6. AllApart(chan')
    BY <1>3, <2>2, <2>3 DEF AllApart, n
  <2>7. \A i \in 1..Len(received'), j \in 1..Len(chan') : Apart(received'[i], chan'[j])
    BY <1>3, <2>2, <2>4 DEF n
  <2> QED
    BY <1>3, <1>4, <1>6, <2>2, <2>5, <2>6, <2>7 DEF n
<1>9. CASE Takes
  <2> DEFINE n == Len(chan)
             m == Len(received)
  <2>1. /\ n >= 1 /\ Len(chan') = n - 1
        /\ \A j \in 1..(n - 1) : j + 1 \in 1..n /\ chan'[j] = chan[j + 1]
        /\ Head(chan) = chan[1]
    BY <1>0, <1>9 DEF Takes
  <2>2. \A i, j \in 1..(n - 1) : i # j => i + 1 # j + 1
    BY <1>0
  <2>3. AllApart(chan')
    BY <1>3, <2>1, <2>2 DEF AllApart
  <2>4. \A i \in 1..Len(chan') : Gone(chan'[i], Held', added')
    BY <1>3, <1>4, <1>6, <2>1
  <2>5. CASE received' = received
    BY <1>3, <1>4, <1>6, <2>1, <2>3, <2>4, <2>5
  <2>6. CASE received' = Append(received, Head(chan))
    <3>1. /\ Len(received') = m + 1 /\ received'[m + 1] = chan[1]
          /\ \A i \in 1..m : received'[i] = received[i]
          /\ \A i \in 1..(m + 1) : i \in 1..m \/ i = m + 1
      BY <1>0, <1>6, <2>1, <2>6
    <3>2. \A j \in 1..(n - 1) : Apart(chan[1], chan[j + 1])
      BY <1>0, <1>3, <2>1 DEF AllApart
    <3>3. \A i \in 1..m : Apart(received[i], chan[1]) /\ Apart(chan[1], received[i])
      BY <1>0, <1>3, <2>1, ApartCommutes
    <3> HIDE DEF n, m
    <3>4. AllApart(received')
      BY <1>3, <3>1, <3>3 DEF AllApart, m
    <3>5. \A i \in 1..Len(received'), j \in 1..Len(chan') : Apart(received'[i], chan'[j])
      BY <1>3, <2>1, <3>1, <3>2 DEF n, m
    <3>6. Gone(chan[1], Held, added) /\ chan[1] \in SUBSET Item
      BY <1>0, <1>3, <1>6, <2>1 DEF n
    <3>7. \A i \in 1..Len(received') : Gone(received'[i], Held', added')
      BY <1>3, <1>4, <1>6, <3>1, <3>6 DEF m
    <3> QED
      BY <2>3, <2>4, <3>4, <3>5, <3>7
  <2> QED
    BY <1>9, <2>5, <2>6 DEF Takes
<1> QED
  BY <1>2, <1>7, <1>8, <1>9

---------------------------------------------------------------------------
(* The theorems *)

\* The inductive invariant holds in every reachable state.
THEOREM Invariance == Spec => []IInv
<1>1. IInv /\ [Next]_vars => IInv'
  BY ListsStep, TypeStep, ForeignStep DEF IInv
<1> QED
  BY Initial, <1>1, PTL DEF Spec

\* Type correctness: sendChan never exceeds its capacity, and only snapshots
\* that were taken are sent.
THEOREM TypeCorrect == Spec => []TypeOK
<1>1. IInv => TypeOK
  BY DEF IInv
<1> QED
  BY Invariance, <1>1, PTL

\* However often the buffer is thinned out, saved, lost with the process and
\* loaded again, its snapshots are in the order of their Add calls, each once.
THEOREM SnapshotsInOrder == Spec => []ItemsInOrder
<1>1. IInv => ItemsInOrder
  <2> SUFFICES ASSUME Sound(items, added) PROVE ItemsInOrder
    BY DEF IInv, ListsInv
  <2>1. DOMAIN items = 1..Len(items)
    BY DEF Sound
  <2> QED
    BY <2>1 DEF Sound, Sorted, ItemsInOrder
<1> QED
  BY Invariance, <1>1, PTL

\* Flush never sends a snapshot whose time was taken relative to the start of
\* another process.
THEOREM RelativeTimesStayHome == Spec => []ForeignTimesNeverSent
<1>1. IInv => ForeignTimesNeverSent
  BY DEF IInv
<1> QED
  BY Invariance, <1>1, PTL

\* Add keeps the buffer within max_size, and so does a restart, for every
\* max_size except one and two, where subsample does not shrink the list.
THEOREM SizeRespected ==
    ASSUME MaxSize \notin {1, 2}
    PROVE  Spec => []BufferBounded
<1>1. IInv /\ SizesInv /\ [Next]_vars => SizesInv'
  BY SizesStep DEF IInv
<1>2. SizesInv => BufferBounded
  BY DEF SizesInv, Small, BufferBounded
<1> QED
  BY Initial, Invariance, <1>1, <1>2, PTL DEF Spec

\* As long as no write to Redis or to the file fails, load never returns less
\* than the last finished save, wherever the process stopped.
THEOREM SavesSurvive ==
    ASSUME Faulty = {}
    PROVE  Spec => []RestartKeepsLastSave
<1>1. IInv /\ SavesInv /\ [Next]_vars => SavesInv'
  BY SavesStep DEF IInv
<1>2. SavesInv => RestartKeepsLastSave
  BY DEF SavesInv, RestartKeepsLastSave, Loadable
<1> QED
  BY Initial, Invariance, <1>1, <1>2, PTL DEF Spec

\* As long as the process is not restarted, no snapshot is sent twice: none is
\* in the buffer and in a batch, or in two batches, whether the drain loop or
\* the flush of a new connection sent them.  A restart can load a save from
\* before the batch was sent, and then the snapshots are sent again.
THEOREM SnapshotsSentOnce == Spec => []SentOnceWithoutRestart
<1>1. Init => OnceInv
  BY DEF Init, ChannelInit, OnceInv, AllApart
<1>2. IInv /\ OnceInv /\ [Next]_vars => OnceInv'
  BY OnceStep DEF IInv
<1>3. IInv /\ OnceInv => SentOnceWithoutRestart
  <2> SUFFICES ASSUME TypeOK, OnceInv, session = 0
               PROVE  /\ Held \cap (Received \cup UnderWay) = {}
                      /\ Received \cap UnderWay = {}
                      /\ \A a, b \in DOMAIN received :
                           a # b => Ids(received[a]) \cap Ids(received[b]) = {}
    BY DEF IInv, SentOnceWithoutRestart, Held
  <2>1. DOMAIN chan = 1..Len(chan) /\ DOMAIN received = 1..Len(received)
    BY DEF TypeOK
  <2>2. /\ \A k \in Received : \E i \in 1..Len(received) : k \in Ids(received[i])
        /\ \A k \in UnderWay : \E j \in 1..Len(chan) : k \in Ids(chan[j])
    BY <2>1 DEF Received, UnderWay
  <2>3. /\ AllApart(received)
        /\ \A i \in 1..Len(received), j \in 1..Len(chan) : Apart(received[i], chan[j])
        /\ \A i \in 1..Len(chan) : Gone(chan[i], Held, added)
        /\ \A i \in 1..Len(received) : Gone(received[i], Held, added)
    BY DEF OnceInv
  <2>4. Held \cap (Received \cup UnderWay) = {}
    BY <2>2, <2>3 DEF Gone
  <2>5. Received \cap UnderWay = {}
    BY <2>2, <2>3 DEF Apart
  <2> QED
    BY <2>1, <2>3, <2>4, <2>5 DEF AllApart, Apart
<1> QED
  BY Initial, Invariance, <1>1, <1>2, <1>3, PTL DEF Spec

\* Thinning out never moves the ends of the offline period: every Add leaves the
\* oldest snapshot where it was and ends the buffer with the one just taken,
\* for every max_size.
THEOREM ExtentKept == Spec => ExtentPreserved
<1> DEFINE Extent == added' # added =>
                       /\ items' # <<>> /\ items'[Len(items')].id = added'
                       /\ items # <<>> => items'[1] = items[1]
<1>1. ASSUME IInv, [Next]_vars PROVE Extent
  <2> SUFFICES ASSUME Add PROVE Extent
    BY <1>1, ListsMove DEF IInv
  <2>0. items \in Seq(Item) /\ TypeOK
    BY <1>1 DEF IInv, TypeOK
  <2>1. PICK item \in Item : /\ item.id = added + 1 /\ item.stamp = item.taken
                             /\ items' = Trim(Append(items, item))
    BY <2>0, AddFacts
  <2> DEFINE q == Append(items, item)
             r == Trim(q)
  <2>2. /\ q \in Seq(Item) /\ Len(q) \in Nat /\ Len(q) > 0 /\ q[Len(q)] = item
        /\ items # <<>> => q[1] = items[1]
    BY <2>0, <2>1
  <2>3. added' = added + 1
    BY DEF Add
  <2> HIDE DEF q
  <2>4. r \in Seq(Item) /\ Len(r) > 0 /\ r[1] = q[1] /\ r[Len(r)] = q[Len(q)]
    BY <2>2, TrimEnds
  <2> HIDE DEF r
  <2>5. items' = r
    BY <2>1 DEF q, r
  <2> QED
    BY <2>1, <2>2, <2>3, <2>4, <2>5
<1> QED
  BY Invariance, <1>1, PTL DEF Spec, ExtentPreserved
=============================================================================
