-------------------------- MODULE EventBufferProofs --------------------------
(***************************************************************************)
(* Theorems about EventBuffer, for every value of its constants.  A flush  *)
(* removes lines from the file long after it has dealt with them, and the  *)
(* events it sends meanwhile travel on: what the proofs need is an account *)
(* of the lines the cursor has passed.                                     *)
(***************************************************************************)
EXTENDS EventBuffer, SequenceLemmas

Lines == [id : 0..MaxEvents, retries : 0..MaxRetries]

\* The mutex, the cursor and the event in hand belong together; a line without an
\* event is garbage.
LockInv ==
    /\ lock = "flush" <=> cursor > 0
    /\ lock = "append" <=> appending > 0
    /\ lock = "append" => openLine
    /\ \A i \in DOMAIN file : file[i].id = 0 => ~Parses(file[i])

\* What the cursor has passed needs the file no more.
Settled == Sent \cup lost \cup expired
FlushedInv ==
    \A i \in DOMAIN file : i < cursor => file[i].id \in {0} \cup Settled

\* The retries in a line are failed sends of its own event.
RetriesInv ==
    /\ \A i \in DOMAIN file : file[i].id # 0 => file[i].retries <= attempts[file[i].id]
    /\ GivenUpOnlyAfterRetries

\* While nothing has failed: every line is an event's, no two the same, and nobody
\* is ahead of the detectors.
CleanInv ==
    restarts = 0 /\ faults = 0 =>
        /\ openLine => lock = "append"
        /\ \A i \in DOMAIN file : file[i].id \in 1..detected
        /\ \A i, j \in DOMAIN file : file[i].id = file[j].id => i = j
        /\ Sent \subseteq 1..detected /\ waiting \cap Sent = {}

IInv ==
    /\ TypeOK /\ LockInv /\ FlushedInv /\ RetriesInv /\ CleanInv
    /\ EventAccountedFor /\ EventSentOnce

---------------------------------------------------------------------------
(* Lemmas about sequences of events and lines *)

LEMMA ElementsAppend ==
    ASSUME NEW X, NEW q \in Seq(X), NEW e \in X
    PROVE  Elements(Append(q, e)) = Elements(q) \cup {e}
<1>1. /\ DOMAIN Append(q, e) = 1..(Len(q) + 1) /\ DOMAIN q = 1..Len(q) /\ Len(q) \in Nat
      /\ \A i \in 1..Len(q) : Append(q, e)[i] = q[i]
      /\ Append(q, e)[Len(q) + 1] = e
  OBVIOUS
<1> QED BY <1>1 DEF Elements

LEMMA ElementsTail ==
    ASSUME NEW X, NEW q \in Seq(X), q # <<>>
    PROVE  /\ Elements(q) = {Head(q)} \cup Elements(Tail(q))
           /\ Head(q) \in X /\ Tail(q) \in Seq(X) /\ Len(Tail(q)) = Len(q) - 1
<1>1. /\ DOMAIN q = 1..Len(q) /\ Len(q) \in Nat \ {0} /\ DOMAIN Tail(q) = 1..(Len(q) - 1)
      /\ \A i \in 1..(Len(q) - 1) : Tail(q)[i] = q[i + 1]
      /\ Head(q) = q[1] /\ Head(q) \in X /\ Tail(q) \in Seq(X) /\ Len(Tail(q)) = Len(q) - 1
  OBVIOUS
<1>2. ASSUME NEW i \in 1..Len(q) PROVE q[i] \in {Head(q)} \cup Elements(Tail(q))
  <2>1. CASE i = 1
    BY <1>1, <2>1
  <2>2. CASE i # 1
    <3>1. i - 1 \in 1..(Len(q) - 1) /\ Tail(q)[i - 1] = q[i]
      BY <1>1, <2>2
    <3> QED BY <1>1, <3>1 DEF Elements
  <2> QED BY <2>1, <2>2
<1>3. ASSUME NEW i \in 1..(Len(q) - 1) PROVE Tail(q)[i] \in Elements(q)
  BY <1>1 DEF Elements
<1>4. Head(q) \in Elements(q)
  BY <1>1 DEF Elements
<1> QED BY <1>1, <1>2, <1>3, <1>4 DEF Elements

LEMMA OnceAppend ==
    ASSUME NEW X, NEW q \in Seq(X), NEW e \in X, Once(q), e \notin Elements(q)
    PROVE  Once(Append(q, e))
<1>1. /\ DOMAIN Append(q, e) = 1..(Len(q) + 1) /\ DOMAIN q = 1..Len(q) /\ Len(q) \in Nat
      /\ \A i \in 1..Len(q) : Append(q, e)[i] = q[i] /\ q[i] # e
      /\ Append(q, e)[Len(q) + 1] = e
  BY DEF Elements
<1> QED BY <1>1 DEF Once

LEMMA OnceTail ==
    ASSUME NEW X, NEW q \in Seq(X), q # <<>>, Once(q)
    PROVE  Once(Tail(q)) /\ Head(q) \notin Elements(Tail(q))
<1>1. /\ DOMAIN q = 1..Len(q) /\ Len(q) \in Nat \ {0} /\ DOMAIN Tail(q) = 1..(Len(q) - 1)
      /\ \A i \in 1..(Len(q) - 1) : Tail(q)[i] = q[i + 1]
      /\ Head(q) = q[1]
  OBVIOUS
<1>2. \A i \in 1..(Len(q) - 1) : i + 1 \in 1..Len(q) /\ i + 1 # 1
  BY <1>1
<1>3. \A i \in 1..(Len(q) - 1) : q[i + 1] # q[1]
  BY <1>1, <1>2 DEF Once
<1>4. \A i, j \in 1..(Len(q) - 1) : q[i + 1] = q[j + 1] => i = j
  BY <1>1, <1>2 DEF Once
<1> QED BY <1>1, <1>3, <1>4 DEF Once, Elements

\* What a failed flush leaves behind: the charged line first, then lines from behind
\* it, unchanged and in order, all of those that parse.  g leads to where they were.
Rewrites(g, line, lines) ==
    /\ lines \in Seq(Lines) /\ Len(lines) > 0 /\ lines[1] = line
    /\ g \in [1..Len(lines) -> cursor..Len(file)] /\ g[1] = cursor
    /\ \A i \in 2..Len(lines) : lines[i] = file[g[i]]
    /\ \A i, j \in 1..Len(lines) : i < j => g[i] < g[j]
    /\ \A n \in cursor + 1 .. Len(file) : Parses(file[n]) =>
         \E i \in 2..Len(lines) : g[i] = n

LEMMA RewrittenFile ==
    ASSUME TypeOK, AtLine, LockInv, NEW line \in Lines
    PROVE  \E g : Rewrites(g, line, <<line>> \o RestOfFile)
<1> DEFINE places == {i \in cursor + 1 .. Len(file) : Parses(file[i])}
<1>1. /\ file \in Seq(Lines) /\ Len(file) \in Nat
      /\ cursor \in 1..Len(file)
  BY DEF TypeOK, AtLine, LockInv, Lines
<1>2. PICK kept : kept = RestOfFile
  OBVIOUS
<1>3. kept = KeepAt(file, places)
  BY <1>2 DEF RestOfFile
<1>4. kept \in Seq(Lines)
  BY <1>1, <1>3, KeepAtFacts
<1>5. PICK g : Embeds(g, kept, file, places, Len(file))
  BY <1>1, <1>3, KeepAtFacts
<1>6. PICK l \in Nat : l = Len(kept)
  BY <1>4
<1>7. /\ g \in [1..l -> 1..Len(file)]
      /\ \A i \in 1..l : g[i] \in places /\ kept[i] = file[g[i]]
      /\ \A i, j \in 1..l : i < j => g[i] < g[j]
      /\ \A n \in 1..Len(file) : n \in places => \E i \in 1..l : g[i] = n
  BY <1>5, <1>6 DEF Embeds
<1>8. PICK lines : lines = <<line>> \o RestOfFile
  OBVIOUS
<1>9. /\ lines \in Seq(Lines) /\ Len(lines) = l + 1 /\ lines[1] = line
      /\ \A i \in 2..(l + 1) : lines[i] = kept[i - 1]
  BY <1>2, <1>4, <1>6, <1>8
<1>10. PICK h : h = [i \in 1..(l + 1) |-> IF i = 1 THEN cursor ELSE g[i - 1]]
  OBVIOUS
<1>11. h[1] = cursor /\ \A i \in 2..(l + 1) : i - 1 \in 1..l /\ h[i] = g[i - 1]
  BY <1>10
<1>12. \A i \in 1..l : g[i] \in cursor + 1 .. Len(file)
  BY <1>7
<1>13. h \in [1..(l + 1) -> cursor..Len(file)]
  <2>1. \A i \in 1..(l + 1) : i = 1 \/ i \in 2..(l + 1)
    OBVIOUS
  <2>2. \A i \in 1..(l + 1) : h[i] \in cursor..Len(file)
    BY <1>1, <1>11, <1>12, <2>1
  <2> QED BY <1>10, <2>2
<1>14. \A i \in 2..(l + 1) : lines[i] = file[h[i]]
  BY <1>7, <1>9, <1>11
<1>15. ASSUME NEW i \in 1..(l + 1), NEW j \in 1..(l + 1), i < j PROVE h[i] < h[j]
  <2>1. j \in 2..(l + 1) /\ h[j] = g[j - 1] /\ j - 1 \in 1..l
    BY <1>11, <1>15
  <2>2. CASE i = 1
    BY <1>1, <1>11, <1>12, <2>1, <2>2
  <2>3. CASE i \in 2..(l + 1)
    BY <1>7, <1>11, <1>15, <2>1, <2>3
  <2> QED BY <2>2, <2>3
<1>16. ASSUME NEW n \in cursor + 1 .. Len(file), Parses(file[n])
       PROVE  \E i \in 2..(l + 1) : h[i] = n
  <2>1. n \in 1..Len(file) /\ n \in places
    BY <1>1, <1>16
  <2>2. PICK i \in 1..l : g[i] = n
    BY <1>7, <2>1
  <2>3. i + 1 \in 2..(l + 1) /\ h[i + 1] = n
    BY <1>11, <2>2
  <2> QED BY <2>3
<1>17. Len(lines) = l + 1 /\ Len(lines) > 0
  BY <1>9
<1>18. h \in [1..Len(lines) -> cursor..Len(file)]
  BY <1>13, <1>17
<1>19. \A i \in 2..Len(lines) : lines[i] = file[h[i]]
  BY <1>14, <1>17
<1>20. \A i, j \in 1..Len(lines) : i < j => h[i] < h[j]
  BY <1>15, <1>17
<1>21. \A n \in cursor + 1 .. Len(file) : Parses(file[n]) => \E i \in 2..Len(lines) : h[i] = n
  BY <1>16, <1>17
<1>22. Rewrites(h, line, lines)
  BY <1>9, <1>11, <1>17, <1>18, <1>19, <1>20, <1>21, Zenon DEF Rewrites
<1> QED BY <1>8, <1>22

LEMMA FileType ==
    ASSUME TypeOK
    PROVE  /\ file \in Seq(Lines) /\ Len(file) \in Nat /\ DOMAIN file = 1..Len(file)
           /\ \A i \in DOMAIN file : /\ file[i] \in Lines /\ file[i].id \in 0..MaxEvents
                                     /\ file[i].retries \in 0..MaxRetries
<1>1. file \in Seq(Lines)
  BY DEF TypeOK, Lines
<1>2. /\ Len(file) \in Nat /\ DOMAIN file = 1..Len(file)
      /\ \A i \in DOMAIN file : file[i] \in Lines
  BY <1>1
<1>3. \A line \in Lines : line.id \in 0..MaxEvents /\ line.retries \in 0..MaxRetries
  BY DEF Lines
<1> QED BY <1>1, <1>2, <1>3

\* A line without an event parses no more than garbage, one that parses names an event.
LEMMA ParsedLine ==
    ASSUME TypeOK, LockInv, NEW i \in DOMAIN file, Parses(file[i])
    PROVE  file[i].id \in Event
<1>1. file[i] \in Lines
  BY FileType
<1>2. file[i].id # 0
  BY DEF LockInv
<1> QED BY <1>1, <1>2, EventAssumption DEF Lines, Event

LEMMA CursorLine ==
    ASSUME TypeOK, LockInv, AtLine
    PROVE  cursor \in DOMAIN file /\ cursor \in Nat /\ file[cursor] \in Lines
<1>1. cursor \in 0..(Len(file) + 1) /\ cursor > 0 /\ cursor <= Len(file)
  BY DEF TypeOK, LockInv, AtLine
<1> QED BY <1>1, FileType

LEMMA ChargedLine ==
    ASSUME NEW line \in Lines, ~Exhausted(line)
    PROVE  /\ Charged(line) \in Lines /\ Charged(line).id = line.id
           /\ Charged(line).retries = line.retries + 1
<1>1. /\ line.id \in 0..MaxEvents /\ line.retries \in Nat /\ line.retries < MaxRetries
      /\ line = [id |-> line.id, retries |-> line.retries]
  BY EventAssumption DEF Lines, Exhausted
<1>2. Charged(line) = [id |-> line.id, retries |-> line.retries + 1]
  BY <1>1 DEF Charged
<1> QED BY <1>1, <1>2, EventAssumption DEF Lines

\* What an append does to the file.
Extended(line) == IF openLine THEN [file EXCEPT ![Len(file)] = Garbage] ELSE Append(file, line)

LEMMA ExtendedFile ==
    ASSUME TypeOK, NEW line \in Lines
    PROVE  /\ Extended(line) \in Seq(Lines) /\ Extended(line) # <<>>
           /\ Len(Extended(line)) >= Len(file)
           /\ openLine => /\ Len(Extended(line)) = Len(file)
                          /\ Extended(line)[Len(file)] = Garbage
           /\ ~openLine => /\ Len(Extended(line)) = Len(file) + 1
                           /\ Extended(line)[Len(file) + 1] = line
                           /\ \A i \in DOMAIN file : Extended(line)[i] = file[i]
           /\ \A i \in DOMAIN Extended(line) :
                \/ i \in DOMAIN file /\ Extended(line)[i] = file[i]
                \/ Extended(line)[i] = Garbage \/ Extended(line)[i] = line
<1>0. file \in Seq(Lines) /\ openLine \in BOOLEAN /\ (openLine => file # <<>>)
  BY DEF TypeOK, Lines
<1>1. /\ file \in Seq(Lines) /\ Len(file) \in Nat /\ DOMAIN file = 1..Len(file)
      /\ Garbage \in Lines /\ openLine \in BOOLEAN /\ (openLine => Len(file) > 0)
  <2>1. Garbage \in Lines
    BY EventAssumption DEF Lines, Garbage, Line
  <2> QED BY <1>0, <2>1
<1>2. CASE openLine
  <2>1. PICK new : new = [file EXCEPT ![Len(file)] = Garbage]
    OBVIOUS
  <2>2. new \in Seq(Lines) /\ Len(new) = Len(file) /\ DOMAIN new = 1..Len(file)
        /\ new[Len(file)] = Garbage
        /\ \A i \in 1..Len(file) : new[i] = file[i] \/ new[i] = Garbage
    BY <1>1, <1>2, <2>1
  <2>3. Extended(line) = new
    BY <1>2, <2>1 DEF Extended
  <2> QED BY <1>1, <1>2, <2>2, <2>3
<1>3. CASE ~openLine
  <2>1. PICK new : new = Append(file, line)
    OBVIOUS
  <2>2. new \in Seq(Lines) /\ Len(new) = Len(file) + 1 /\ DOMAIN new = 1..(Len(file) + 1)
        /\ new[Len(file) + 1] = line /\ \A i \in 1..Len(file) : new[i] = file[i]
    BY <1>1, <2>1
  <2>3. Extended(line) = new
    BY <1>3, <2>1 DEF Extended
  <2>4. new # <<>> /\ Len(new) >= Len(file) /\ DOMAIN file = 1..Len(file)
    BY <1>1, <2>2
  <2>5. \A i \in DOMAIN new : (i \in DOMAIN file /\ new[i] = file[i]) \/ new[i] = line
    BY <1>1, <2>2
  <2> QED BY <1>3, <2>2, <2>3, <2>4, <2>5
<1> QED BY <1>1, <1>2, <1>3

---------------------------------------------------------------------------
(* Types *)

LEMMA TypeStep ==
    ASSUME TypeOK, LockInv, [Next]_vars
    PROVE  TypeOK'
<1>0. /\ MaxRetries \in Nat /\ MaxFaults \in Nat /\ MaxFlushes \in Nat /\ MaxEvents \in Nat
      /\ MaxRestarts \in Nat /\ MaxEpochs \in Nat /\ SendCap \in Nat
      /\ file \in Seq(Lines) /\ Len(file) \in Nat /\ attempts \in [Event -> Nat]
  BY EventAssumption, ChannelAssumption, FileType DEF TypeOK
<1>1. CASE EventSent
  <2>1. chan' \in Seq(Event) /\ Len(chan') <= SendCap
    BY <1>0, <1>1 DEF EventSent, Put, HasRoom, TypeOK, Event
  <2> QED BY <1>0, <1>1, <2>1 DEF EventSent, Put, TypeOK, fileVars, lockVars, ghostVars
<1>2. CASE EventBuffered
  BY <1>0, <1>2 DEF EventBuffered, channelVars, TypeOK, fileVars, lockVars, ghostVars
<1>3. ASSUME NEW e \in waiting, AppendRecord(e) PROVE TypeOK'
  <2>1. e \in 0..MaxEvents /\ Line(e, 0) \in Lines
    BY <1>0 DEF TypeOK, Lines, Line
  <2>2. file' = Extended(Line(e, 0))
    BY <1>3 DEF AppendRecord, Extended
  <2>3. file' \in Seq(Lines) /\ file' # <<>> /\ Len(file') >= Len(file) /\ Len(file') \in Nat
    BY <2>1, <2>2, ExtendedFile
  <2>4. cursor' \in 0..(Len(file') + 1)
    BY <1>0, <1>3, <2>3 DEF AppendRecord, TypeOK
  <2> QED BY <1>0, <1>3, <2>1, <2>3, <2>4 DEF AppendRecord, channelVars, TypeOK, Lines, ghostVars
<1>4. ASSUME NEW e \in waiting, AppendFails(e) PROVE TypeOK'
  <2>1. Garbage \in Lines
    BY <1>0 DEF Lines, Line, Garbage
  <2>2. \/ file' = file /\ openLine' = openLine
        \/ file' = Extended(Garbage) /\ openLine' = TRUE
    BY <1>4 DEF AppendFails, Extended, fileVars
  <2>7. /\ Extended(Garbage) \in Seq(Lines) /\ Extended(Garbage) # <<>>
        /\ Len(Extended(Garbage)) >= Len(file)
    BY <2>1, ExtendedFile
  <2>3. file' \in Seq(Lines) /\ Len(file') >= Len(file) /\ Len(file') \in Nat
    BY <1>0, <2>2, <2>7
  <2>4. openLine' \in BOOLEAN /\ (openLine' => file' # <<>>)
    <3>1. openLine \in BOOLEAN /\ (openLine => file # <<>>)
      BY DEF TypeOK
    <3>2. CASE file' = file /\ openLine' = openLine
      BY <3>1, <3>2
    <3>3. CASE file' = Extended(Garbage) /\ openLine' = TRUE
      BY <2>7, <3>3
    <3> QED BY <2>2, <3>2, <3>3
  <2>5. cursor' \in 0..(Len(file') + 1)
    BY <1>0, <1>4, <2>3 DEF AppendFails, lockVars, TypeOK
  <2>6. faults' \in 0..MaxFaults
    BY <1>0, <1>4 DEF AppendFails, FileFault, TypeOK
  <2> QED BY <1>0, <1>4, <2>3, <2>4, <2>5, <2>6
          DEF AppendFails, channelVars, TypeOK, Lines, lockVars, ghostVars
<1>5. CASE AppendNewline
  <2>1. appending \in Event
    BY <1>0, <1>5 DEF AppendNewline, LockInv, TypeOK, Event
  <2>2. openLine' = FALSE /\ lock' = "free" /\ appending' \in 0..MaxEvents
    BY <1>0, <1>5 DEF AppendNewline
  <2> QED BY <1>5, <2>1, <2>2 DEF AppendNewline, channelVars, TypeOK
<1>6. CASE AppendAborts
  <2>1. file # <<>>
    BY <1>6 DEF AppendAborts, LockInv, TypeOK
  <2> QED BY <1>0, <1>6, <2>1
          DEF AppendAborts, FileFault, channelVars, TypeOK, ghostVars
<1>7. CASE MonitorKicks
  BY <1>7 DEF MonitorKicks, channelVars, TypeOK, fileVars, lockVars, ghostVars
<1>8. CASE FlushChecks
  <2>1. ready' \in 0..MaxFlushes
    BY <1>0, <1>8 DEF FlushChecks, TypeOK
  <2> QED BY <1>0, <1>8, <2>1 DEF FlushChecks, channelVars, TypeOK, fileVars, ghostVars
<1>9. CASE FlushStarts
  <2>1. cursor' \in 0..(Len(file) + 1) /\ lock' \in {"free", "append", "flush"}
    BY <1>0, <1>9 DEF FlushStarts, TypeOK
  <2> QED BY <1>0, <1>9, <2>1 DEF FlushStarts, channelVars, TypeOK, fileVars, ghostVars
<1>10. CASE FlushCannotRead
  BY <1>0, <1>10
     DEF FlushCannotRead, FileFault, channelVars, TypeOK, fileVars, ghostVars
<1>11. CASE FlushSkips
  <2>1. cursor \in DOMAIN file
    BY <1>11, CursorLine DEF FlushSkips
  <2>2. IdsOf(<<file[cursor]>>) \subseteq Event
    <3>2. file[cursor].id \in 0..MaxEvents
      BY <2>1, FileType
    <3> QED BY <1>0, <3>2 DEF IdsOf, Event
  <2>3. cursor' \in 0..(Len(file) + 1)
    BY <1>0, <1>11, <2>1 DEF FlushSkips
  <2> QED BY <1>0, <1>11, <2>2, <2>3 DEF FlushSkips, channelVars, TypeOK, fileVars
<1>12. CASE FlushSends
  <2>1. cursor \in DOMAIN file
    BY <1>12, CursorLine DEF FlushSends
  <2>2. file[cursor].id \in Event
    BY <1>12, <2>1, ParsedLine DEF FlushSends, Sendable
  <2>3. chan' \in Seq(Event) /\ Len(chan') <= SendCap
    BY <1>0, <1>12, <2>2 DEF FlushSends, Put, HasRoom, TypeOK
  <2>4. cursor' \in 0..(Len(file) + 1)
    BY <1>0, <1>12, <2>1 DEF FlushSends
  <2> QED BY <1>0, <1>12, <2>3, <2>4 DEF FlushSends, Put, TypeOK, fileVars, ghostVars
<1>13. CASE FlushFails
  <2>1. cursor \in DOMAIN file /\ AtLine
    BY <1>13, CursorLine DEF FlushFails, FailedAtLine
  <2>2. Charged(file[cursor]) \in Lines
    <3>1. file[cursor] \in Lines
      BY <2>1, FileType
    <3> QED BY <1>13, <3>1, ChargedLine DEF FlushFails, FailedAtLine, Sendable
  <2>3. file' \in Seq(Lines)
    <3>1. file' = <<Charged(file[cursor])>> \o RestOfFile
      BY <1>13 DEF FlushFails, FlushLeaves
    <3>2. PICK g : Rewrites(g, Charged(file[cursor]), file')
      BY <2>1, <2>2, <3>1, RewrittenFile
    <3> QED BY <3>2 DEF Rewrites
  <2>5. file[cursor].id \in Event
    BY <1>13, <2>1, ParsedLine DEF FlushFails, FailedAtLine, Sendable
  <2>4. attempts' \in [Event -> Nat]
    BY <1>0, <1>13, <2>5 DEF FlushFails, FlushLeaves
  <2>6. /\ openLine' = FALSE /\ cursor' \in 0..(Len(file') + 1)
        /\ lock' \in {"free", "append", "flush"}
    BY <1>13, <2>3 DEF FlushFails, FlushLeaves
  <2> QED BY <1>0, <1>13, <2>3, <2>4, <2>6 DEF FlushFails, FlushLeaves, channelVars, TypeOK, Lines
<1>14. CASE FlushEnds
  <2>1. /\ file' \in Seq(Lines) /\ cursor' \in 0..(Len(file') + 1) /\ openLine' = FALSE
        /\ lock' = "free"
    BY <1>14 DEF FlushEnds
  <2> QED BY <1>14, <2>1 DEF FlushEnds, channelVars, TypeOK, ghostVars, Lines
<1>15. CASE FlushCannotStore
  <2>1. FailedAtLine => file[cursor].id \in Event
    <3>1. FailedAtLine => cursor \in DOMAIN file
      BY CursorLine DEF FailedAtLine
    <3> QED BY <3>1, ParsedLine DEF FailedAtLine, Sendable
  <2>2. attempts' \in [Event -> Nat]
    BY <1>0, <1>15, <2>1 DEF FlushCannotStore
  <2>3. faults' \in 0..MaxFaults /\ cursor' \in 0..(Len(file) + 1)
    BY <1>0, <1>15 DEF FlushCannotStore, FileFault, TypeOK
  <2> QED BY <1>0, <1>15, <2>2, <2>3
          DEF FlushCannotStore, FileFault, channelVars, TypeOK, fileVars
<1>16. CASE Restart
  <2>1. Elements(chan) \subseteq Event
    BY DEF Elements, TypeOK
  <2>2. chan' \in Seq(Event) /\ Len(chan') <= SendCap /\ cursor' \in 0..(Len(file) + 1)
    BY <1>0, <1>16 DEF Restart
  <2>3. restarts' \in 0..MaxRestarts /\ ready' \in 0..MaxFlushes /\ appending' \in 0..MaxEvents
    BY <1>0, <1>16 DEF Restart, TypeOK
  <2> QED BY <1>16, <2>1, <2>2, <2>3 DEF Restart, TypeOK, fileVars
<1>17. CASE Connect
  <2>1. epoch' \in 0..MaxEpochs
    BY <1>0, <1>17 DEF Connect, ChannelOpens, TypeOK
  <2>2. kick' \in BOOLEAN
    BY <1>17, Zenon DEF Connect, TypeOK
  <2> QED BY <1>17, <2>1, <2>2 DEF Connect, ChannelOpens, TypeOK, fileVars, lockVars, ghostVars
<1>18. CASE Disconnect
  BY <1>18 DEF Disconnect, ChannelCloses, TypeOK, rest, fileVars, lockVars
<1>19. CASE EventLost
  <2>1. Tail(chan) \in Seq(Event) /\ Head(chan) \in Event /\ Len(Tail(chan)) <= SendCap
    BY <1>0, <1>19, ElementsTail DEF EventLost, Lose, TypeOK
  <2> QED BY <1>0, <1>19, <2>1 DEF EventLost, Lose, TypeOK, rest, fileVars, lockVars
<1>20. CASE ServerReceives
  <2>1. Tail(chan) \in Seq(Event) /\ Head(chan) \in Event /\ Len(Tail(chan)) <= SendCap
    BY <1>0, <1>20, ElementsTail DEF ServerReceives, Deliver, TypeOK
  <2>2. Append(received, Head(chan)) \in Seq(Event)
    BY <2>1 DEF TypeOK
  <2> QED BY <1>20, <2>1, <2>2 DEF ServerReceives, Deliver, TypeOK, rest, fileVars, lockVars
<1>21. CASE UNCHANGED vars
  BY <1>21 DEF vars, channelVars, TypeOK, fileVars, lockVars, ghostVars
<1> QED
  BY <1>1, <1>2, <1>3, <1>4, <1>5, <1>6, <1>7, <1>8, <1>9, <1>10, <1>11, <1>12, <1>13, <1>14,
     <1>15, <1>16, <1>17, <1>18, <1>19, <1>20, <1>21 DEF Next, Flush

---------------------------------------------------------------------------
(* Which actions touch what *)

\* Only appends and the end of a flush write the file.
LEMMA FileFrame ==
    ASSUME [Next]_vars
    PROVE  \/ \E e \in waiting : AppendRecord(e) \/ AppendFails(e)
           \/ FlushFails \/ FlushEnds
           \/ file' = file
<1> USE DEF fileVars, rest
<1>1. CASE EventSent \/ EventBuffered \/ AppendNewline \/ AppendAborts \/ MonitorKicks
  BY <1>1 DEF EventSent, EventBuffered, AppendNewline, AppendAborts, MonitorKicks
<1>2. CASE FlushChecks \/ FlushStarts \/ FlushCannotRead \/ FlushSkips
  BY <1>2 DEF FlushChecks, FlushStarts, FlushCannotRead, FlushSkips
<1>3. CASE FlushSends \/ FlushCannotStore \/ Restart \/ Connect
  BY <1>3 DEF FlushSends, FlushCannotStore, Restart, Connect
<1>4. CASE Disconnect \/ EventLost \/ ServerReceives \/ UNCHANGED vars
  BY <1>4 DEF Disconnect, EventLost, ServerReceives, vars
<1> QED BY <1>1, <1>2, <1>3, <1>4 DEF Next, Flush

\* Only these touch the cursor; all others keep it, or leave it at 0.
LEMMA CursorFrame ==
    ASSUME [Next]_vars
    PROVE  \/ FlushStarts \/ FlushSkips \/ FlushSends
           \/ cursor' = 0
           \/ cursor' = cursor
<1> USE DEF lockVars, rest
<1>1. CASE EventSent \/ EventBuffered \/ AppendNewline \/ AppendAborts \/ MonitorKicks
  BY <1>1 DEF EventSent, EventBuffered, AppendNewline, AppendAborts, MonitorKicks
<1>2. CASE \E e \in waiting : AppendRecord(e) \/ AppendFails(e)
  BY <1>2 DEF AppendRecord, AppendFails
<1>3. CASE FlushChecks \/ FlushCannotRead \/ FlushFails \/ FlushEnds
  BY <1>3 DEF FlushChecks, FlushCannotRead, FlushFails, FlushLeaves, FlushEnds
<1>4. CASE FlushCannotStore \/ Restart \/ Connect
  BY <1>4 DEF FlushCannotStore, Restart, Connect
<1>5. CASE Disconnect \/ EventLost \/ ServerReceives \/ UNCHANGED vars
  BY <1>5 DEF Disconnect, EventLost, ServerReceives, vars
<1> QED BY <1>1, <1>2, <1>3, <1>4, <1>5 DEF Next, Flush

\* Only these move events on or off the channel.
LEMMA SentFrame ==
    ASSUME [Next]_vars
    PROVE  \/ EventSent \/ FlushSends \/ Restart \/ EventLost \/ ServerReceives
           \/ chan' = chan /\ received' = received /\ lost' = lost
<1> USE DEF channelVars, ghostVars, rest
<1>1. CASE EventBuffered \/ AppendNewline \/ AppendAborts \/ MonitorKicks
  BY <1>1 DEF EventBuffered, AppendNewline, AppendAborts, MonitorKicks
<1>2. CASE \E e \in waiting : AppendRecord(e) \/ AppendFails(e)
  BY <1>2 DEF AppendRecord, AppendFails
<1>3. CASE FlushChecks \/ FlushStarts \/ FlushCannotRead \/ FlushSkips
  BY <1>3 DEF FlushChecks, FlushStarts, FlushCannotRead, FlushSkips
<1>4. CASE FlushFails \/ FlushEnds \/ FlushCannotStore
  BY <1>4 DEF FlushFails, FlushLeaves, FlushEnds, FlushCannotStore
<1>5. CASE Connect \/ Disconnect \/ UNCHANGED vars
  BY <1>5 DEF Connect, ChannelOpens, Disconnect, ChannelCloses, vars
<1> QED BY <1>1, <1>2, <1>3, <1>4, <1>5 DEF Next, Flush

\* Events are given up by FlushSkips alone, and failed sends are counted by two actions.
LEMMA CountFrame ==
    ASSUME [Next]_vars
    PROVE  /\ FlushSkips \/ expired' = expired
           /\ FlushFails \/ FlushCannotStore \/ attempts' = attempts
<1> USE DEF ghostVars, rest
<1>1. CASE EventSent \/ EventBuffered \/ AppendNewline \/ AppendAborts \/ MonitorKicks
  BY <1>1 DEF EventSent, EventBuffered, AppendNewline, AppendAborts, MonitorKicks
<1>2. CASE \E e \in waiting : AppendRecord(e) \/ AppendFails(e)
  BY <1>2 DEF AppendRecord, AppendFails
<1>3. CASE FlushChecks \/ FlushStarts \/ FlushCannotRead \/ FlushSkips \/ FlushSends
  BY <1>3 DEF FlushChecks, FlushStarts, FlushCannotRead, FlushSkips, FlushSends
<1>4. CASE FlushFails \/ FlushEnds \/ FlushCannotStore
  BY <1>4 DEF FlushFails, FlushLeaves, FlushEnds, FlushCannotStore
<1>5. CASE Restart \/ Connect \/ Disconnect \/ EventLost \/ ServerReceives \/ UNCHANGED vars
  BY <1>5 DEF Restart, Connect, Disconnect, EventLost, ServerReceives, vars
<1> QED BY <1>1, <1>2, <1>3, <1>4, <1>5 DEF Next, Flush

\* Detecting and waiting.
LEMMA WaitingFrame ==
    ASSUME [Next]_vars
    PROVE  \/ EventSent \/ EventBuffered
           \/ /\ detected' = detected
              /\ \/ \E e \in waiting : AppendRecord(e) \/ AppendFails(e)
                 \/ Restart
                 \/ waiting' = waiting
<1> USE DEF rest
<1>1. CASE AppendNewline \/ AppendAborts \/ MonitorKicks
  BY <1>1 DEF AppendNewline, AppendAborts, MonitorKicks
<1>2. CASE \E e \in waiting : AppendRecord(e) \/ AppendFails(e)
  BY <1>2 DEF AppendRecord, AppendFails
<1>3. CASE FlushChecks \/ FlushStarts \/ FlushCannotRead \/ FlushSkips \/ FlushSends
  BY <1>3 DEF FlushChecks, FlushStarts, FlushCannotRead, FlushSkips, FlushSends
<1>4. CASE FlushFails \/ FlushEnds \/ FlushCannotStore
  BY <1>4 DEF FlushFails, FlushLeaves, FlushEnds, FlushCannotStore
<1>5. CASE Restart \/ Connect \/ Disconnect \/ EventLost \/ ServerReceives \/ UNCHANGED vars
  BY <1>5 DEF Restart, Connect, Disconnect, EventLost, ServerReceives, vars
<1> QED BY <1>1, <1>2, <1>3, <1>4, <1>5 DEF Next, Flush

---------------------------------------------------------------------------
(* The lock *)

LEMMA LockStep ==
    ASSUME TypeOK, LockInv, [Next]_vars
    PROVE  LockInv'
<1> DEFINE Held == /\ lock = "flush" <=> cursor > 0
                   /\ lock = "append" <=> appending > 0
                   /\ lock = "append" => openLine
           Named(line) == line.id = 0 => ~Parses(line)
<1>0. /\ lock \in {"free", "append", "flush"} /\ appending \in Nat /\ cursor \in Nat
      /\ waiting \subseteq Nat \ {0}
  BY EventAssumption, FileType DEF TypeOK
<1>1. Held'
  <2> USE DEF LockInv, fileVars, lockVars, rest
  <2>1. CASE EventSent \/ EventBuffered \/ MonitorKicks
    BY <2>1 DEF EventSent, EventBuffered, MonitorKicks
  <2>2. ASSUME NEW e \in waiting, AppendRecord(e) PROVE Held'
    BY <1>0, <2>2 DEF AppendRecord
  <2>3. ASSUME NEW e \in waiting, AppendFails(e) PROVE Held'
    BY <2>3 DEF AppendFails
  <2>4. CASE AppendNewline \/ AppendAborts
    BY <1>0, <2>4 DEF AppendNewline, AppendAborts
  <2>5. CASE FlushChecks \/ FlushCannotRead
    BY <2>5 DEF FlushChecks, FlushCannotRead
  <2>6. CASE FlushStarts
    BY <1>0, <2>6 DEF FlushStarts
  <2>7. CASE FlushSkips \/ FlushSends
    BY <1>0, <2>7 DEF FlushSkips, FlushSends, AtLine
  <2>8. CASE FlushFails \/ FlushEnds
    BY <1>0, <2>8 DEF FlushFails, FlushLeaves, FlushEnds, FailedAtLine, AtLine
  <2>9. CASE FlushCannotStore
    BY <1>0, <2>9 DEF FlushCannotStore, FailedAtLine, AtLine
  <2>10. CASE Restart
    BY <2>10 DEF Restart
  <2>11. CASE Connect \/ Disconnect
    <3>1. UNCHANGED <<lock, cursor, appending, openLine>>
      BY <2>11 DEF Connect, Disconnect
    <3> QED BY <3>1
  <2>12. CASE EventLost \/ ServerReceives
    BY <2>12 DEF EventLost, ServerReceives
  <2>13. CASE UNCHANGED vars
    BY <2>13 DEF vars
  <2> QED BY <2>1, <2>2, <2>3, <2>4, <2>5, <2>6, <2>7, <2>8, <2>9, <2>10, <2>11, <2>12, <2>13
          DEF Next, Flush
<1>2. \A i \in DOMAIN file : Named(file[i])
  BY DEF LockInv
<1>3. Named(Garbage)
  BY DEF Parses
<1>4. (\A i \in DOMAIN file : Named(file[i]))'
  <2>1. ASSUME NEW e \in waiting, AppendRecord(e) PROVE \A i \in DOMAIN file' : Named(file'[i])
    <3>1. Line(e, 0) \in Lines /\ Named(Line(e, 0))
      BY <1>0, EventAssumption DEF TypeOK, Lines, Line
    <3>2. file' = Extended(Line(e, 0))
      BY <2>1 DEF AppendRecord, Extended
    <3>3. \A i \in DOMAIN file' : \/ i \in DOMAIN file /\ file'[i] = file[i]
                                  \/ file'[i] = Garbage \/ file'[i] = Line(e, 0)
      BY <3>1, <3>2, ExtendedFile
    <3> HIDE DEF Named
    <3> QED BY <1>2, <1>3, <3>1, <3>3
  <2>2. ASSUME NEW e \in waiting, AppendFails(e) PROVE \A i \in DOMAIN file' : Named(file'[i])
    <3>1. Garbage \in Lines
      BY EventAssumption DEF Garbage, Lines, Line
    <3>2. file' = file \/ file' = Extended(Garbage)
      BY <2>2 DEF AppendFails, fileVars, Extended
    <3>3. \A i \in DOMAIN file' : \/ i \in DOMAIN file /\ file'[i] = file[i]
                                  \/ file'[i] = Garbage
      BY <3>1, <3>2, ExtendedFile
    <3> HIDE DEF Named
    <3> QED BY <1>2, <1>3, <3>3
  <2>3. CASE FlushFails
    <3>1. AtLine /\ cursor \in DOMAIN file /\ file[cursor] \in Lines
      BY <2>3, CursorLine DEF FlushFails, FailedAtLine
    <3>2. /\ Charged(file[cursor]) \in Lines /\ Charged(file[cursor]).id = file[cursor].id
          /\ file[cursor].id \in Event
      BY <2>3, <3>1, ChargedLine, ParsedLine DEF FlushFails, FailedAtLine, Sendable
    <3>3. file' = <<Charged(file[cursor])>> \o RestOfFile
      BY <2>3 DEF FlushFails, FlushLeaves
    <3>7. PICK g : Rewrites(g, Charged(file[cursor]), file')
      BY <3>1, <3>2, <3>3, RewrittenFile
    <3>4. /\ g \in [1..Len(file') -> cursor..Len(file)]
          /\ file' \in Seq(Lines) /\ file'[1] = Charged(file[cursor])
          /\ \A i \in 2..Len(file') : file'[i] = file[g[i]]
      BY <3>7 DEF Rewrites
    <3>5. Named(Charged(file[cursor]))
      BY <3>2 DEF Event
    <3>6. \A i \in DOMAIN file' : i = 1 \/ (i \in 2..Len(file') /\ g[i] \in DOMAIN file)
      BY <3>1, <3>4, FileType
    <3> HIDE DEF Named
    <3> QED BY <1>2, <3>4, <3>5, <3>6
  <2>4. CASE FlushEnds
    BY <2>4 DEF FlushEnds
  <2>5. CASE file' = file
    BY <1>2, <2>5
  <2> QED BY <2>1, <2>2, <2>3, <2>4, <2>5, FileFrame
<1> QED BY <1>1, <1>4 DEF LockInv

---------------------------------------------------------------------------
(* What the cursor has passed *)

\* A frame put on the channel stays accounted for: it arrives or it is lost.
LEMMA SettledGrows ==
    ASSUME TypeOK, LockInv, [Next]_vars
    PROVE  /\ Settled \subseteq Settled'
           /\ Sent \subseteq Sent' \cup lost'
<1>0. chan \in Seq(Event) /\ received \in Seq(Event)
  BY DEF TypeOK
<1>1. expired \subseteq expired'
  BY CountFrame DEF FlushSkips
<1>2. /\ Elements(chan) \cup Elements(received) \cup lost
         \subseteq Elements(chan') \cup Elements(received') \cup lost'
  <2>1. CASE EventSent
    <3>1. detected + 1 \in Event
      BY <2>1, EventAssumption DEF EventSent, TypeOK, Event
    <3>2. Elements(chan') = Elements(chan) \cup {detected + 1}
      BY <1>0, <2>1, <3>1, ElementsAppend DEF EventSent, Put
    <3> QED BY <2>1, <3>2 DEF EventSent, ghostVars
  <2>2. CASE FlushSends
    <3>1. cursor \in DOMAIN file
      BY <2>2, CursorLine DEF FlushSends
    <3>2. file[cursor].id \in Event
      BY <2>2, <3>1, ParsedLine DEF FlushSends, Sendable
    <3>3. Elements(chan') = Elements(chan) \cup {file[cursor].id}
      BY <1>0, <2>2, <3>2, ElementsAppend DEF FlushSends, Put
    <3> QED BY <2>2, <3>3 DEF FlushSends, ghostVars
  <2>3. CASE Restart
    BY <2>3 DEF Restart
  <2>4. CASE EventLost
    <3>1. Elements(chan) = {Head(chan)} \cup Elements(chan')
      BY <1>0, <2>4, ElementsTail DEF EventLost, Lose
    <3> QED BY <2>4, <3>1 DEF EventLost
  <2>5. CASE ServerReceives
    <3>1. Elements(chan) = {Head(chan)} \cup Elements(chan') /\ Head(chan) \in Event
      BY <1>0, <2>5, ElementsTail DEF ServerReceives, Deliver
    <3>2. Elements(received') = Elements(received) \cup {Head(chan)}
      BY <1>0, <2>5, <3>1, ElementsAppend DEF ServerReceives
    <3> QED BY <2>5, <3>1, <3>2 DEF ServerReceives
  <2>6. CASE chan' = chan /\ received' = received /\ lost' = lost
    BY <2>6
  <2> QED BY <2>1, <2>2, <2>3, <2>4, <2>5, <2>6, SentFrame
<1> QED BY <1>1, <1>2 DEF Settled, Sent

LEMMA FlushedStep ==
    ASSUME TypeOK, LockInv, FlushedInv, [Next]_vars
    PROVE  FlushedInv'
<1>0. Settled \subseteq Settled'
  BY SettledGrows
<1>1. CASE FlushSkips
  <2>1. cursor \in DOMAIN file /\ cursor \in Nat
    BY <1>1, CursorLine DEF FlushSkips
  <2>2. file[cursor].id \in {0} \cup Settled'
    BY <1>1 DEF FlushSkips, IdsOf, Settled
  <2>3. file' = file /\ cursor' = cursor + 1
    BY <1>1 DEF FlushSkips, fileVars
  <2>4. \A i \in DOMAIN file : i < cursor + 1 => i < cursor \/ i = cursor
    BY <2>1, FileType
  <2> QED BY <1>0, <2>2, <2>3, <2>4 DEF FlushedInv
<1>2. CASE FlushSends
  <2>1. cursor \in DOMAIN file /\ cursor \in Nat
    BY <1>2, CursorLine DEF FlushSends
  <2>2. file[cursor].id \in Settled'
    <3>1. file[cursor].id \in Event
      BY <1>2, <2>1, ParsedLine DEF FlushSends, Sendable
    <3>2. chan \in Seq(Event) /\ chan' = Append(chan, file[cursor].id)
      BY <1>2 DEF FlushSends, Put, TypeOK
    <3>3. Elements(chan') = Elements(chan) \cup {file[cursor].id}
      BY <3>1, <3>2, ElementsAppend
    <3> QED BY <3>3 DEF Settled, Sent
  <2>3. file' = file /\ cursor' = cursor + 1
    BY <1>2 DEF FlushSends, fileVars
  <2>4. \A i \in DOMAIN file : i < cursor + 1 => i < cursor \/ i = cursor
    BY <2>1, FileType
  <2> QED BY <1>0, <2>2, <2>3, <2>4 DEF FlushedInv
<1>3. CASE FlushStarts \/ cursor' = 0
  <2>1. file' = file \/ cursor' = 0
    BY <1>3 DEF FlushStarts, fileVars
  <2>2. cursor' \in {0, 1} \/ cursor' = cursor
    BY <1>3 DEF FlushStarts
  <2>3. CASE cursor' \in {0, 1}
    <3>1. TypeOK'
      BY TypeStep
    <3>3. file' \in Seq(Lines)
      BY <3>1 DEF TypeOK, Lines
    <3>2. \A i \in DOMAIN file' : ~(i < cursor')
      BY <2>3, <3>3
    <3> QED BY <3>2 DEF FlushedInv
  <2>4. CASE cursor' = cursor /\ file' = file
    BY <1>0, <2>4 DEF FlushedInv
  <2> QED BY <2>1, <2>2, <2>3, <2>4
<1>4. CASE cursor' = cursor
  <2>1. CASE file' = file
    BY <1>0, <1>4, <2>1 DEF FlushedInv
  <2>2. CASE file' # file
    <3>1. lock = "free" \/ FlushFails \/ FlushEnds
      BY <2>2, FileFrame DEF AppendRecord, AppendFails
    <3>2. lock = "free" => cursor = 0
      BY DEF LockInv, TypeOK
    <3> QED BY <1>3, <1>4, <3>1, <3>2 DEF FlushFails, FlushLeaves, FlushEnds
  <2> QED BY <2>1, <2>2
<1> QED BY <1>1, <1>2, <1>3, <1>4, CursorFrame

---------------------------------------------------------------------------
(* Retries *)

LEMMA AttemptsGrow ==
    ASSUME TypeOK, LockInv, [Next]_vars
    PROVE  /\ \A e \in Event : attempts'[e] \in Nat /\ attempts[e] <= attempts'[e]
           /\ FlushFails => attempts'[file[cursor].id] = attempts[file[cursor].id] + 1
<1>0. attempts \in [Event -> Nat]
  BY DEF TypeOK
<1>1. ASSUME FailedAtLine PROVE file[cursor].id \in Event
  <2>1. cursor \in DOMAIN file
    BY <1>1, CursorLine DEF FailedAtLine
  <2> QED BY <1>1, <2>1, ParsedLine DEF FailedAtLine, Sendable
<1>2. CASE attempts' = attempts /\ ~FlushFails
  BY <1>0, <1>2
<1>3. CASE FlushFails \/ FlushCannotStore
  <2>1. \/ FailedAtLine /\ attempts' = [attempts EXCEPT ![file[cursor].id] = @ + 1]
        \/ ~FlushFails /\ attempts' = attempts
    BY <1>3 DEF FlushFails, FlushLeaves, FlushCannotStore
  <2>2. CASE FailedAtLine /\ attempts' = [attempts EXCEPT ![file[cursor].id] = @ + 1]
    BY <1>0, <1>1, <2>2
  <2> QED BY <1>2, <2>1, <2>2
<1> QED BY <1>2, <1>3, CountFrame

LEMMA RetriesStep ==
    ASSUME TypeOK, LockInv, RetriesInv, [Next]_vars
    PROVE  RetriesInv'
<1> DEFINE Own(line, counts) == line.id # 0 => line.retries <= counts[line.id]
<1>0. /\ \A i \in DOMAIN file : Own(file[i], attempts)
      /\ attempts \in [Event -> Nat] /\ expired \subseteq Event
  BY DEF RetriesInv, TypeOK
<1>1. \A e \in Event : attempts'[e] \in Nat /\ attempts[e] <= attempts'[e]
  BY AttemptsGrow
<1>2. \A i \in DOMAIN file : Own(file[i], attempts')
  <2> TAKE i \in DOMAIN file
  <2>1. file[i].id # 0 => file[i].id \in Event
    BY FileType DEF Event
  <2>2. file[i].retries \in Nat
    BY FileType, EventAssumption
  <2> QED BY <1>0, <1>1, <2>1, <2>2
<1>3. \A i \in DOMAIN file' : Own(file'[i], attempts')
  <2>0. Own(Garbage, attempts')
    BY DEF Garbage, Line
  <2>1. ASSUME NEW e \in waiting, AppendRecord(e) \/ AppendFails(e)
        PROVE  \A i \in DOMAIN file' : Own(file'[i], attempts')
    <3>1. Line(e, 0) \in Lines /\ Garbage \in Lines /\ e \in Event
      BY EventAssumption DEF TypeOK, Lines, Line, Garbage, Event
    <3>2. Own(Line(e, 0), attempts')
      BY <1>1, <3>1 DEF Line
    <3>3. file' = file \/ file' = Extended(Garbage) \/ file' = Extended(Line(e, 0))
      BY <2>1 DEF AppendRecord, AppendFails, fileVars, Extended
    <3>4. ASSUME NEW i \in DOMAIN file'
          PROVE  \/ i \in DOMAIN file /\ file'[i] = file[i]
                 \/ file'[i] = Garbage \/ file'[i] = Line(e, 0)
      <4>1. CASE file' = file
        BY <4>1
      <4>2. CASE file' = Extended(Garbage)
        BY <3>1, <4>2, ExtendedFile
      <4>3. CASE file' = Extended(Line(e, 0))
        BY <3>1, <4>3, ExtendedFile
      <4> QED BY <3>3, <4>1, <4>2, <4>3
    <3> HIDE DEF Own
    <3> QED BY <1>2, <2>0, <3>2, <3>4
  <2>2. CASE FlushFails
    <3>1. AtLine /\ cursor \in DOMAIN file /\ file[cursor] \in Lines
      BY <2>2, CursorLine DEF FlushFails, FailedAtLine
    <3>2. /\ Charged(file[cursor]) \in Lines /\ Charged(file[cursor]).id = file[cursor].id
          /\ Charged(file[cursor]).retries = file[cursor].retries + 1
          /\ file[cursor].id \in Event
      BY <2>2, <3>1, ChargedLine, ParsedLine DEF FlushFails, FailedAtLine, Sendable
    <3>3. file' = <<Charged(file[cursor])>> \o RestOfFile
      BY <2>2 DEF FlushFails, FlushLeaves
    <3>7. PICK g : Rewrites(g, Charged(file[cursor]), file')
      BY <3>1, <3>2, <3>3, RewrittenFile
    <3>4. /\ g \in [1..Len(file') -> cursor..Len(file)]
          /\ file' \in Seq(Lines) /\ file'[1] = Charged(file[cursor])
          /\ \A i \in 2..Len(file') : file'[i] = file[g[i]]
      BY <3>7 DEF Rewrites
    <3>5. Own(Charged(file[cursor]), attempts')
      <4>1. attempts'[file[cursor].id] = attempts[file[cursor].id] + 1
        BY <2>2, AttemptsGrow
      <4>2. file[cursor].retries \in Nat /\ attempts[file[cursor].id] \in Nat
        BY <1>0, <3>1, <3>2, FileType, EventAssumption
      <4>3. file[cursor].retries <= attempts[file[cursor].id]
        BY <1>0, <3>1, <3>2 DEF Event
      <4> QED BY <3>2, <4>1, <4>2, <4>3
    <3>6. \A i \in DOMAIN file' : i = 1 \/ (i \in 2..Len(file') /\ g[i] \in DOMAIN file)
      BY <3>1, <3>4, FileType
    <3> HIDE DEF Own
    <3> QED BY <1>2, <3>4, <3>5, <3>6
  <2>3. CASE FlushEnds
    BY <2>3 DEF FlushEnds
  <2>4. CASE file' = file
    BY <1>2, <2>4
  <2> QED BY <2>1, <2>2, <2>3, <2>4, FileFrame
<1>4. GivenUpOnlyAfterRetries'
  <2>1. \A e \in expired : attempts'[e] >= MaxRetries
    BY <1>0, <1>1, EventAssumption DEF RetriesInv, GivenUpOnlyAfterRetries
  <2>2. ASSUME FlushSkips, file[cursor].id # 0
        PROVE  attempts'[file[cursor].id] >= MaxRetries
    <3>1. cursor \in DOMAIN file
      BY <2>2, CursorLine DEF FlushSkips
    <3>2. Exhausted(file[cursor])
      BY <2>2 DEF FlushSkips, Parses, Garbage, Line
    <3>3. /\ file[cursor].retries \in Nat /\ file[cursor].retries >= MaxRetries
          /\ file[cursor].id \in Event
      BY <2>2, <3>1, <3>2, FileType, EventAssumption DEF Exhausted, Event
    <3>4. file[cursor].retries <= attempts'[file[cursor].id]
      BY <1>2, <2>2, <3>1
    <3> QED BY <1>1, <3>3, <3>4, EventAssumption
  <2>3. expired' = expired \/ (FlushSkips /\ expired' = expired \cup IdsOf(<<file[cursor]>>))
    BY CountFrame DEF FlushSkips
  <2>4. IdsOf(<<file[cursor]>>) = {file[cursor].id} \ {0}
    BY DEF IdsOf
  <2> QED BY <2>1, <2>2, <2>3, <2>4 DEF GivenUpOnlyAfterRetries
<1> QED BY <1>3, <1>4 DEF RetriesInv

---------------------------------------------------------------------------
(* The action property *)

\* What the file held, a flush leaves in it or has settled.
LEMMA FlushStepKeeps ==
    ASSUME TypeOK, LockInv, FlushedInv, [Next]_vars, lock = "flush"
    PROVE  IdsOf(file) \subseteq IdsOf(file') \cup Settled'
<1>0. Settled \subseteq Settled'
  BY SettledGrows
<1> SUFFICES ASSUME NEW i \in DOMAIN file, file[i].id # 0
             PROVE  file[i].id \in IdsOf(file') \cup Settled'
  BY DEF IdsOf
<1>1. CASE file' = file
  BY <1>1 DEF IdsOf
<1>2. CASE FlushFails
  <2>1. AtLine /\ cursor \in DOMAIN file /\ file[cursor] \in Lines
    BY <1>2, CursorLine DEF FlushFails, FailedAtLine
  <2>2. /\ Charged(file[cursor]) \in Lines /\ Charged(file[cursor]).id = file[cursor].id
    BY <1>2, <2>1, ChargedLine DEF FlushFails, FailedAtLine, Sendable
  <2>3. file' = <<Charged(file[cursor])>> \o RestOfFile
    BY <1>2 DEF FlushFails, FlushLeaves
  <2>12. PICK g : Rewrites(g, Charged(file[cursor]), file')
    BY <2>1, <2>2, <2>3, RewrittenFile
  <2>4. /\ file' \in Seq(Lines) /\ Len(file') > 0
        /\ file'[1] = Charged(file[cursor])
        /\ \A n \in 2..Len(file') : file'[n] = file[g[n]]
        /\ \A n \in cursor + 1 .. Len(file) : Parses(file[n]) =>
             \E k \in 2..Len(file') : g[k] = n
    BY <2>12 DEF Rewrites
  <2>5. CASE i < cursor
    BY <1>0, <2>5 DEF FlushedInv
  <2>6. CASE i = cursor
    <3>1. 1 \in DOMAIN file'
      BY <2>4
    <3> QED BY <2>2, <2>4, <2>6, <3>1 DEF IdsOf
  <2>7. CASE i > cursor
    <3>1. i \in cursor + 1 .. Len(file)
      BY <2>1, <2>7, FileType
    <3>2. Parses(file[i])
      BY DEF Parses, Garbage, Line
    <3>3. PICK k \in 2..Len(file') : g[k] = i
      BY <2>4, <3>1, <3>2
    <3>4. k \in DOMAIN file' /\ file'[k] = file[i]
      BY <2>4, <3>3
    <3> QED BY <3>4 DEF IdsOf
  <2> QED BY <2>1, <2>5, <2>6, <2>7, FileType
<1>3. CASE FlushEnds
  <2>1. i < cursor
    BY <1>3, FileType DEF FlushEnds, TypeOK
  <2> QED BY <1>0, <2>1 DEF FlushedInv
<1> QED BY <1>1, <1>2, <1>3, FileFrame DEF AppendRecord, AppendFails

---------------------------------------------------------------------------
(* While nothing has failed *)

\* The conjuncts that hold as long as there was no restart and no fault of the file.
Account ==
    /\ openLine => lock = "append"
    /\ \A i \in DOMAIN file : file[i].id \in 1..detected
    /\ \A i, j \in DOMAIN file : file[i].id = file[j].id => i = j
    /\ Sent \subseteq 1..detected /\ waiting \cap Sent = {}
    /\ 1..detected \subseteq waiting \cup IdsOf(file) \cup Settled
    /\ Once(received) /\ Once(chan) /\ Elements(chan) \cap Elements(received) = {}
    /\ \A i \in DOMAIN file : i >= cursor => file[i].id \notin Sent \cup waiting

LEMMA AccountMeans ==
    (CleanInv /\ EventAccountedFor /\ EventSentOnce) <=> (restarts = 0 /\ faults = 0 => Account)
<1>1. CASE restarts = 0 /\ faults = 0
  BY <1>1 DEF CleanInv, EventAccountedFor, EventSentOnce, Account, Settled
<1>2. CASE ~(restarts = 0 /\ faults = 0)
  BY <1>2 DEF CleanInv, EventAccountedFor, EventSentOnce
<1> QED BY <1>1, <1>2

\* A state without restarts and faults was reached without them.
LEMMA CleanFrame ==
    ASSUME TypeOK, [Next]_vars, restarts' = 0, faults' = 0
    PROVE  /\ restarts = 0 /\ faults = 0
           /\ ~Restart /\ ~FlushCannotStore /\ ~FlushCannotRead /\ ~AppendAborts
           /\ \A e \in waiting : ~AppendFails(e)
<1>0. restarts \in Nat /\ faults \in Nat
  BY EventAssumption DEF TypeOK
<1>1. ~Restart
  BY <1>0 DEF Restart
<1>2. ~FileFault
  BY <1>0 DEF FileFault
<1>3. /\ ~FlushCannotStore /\ ~FlushCannotRead /\ ~AppendAborts
      /\ \A e \in waiting : ~AppendFails(e)
  BY <1>2 DEF FlushCannotStore, FlushCannotRead, AppendAborts, AppendFails
<1>4. restarts' = restarts /\ faults' = faults
  <2> USE DEF rest
  <2>1. CASE EventSent \/ EventBuffered \/ AppendNewline \/ MonitorKicks
    BY <2>1 DEF EventSent, EventBuffered, AppendNewline, MonitorKicks
  <2>2. CASE \E e \in waiting : AppendRecord(e)
    BY <2>2 DEF AppendRecord
  <2>3. CASE FlushChecks \/ FlushStarts \/ FlushSkips \/ FlushSends
    BY <2>3 DEF FlushChecks, FlushStarts, FlushSkips, FlushSends
  <2>4. CASE FlushFails \/ FlushEnds \/ Connect \/ Disconnect
    BY <2>4 DEF FlushFails, FlushLeaves, FlushEnds, Connect, Disconnect
  <2>5. CASE EventLost \/ ServerReceives \/ UNCHANGED vars
    BY <2>5 DEF EventLost, ServerReceives, vars
  <2> QED BY <1>1, <1>3, <2>1, <2>2, <2>3, <2>4, <2>5 DEF Next, Flush
<1> QED BY <1>1, <1>3, <1>4

\* A new event is sent or put aside.
LEMMA AccountDetected ==
    ASSUME TypeOK, LockInv, Account, EventSent \/ EventBuffered
    PROVE  Account'
<1>0. /\ detected \in Nat /\ detected + 1 \in Event /\ chan \in Seq(Event)
      /\ waiting \subseteq 1..detected
      /\ 1..detected \subseteq 1..(detected + 1) /\ detected + 1 \notin 1..detected
  BY EventAssumption DEF TypeOK, Event, EventSent, EventBuffered
<1>1. /\ detected' = detected + 1 /\ file' = file /\ cursor' = cursor /\ openLine' = openLine
      /\ lock' = lock /\ received' = received /\ lost' = lost /\ expired' = expired
  BY DEF EventSent, EventBuffered, fileVars, lockVars, ghostVars
<1>2. \A i \in DOMAIN file : file[i].id # detected + 1
  BY <1>0 DEF Account
<1>3. \A k \in 1..(detected + 1) : k \in 1..detected \/ k = detected + 1
  BY <1>0
<1>4. CASE EventSent
  <2>1. waiting' = waiting /\ chan' = Append(chan, detected + 1)
    BY <1>4 DEF EventSent, Put
  <2>2. detected + 1 \notin Elements(chan) /\ detected + 1 \notin Elements(received)
    BY <1>0 DEF Account, Sent
  <2>3. Elements(chan') = Elements(chan) \cup {detected + 1}
    BY <1>0, <2>1, ElementsAppend
  <2>4. Once(chan')
    BY <1>0, <2>1, <2>2, OnceAppend DEF Account
  <2>5. Sent' = Sent \cup {detected + 1}
    BY <1>1, <2>3 DEF Sent
  <2>6. (Sent \subseteq 1..detected /\ waiting \cap Sent = {})'
    BY <1>0, <1>1, <2>1, <2>5 DEF Account
  <2>7. (1..detected \subseteq waiting \cup IdsOf(file) \cup Settled)'
    BY <1>1, <1>3, <2>1, <2>5 DEF Account, Settled
  <2> QED BY <1>0, <1>1, <1>2, <2>1, <2>2, <2>3, <2>4, <2>5, <2>6, <2>7 DEF Account
<1>5. CASE EventBuffered
  <2>1. waiting' = waiting \cup {detected + 1} /\ chan' = chan
    BY <1>5 DEF EventBuffered, channelVars
  <2>2. Sent' = Sent /\ Settled' = Settled
    BY <1>1, <2>1 DEF Sent, Settled
  <2>3. (Sent \subseteq 1..detected /\ waiting \cap Sent = {})'
    BY <1>0, <1>1, <2>1, <2>2 DEF Account
  <2>4. (1..detected \subseteq waiting \cup IdsOf(file) \cup Settled)'
    BY <1>1, <1>3, <2>1, <2>2 DEF Account
  <2> QED BY <1>0, <1>1, <1>2, <2>1, <2>2, <2>3, <2>4 DEF Account
<1> QED BY <1>4, <1>5

\* An append moves an event from the waiting ones to the end of the file.
LEMMA AccountAppended ==
    ASSUME TypeOK, LockInv, Account, NEW e \in waiting, AppendRecord(e)
    PROVE  Account'
<1>0. /\ lock = "free" /\ ~openLine /\ cursor = 0 /\ e \in 1..detected /\ e # 0
      /\ openLine' /\ lock' = "append" /\ cursor' = 0 /\ detected' = detected
      /\ waiting' = waiting \ {e} /\ chan' = chan /\ received' = received
      /\ lost' = lost /\ expired' = expired
  BY DEF AppendRecord, Account, LockInv, TypeOK, channelVars, ghostVars
<1>1. Sent' = Sent /\ Settled' = Settled
  BY <1>0 DEF Sent, Settled
<1>2. Line(e, 0) \in Lines /\ Line(e, 0).id = e
  BY EventAssumption DEF TypeOK, Lines, Line
<1>3. file' = Extended(Line(e, 0))
  BY DEF AppendRecord, Extended
<1>4. PICK l \in Nat : l = Len(file)
  BY FileType
<1>5. /\ DOMAIN file = 1..l /\ DOMAIN file' = 1..(l + 1)
      /\ \A i \in 1..l : file'[i] = file[i]
      /\ file'[l + 1].id = e
  <2>1. /\ file' \in Seq(Lines) /\ Len(file') = l + 1 /\ file'[l + 1] = Line(e, 0)
        /\ \A i \in DOMAIN file : file'[i] = file[i]
    BY <1>0, <1>2, <1>3, <1>4, ExtendedFile
  <2>2. DOMAIN file' = 1..(l + 1) /\ DOMAIN file = 1..l
    BY <1>4, <2>1, FileType
  <2> QED BY <1>2, <2>1, <2>2
<1>6. \A i \in 1..l : /\ file[i].id \in 1..detected /\ file[i].id # e
                      /\ file[i].id \notin Sent \cup waiting
  BY <1>0, <1>5 DEF Account
<1>7. \A i \in 1..(l + 1) : i \in 1..l \/ i = l + 1
  OBVIOUS
<1>8. (\A i \in DOMAIN file : file[i].id \in 1..detected)'
  BY <1>0, <1>5, <1>6, <1>7
<1>9. (\A i, j \in DOMAIN file : file[i].id = file[j].id => i = j)'
  <2>1. \A i, j \in 1..l : file[i].id = file[j].id => i = j
    BY <1>5 DEF Account
  <2> QED BY <1>5, <1>6, <1>7, <2>1
<1>10. e \notin Sent
  BY DEF Account
<1>11. (\A i \in DOMAIN file : i >= cursor => file[i].id \notin Sent \cup waiting)'
  BY <1>0, <1>1, <1>5, <1>6, <1>7, <1>10
<1>12. IdsOf(file) \cup {e} \subseteq IdsOf(file')
  <2>1. e \in IdsOf(file')
    BY <1>0, <1>5 DEF IdsOf
  <2>2. IdsOf(file) \subseteq IdsOf(file')
    BY <1>5 DEF IdsOf
  <2> QED BY <2>1, <2>2
<1>13. (1..detected \subseteq waiting \cup IdsOf(file) \cup Settled)'
  BY <1>0, <1>1, <1>12 DEF Account
<1> QED BY <1>0, <1>1, <1>8, <1>9, <1>11, <1>13 DEF Account

\* A flush that begins, or passes over a line.
LEMMA AccountPassed ==
    ASSUME TypeOK, LockInv, Account, FlushStarts \/ FlushSkips
    PROVE  Account'
<1>0. /\ detected' = detected /\ waiting' = waiting /\ chan' = chan /\ received' = received
      /\ file' = file /\ openLine' = openLine /\ lost' = lost
      /\ expired \subseteq expired'
  BY DEF FlushStarts, FlushSkips, channelVars, fileVars, ghostVars
<1>1. openLine => FALSE
  BY DEF FlushStarts, FlushSkips, AtLine, Account
<1>2. \A i \in DOMAIN file : i >= cursor' => i >= cursor
  <2>1. CASE FlushStarts
    <3>1. cursor = 0
      BY <2>1 DEF FlushStarts, LockInv, TypeOK
    <3> QED BY <3>1, FileType
  <2>2. CASE FlushSkips
    <3>1. cursor' = cursor + 1 /\ cursor \in Nat
      BY <2>2, CursorLine DEF FlushSkips
    <3> QED BY <3>1, FileType
  <2> QED BY <2>1, <2>2
<1>3. Sent' = Sent /\ Settled \subseteq Settled'
  BY <1>0 DEF Sent, Settled
<1> QED BY <1>0, <1>1, <1>2, <1>3 DEF Account

\* A flush sends the line under the cursor.
LEMMA AccountFlushed ==
    ASSUME TypeOK, LockInv, Account, FlushSends
    PROVE  Account'
<1>0. /\ detected' = detected /\ waiting' = waiting /\ received' = received
      /\ file' = file /\ openLine' = openLine /\ lock' = lock /\ lost' = lost
      /\ expired' = expired
      /\ cursor' = cursor + 1 /\ chan' = Append(chan, file[cursor].id)
  BY DEF FlushSends, Put, fileVars, ghostVars
<1>1. cursor \in DOMAIN file /\ cursor \in Nat
  BY CursorLine DEF FlushSends
<1>2. PICK e \in Event : e = file[cursor].id
  BY <1>1, ParsedLine DEF FlushSends, Sendable
<1>3. chan \in Seq(Event)
  BY DEF TypeOK
<1>4. e \in 1..detected /\ e \notin Sent /\ e \notin waiting
  BY <1>1, <1>2 DEF Account
<1>5. Elements(chan') = Elements(chan) \cup {e}
  BY <1>0, <1>2, <1>3, ElementsAppend
<1>6. Once(chan') /\ Elements(chan') \cap Elements(received') = {}
  <2>1. e \notin Elements(chan) /\ e \notin Elements(received)
    BY <1>4 DEF Sent
  <2> QED BY <1>0, <1>2, <1>3, <1>5, <2>1, OnceAppend DEF Account
<1>7. Sent' = Sent \cup {e}
  BY <1>0, <1>5 DEF Sent
<1>8. Settled \subseteq Settled'
  BY <1>0, <1>7 DEF Settled
<1>9. (\A i \in DOMAIN file : i >= cursor => file[i].id \notin Sent \cup waiting)'
  <2>1. \A i \in DOMAIN file : i >= cursor + 1 => i >= cursor /\ i # cursor
    BY <1>1, FileType
  <2>2. \A i \in DOMAIN file : i # cursor => file[i].id # e
    BY <1>1, <1>2 DEF Account
  <2> QED BY <1>0, <1>7, <2>1, <2>2 DEF Account
<1>10. (Sent \subseteq 1..detected /\ waiting \cap Sent = {})'
  BY <1>0, <1>4, <1>7 DEF Account
<1> QED BY <1>0, <1>6, <1>8, <1>9, <1>10 DEF Account

\* A flush that fails leaves the unsent lines, one that ends leaves nothing.
LEMMA AccountRewritten ==
    ASSUME TypeOK, LockInv, FlushedInv, Account, [Next]_vars, FlushFails \/ FlushEnds
    PROVE  Account'
<1>0. /\ detected' = detected /\ waiting' = waiting /\ chan' = chan /\ received' = received
      /\ openLine' = FALSE /\ lost' = lost /\ expired' = expired /\ cursor' = 0
      /\ lock = "flush"
  BY DEF FlushFails, FlushLeaves, FlushEnds, FailedAtLine, AtLine, channelVars, ghostVars
<1>1. Sent' = Sent /\ Settled' = Settled
  BY <1>0 DEF Sent, Settled
<1>2. (1..detected \subseteq waiting \cup IdsOf(file) \cup Settled)'
  <2>1. IdsOf(file) \subseteq IdsOf(file') \cup Settled'
    BY <1>0, FlushStepKeeps
  <2> QED BY <1>0, <1>1, <2>1 DEF Account
<1>3. CASE FlushEnds
  <2>1. file' = <<>>
    BY <1>3 DEF FlushEnds
  <2>2. DOMAIN file' = {}
    BY <2>1
  <2> QED BY <1>0, <1>1, <1>2, <2>2 DEF Account
<1>4. CASE FlushFails
  <2>1. AtLine /\ cursor \in DOMAIN file /\ cursor \in Nat /\ file[cursor] \in Lines
    BY <1>4, CursorLine DEF FlushFails, FailedAtLine
  <2>2. Charged(file[cursor]) \in Lines /\ Charged(file[cursor]).id = file[cursor].id
    BY <1>4, <2>1, ChargedLine DEF FlushFails, FailedAtLine, Sendable
  <2>3. file' = <<Charged(file[cursor])>> \o RestOfFile
    BY <1>4 DEF FlushFails, FlushLeaves
  <2>12. PICK g : Rewrites(g, Charged(file[cursor]), file')
    BY <2>1, <2>2, <2>3, RewrittenFile
  <2>4. /\ file' \in Seq(Lines) /\ Len(file') > 0
        /\ file'[1] = Charged(file[cursor])
        /\ g \in [1..Len(file') -> cursor..Len(file)] /\ g[1] = cursor
        /\ \A n \in 2..Len(file') : file'[n] = file[g[n]]
        /\ \A i, j \in 1..Len(file') : i < j => g[i] < g[j]
    BY <2>12 DEF Rewrites
  <2>5. PICK l \in Nat : l = Len(file')
    BY <2>4
  <2>13. /\ DOMAIN file' = 1..l
         /\ \A i \in 1..l : i = 1 \/ i \in 2..l
    BY <2>4, <2>5
  <2>14. \A i \in 1..l : g[i] \in cursor..Len(file)
    BY <2>4, <2>5
  <2>15. \A k \in cursor..Len(file) : k \in DOMAIN file /\ k >= cursor /\ k \in Nat
    BY <2>1, FileType
  <2>6. /\ DOMAIN file' = 1..l
        /\ \A i \in 1..l : /\ g[i] \in DOMAIN file /\ g[i] >= cursor
                           /\ g[i] \in Nat /\ (i = 1 \/ i \in 2..l)
    BY <2>13, <2>14, <2>15
  <2>7. \A i \in 1..l : file'[i].id = file[g[i]].id
    BY <2>2, <2>4, <2>5, <2>6
  <2>8. \A i, j \in 1..l : g[i] = g[j] => i = j
    BY <2>4, <2>5, <2>6
  <2>9. (\A i \in DOMAIN file : file[i].id \in 1..detected)'
    BY <1>0, <2>6, <2>7 DEF Account
  <2>10. (\A i, j \in DOMAIN file : file[i].id = file[j].id => i = j)'
    BY <2>6, <2>7, <2>8 DEF Account
  <2>11. (\A i \in DOMAIN file : i >= cursor => file[i].id \notin Sent \cup waiting)'
    BY <1>0, <1>1, <2>6, <2>7 DEF Account
  <2> QED BY <1>0, <1>1, <1>2, <2>9, <2>10, <2>11 DEF Account
<1> QED BY <1>3, <1>4

\* The channel loses an event or the server receives it.
LEMMA AccountMoved ==
    ASSUME TypeOK, Account, EventLost \/ ServerReceives
    PROVE  Account'
<1>0. /\ detected' = detected /\ waiting' = waiting /\ file' = file /\ openLine' = openLine
      /\ lock' = lock /\ cursor' = cursor /\ expired' = expired
      /\ chan' = Tail(chan) /\ chan # <<>>
  BY DEF EventLost, ServerReceives, Lose, Deliver, rest, fileVars, lockVars
<1>1. PICK e \in Event : e = Head(chan)
  BY <1>0, ElementsTail DEF TypeOK
<1>2. /\ Elements(chan) = {e} \cup Elements(chan')
      /\ Once(chan') /\ e \notin Elements(chan')
  BY <1>0, <1>1, ElementsTail, OnceTail DEF TypeOK, Account
<1>3. e \notin Elements(received) /\ e \in Sent
  BY <1>2 DEF Account, Sent
<1>4. CASE EventLost
  <2>1. lost' = lost \cup {e} /\ received' = received
    BY <1>1, <1>4 DEF EventLost
  <2>2. Sent' \subseteq Sent /\ Settled' = Settled
    BY <1>0, <1>2, <2>1 DEF Sent, Settled
  <2>3. Once(received') /\ Elements(chan') \cap Elements(received') = {}
    BY <1>2, <2>1 DEF Account
  <2> QED BY <1>0, <1>2, <2>2, <2>3 DEF Account
<1>5. CASE ServerReceives
  <2>1. lost' = lost /\ received' = Append(received, e)
    BY <1>1, <1>5 DEF ServerReceives
  <2>2. Elements(received') = Elements(received) \cup {e}
    BY <2>1, ElementsAppend DEF TypeOK
  <2>3. Once(received')
    BY <1>3, <2>1, OnceAppend DEF TypeOK, Account
  <2>4. Elements(chan') \cap Elements(received') = {}
    BY <1>2, <2>2 DEF Account
  <2>5. Sent' = Sent /\ Settled' = Settled
    BY <1>0, <1>2, <2>1, <2>2 DEF Sent, Settled
  <2> QED BY <1>0, <1>2, <2>3, <2>4, <2>5 DEF Account
<1> QED BY <1>4, <1>5

LEMMA AccountStep ==
    ASSUME TypeOK, LockInv, FlushedInv, restarts = 0 /\ faults = 0 => Account, [Next]_vars,
           restarts' = 0, faults' = 0
    PROVE  Account'
<1>1. /\ Account
      /\ ~Restart /\ ~FlushCannotStore /\ ~FlushCannotRead /\ ~AppendAborts
      /\ \A e \in waiting : ~AppendFails(e)
  BY CleanFrame
<1>2. CASE AppendNewline
  <2>1. /\ openLine' = FALSE
        /\ UNCHANGED <<detected, waiting, file, cursor, chan, received, lost, expired>>
    BY <1>2 DEF AppendNewline, channelVars
  <2>2. Sent' = Sent /\ Settled' = Settled
    BY <2>1 DEF Sent, Settled
  <2> QED BY <1>1, <2>1, <2>2 DEF Account
<1>3. CASE MonitorKicks \/ FlushChecks \/ Connect \/ Disconnect \/ UNCHANGED vars
  <2>1. UNCHANGED <<detected, waiting, file, openLine, lock, cursor, chan, received, lost,
                    expired>>
    BY <1>3 DEF MonitorKicks, FlushChecks, Connect, ChannelOpens, Disconnect, ChannelCloses,
                vars, channelVars, fileVars, lockVars, ghostVars, rest
  <2>2. Sent' = Sent /\ Settled' = Settled
    BY <2>1 DEF Sent, Settled
  <2> QED BY <1>1, <2>1, <2>2 DEF Account
<1> QED BY <1>1, <1>2, <1>3, AccountDetected, AccountAppended, AccountPassed, AccountFlushed,
           AccountRewritten, AccountMoved DEF Next, Flush

---------------------------------------------------------------------------
(* Theorems *)

LEMMA IInvInit == Init => IInv
<1> SUFFICES ASSUME Init PROVE IInv
  OBVIOUS
<1> USE DEF Init, ChannelInit
<1>1. TypeOK
  <2>1. /\ file \in Seq(Lines) /\ cursor \in 0..(Len(file) + 1) /\ attempts \in [Event -> Nat]
        /\ chan \in Seq(Event) /\ Len(chan) <= SendCap /\ received \in Seq(Event)
    BY ChannelAssumption
  <2>2. /\ epoch \in 0..MaxEpochs /\ detected \in 0..MaxEvents /\ appending \in 0..MaxEvents
        /\ ready \in 0..MaxFlushes /\ restarts \in 0..MaxRestarts /\ faults \in 0..MaxFaults
    BY EventAssumption
  <2> QED BY <2>1, <2>2, Zenon DEF TypeOK, Lines
<1>2. LockInv /\ FlushedInv
  BY DEF LockInv, FlushedInv
<1>3. RetriesInv
  BY DEF RetriesInv, GivenUpOnlyAfterRetries
<1>4. Account
  <2>1. Sent = {} /\ Elements(chan) = {} /\ 1..detected = {}
    BY DEF Sent, Elements
  <2> QED BY <2>1 DEF Account, Once
<1> QED BY <1>1, <1>2, <1>3, <1>4, AccountMeans DEF IInv

LEMMA IInvStep == IInv /\ [Next]_vars => IInv'
<1> SUFFICES ASSUME IInv, [Next]_vars PROVE IInv'
  OBVIOUS
<1>1. TypeOK' /\ LockInv'
  BY TypeStep, LockStep DEF IInv
<1>2. FlushedInv' /\ RetriesInv'
  BY FlushedStep, RetriesStep DEF IInv
<1>3. (restarts = 0 /\ faults = 0 => Account)'
  BY AccountStep, AccountMeans DEF IInv
<1>4. (CleanInv /\ EventAccountedFor /\ EventSentOnce)'
  BY <1>3, AccountMeans, PTL
<1> QED BY <1>1, <1>2, <1>4 DEF IInv

\* Every variable of event delivery keeps its type; in particular the cursor of a flush
\* never leaves the file and no line carries more retries than the limit.
THEOREM TypesAlwaysOK == Spec => []TypeOK
<1>1. IInv => TypeOK
  BY DEF IInv
<1> QED BY IInvInit, IInvStep, <1>1, PTL DEF Spec

\* However many events, retries and connections there are: without restarts and file
\* faults, sendEvent, bufferEvent and flushBufferedEvents never lose an event between them.
THEOREM EventsAccountedFor == Spec => []EventAccountedFor
<1>1. IInv => EventAccountedFor
  BY DEF IInv
<1> QED BY IInvInit, IInvStep, <1>1, PTL DEF Spec

\* Under the same conditions flushBufferedEvents sends no event that was sent before.
THEOREM EventsSentOnce == Spec => []EventSentOnce
<1>1. IInv => EventSentOnce
  BY DEF IInv
<1> QED BY IInvInit, IInvStep, <1>1, PTL DEF Spec

\* Through restarts and file faults as well, an event is given up only after maxRetries
\* failed sends of its own.
THEOREM RetriesAreTheEventsOwn == Spec => []GivenUpOnlyAfterRetries
<1>1. IInv => GivenUpOnlyAfterRetries
  BY DEF IInv, RetriesInv
<1> QED BY IInvInit, IInvStep, <1>1, PTL DEF Spec

\* Whatever fails, a flush removes no event from the file that it has neither sent nor
\* given up.
THEOREM FlushesKeepUnsent == Spec => FlushKeepsUnsent
<1>1. IInv /\ [Next]_vars => [lock = "flush" =>
        IdsOf(file) \subseteq IdsOf(file') \cup Sent' \cup lost' \cup expired']_vars
  BY FlushStepKeeps DEF IInv, Settled
<1> QED BY IInvInit, IInvStep, <1>1, PTL DEF Spec, FlushKeepsUnsent
=============================================================================
