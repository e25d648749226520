----------------------------- MODULE SlaveProofs -----------------------------
(***************************************************************************)
(* Theorems about the slave process, for every binlog, every size of the   *)
(* ring and of the batches, and any number of lost connections and stops.  *)
(***************************************************************************)
EXTENDS Slave, SequenceTheorems, FiniteSetTheorems, TLAPS

Commands == CommandsUpTo(N)

-----------------------------------------------------------------------------
(* The data.                                                               *)

\* The constants one by one.
LEMMA Constants ==
  /\ N \in Nat /\ Num \in Nat /\ CommitNum \in Nat /\ SaveNum \in Nat
  /\ N > 0 /\ Num > 0 /\ CommitNum > 0 /\ SaveNum > 0
  /\ MaxBreaks \in Nat /\ MaxStops \in Nat
  /\ \A e \in Events : e \in Nat /\ 1 <= e /\ e <= N /\ Cmds[e] \in Nat
BY SlaveAssumption DEF Events

\* What a handler appends with rs_redis_append_command() are commands of its
\* event, as many as it adds to cmdn.
LEMMA CommandsOfEvent ==
  ASSUME NEW e \in Events
  PROVE  CommandsOf(e) \in Seq(Commands) /\ Len(CommandsOf(e)) = Cmds[e]
<1>1. Cmds[e] \in Nat
  BY SlaveAssumption
<1>2. CommandsOf(e) \in Seq(Range(CommandsOf(e))) /\ Len(CommandsOf(e)) = Cmds[e]
  <2>1. CommandsOf(e) \in [1 .. Cmds[e] -> Range(CommandsOf(e))]
    BY DEF CommandsOf, Range
  <2>2. QED
    BY <1>1, <2>1
<1>3. Range(CommandsOf(e)) \subseteq Commands
  BY DEF Commands, CommandsUpTo, Events
<1>4. QED
  BY <1>2, <1>3, SeqMonotonic

\* A command names its event.
LEMMA EventOfCommand == \A c \in Commands : c[1] \in Events
<1> SUFFICES ASSUME NEW c \in Commands PROVE c[1] \in Events
  OBVIOUS
<1>1. PICK e \in Events : c \in Range(CommandsOf(e))
  BY DEF Commands, CommandsUpTo, Events
<1>2. PICK j \in 1 .. Cmds[e] : c = <<e, j>>
  BY <1>1 DEF CommandsOf, Range
<1>3. QED
  BY <1>2

\* Redis holds, for each key, the event that set it.
LEMMA ExecutedType ==
  ASSUME db \in [Keys -> 0 .. N], NEW s \in Seq(Commands)
  PROVE  Executed(s) \in [Keys -> 0 .. N]
<1> SUFFICES ASSUME NEW k \in Keys PROVE Executed(s)[k] \in 0 .. N
  BY DEF Executed
<1> DEFINE last == {i \in 1 .. Len(s) : /\ Key[s[i][1]] = k
                                        /\ \A j \in i + 1 .. Len(s) : Key[s[j][1]] # k}
<1>1. Executed(s)[k] = IF last = {} THEN db[k] ELSE s[CHOOSE i \in last : TRUE][1]
  BY DEF Executed
<1>2. CASE last = {}
  BY <1>1, <1>2
<1>3. CASE last # {}
  <2>1. PICK i \in last : i = CHOOSE j \in last : TRUE
    BY <1>3
  <2>2. s[i] \in Commands
    BY <2>1, ElementOfSeq
  <2>3. s[i][1] \in 0 .. N
    <3>1. s[i][1] \in Events
      BY <2>2, EventOfCommand
    <3>2. \A e \in Events : e \in 0 .. N
      BY Constants DEF Events
    <3>3. QED
      BY <3>1, <3>2
  <2>4. QED
    BY <1>1, <1>3, <2>1, <2>3
<1>4. QED
  BY <1>2, <1>3

\* The maximum of two numbers.
LEMMA MaxOfTwo ==
  ASSUME NEW a \in Nat, NEW b \in Nat
  PROVE  Max({a, b}) = IF a >= b THEN a ELSE b
<1>1. Max({a, b}) \in {a, b} /\ \A y \in {a, b} : Max({a, b}) >= y
  <2> DEFINE m == IF a >= b THEN a ELSE b
  <2>1. m \in {a, b} /\ \A y \in {a, b} : m >= y
    OBVIOUS
  <2>2. QED
    BY <2>1 DEF Max
<1>2. QED
  BY <1>1

-----------------------------------------------------------------------------
(* Types.  Beside TypeOK: a record that is being handled is at the head of *)
(* the ring, and cur_binlog_save passes binlog.save only between the       *)
(* record that makes it do so and the flush that follows.                  *)

Handling == {"nul", "dml", "commit", "flush"}
Taken    == {"nul", "dml", "commit", "flush", "cut", "advance"}

AtHead  == rpc \in Taken \cup {"take"} => ring # << >>
SaveDue == rpc \notin Handling => curSave <= SaveNum

Typed == TypeOK /\ AtHead /\ SaveDue

\* A slave that starts without slave.info.
LEMMA TypedInit == Init => Typed
<1> SUFFICES ASSUME Init PROVE Typed
  OBVIOUS
<1>1. ring \in Seq(Events) /\ Len(ring) <= Num
  BY Constants, EmptySeq DEF Init
<1>2. obuf \in Seq(Commands) /\ wire \in Seq(Commands)
  BY EmptySeq DEF Init
<1>3. db \in [Keys -> 0 .. N]
  BY Constants DEF Init
<1>4. due \in BOOLEAN /\ torn \in BOOLEAN /\ tail \in BOOLEAN
  BY DEF Init
<1>5. /\ next \in 0 .. N + 1 /\ dumpInfo \in 0 .. N /\ info \in 0 .. N
      /\ maxSeen \in 0 .. N /\ cmdn \in Nat /\ curSave \in 0 .. SaveNum + 1
      /\ curSave <= SaveNum
      /\ breaks \in 0 .. MaxBreaks /\ stops \in 0 .. MaxStops
  BY Constants DEF Init
<1>6. rpc = "get" /\ applied \subseteq Commands
  BY DEF Init
<1>7. QED
  BY <1>1, <1>2, <1>3, <1>4, <1>5, <1>6
     DEF Typed, TypeOK, AtHead, SaveDue, Handling, Taken, Commands

\* Both threads, the clock and the process keep the types.
LEMMA TypedStep == Typed /\ [Next]_vars => Typed'
<1> SUFFICES ASSUME Typed, [Next]_vars PROVE Typed'
  OBVIOUS
<1> USE Constants DEF Typed, TypeOK, AtHead, SaveDue, Handling, Taken
<1>1. CASE Connect
  BY <1>1 DEF Connect, redisVars, diskVars, history
<1>2. CASE ConnectTorn
  BY <1>2 DEF ConnectTorn, redisVars, diskVars
<1>3. CASE Recv
  <2>1. /\ ring' \in Seq(Events) /\ ring' # << >> /\ Len(ring') = Len(ring) + 1
    <3>1. ring \in Seq(Events) /\ next \in Events /\ ring' = Append(ring, next)
      BY <1>3 DEF Recv
    <3> HIDE DEF Typed, TypeOK, AtHead, SaveDue, Handling, Taken
    <3>2. QED
      BY <3>1, AppendProperties
  <2>2. Len(ring') <= Num /\ next' \in 0 .. N + 1
    <3>1. Len(ring) \in Nat /\ Len(ring) < Num /\ next' = next + 1 /\ next \in Events
      BY <1>3, LenProperties DEF Recv
    <3>2. QED
      BY <2>1, <3>1 DEF Events
  <2>3. QED
    BY <1>3, <2>1, <2>2 DEF Recv, redisVars, diskVars, history
<1>4. CASE Break
  BY <1>4 DEF Break, redisVars, diskVars, history
<1>5. CASE Get
  BY <1>5 DEF Get, Goto, ioVars, diskVars, history
<1>6. CASE SendOut
  <2>1. wire' \in Seq(Commands) /\ obuf' \in Seq(Commands)
    BY <1>6, ConcatProperties, EmptySeq DEF SendOut, Commands
  <2>2. QED
    BY <1>6, <2>1 DEF SendOut, ioVars, diskVars, history, Commands
<1>7. CASE Reply
  <2>1. wire \in Seq(Commands) /\ wire # << >>
    BY <1>7 DEF Reply, Commands
  <2>2. Head(wire) \in Commands /\ wire' \in Seq(Commands)
    BY <1>7, <2>1, HeadTailProperties DEF Reply
  <2>3. <<Head(wire)>> \in Seq(Commands)
    BY <2>2
  <2>4. db' \in [Keys -> 0 .. N]
    BY <1>7, <2>3, ExecutedType DEF Reply
  <2>5. cmdn' \in Nat
    BY <1>7 DEF Reply
  <2>6. QED
    BY <1>7, <2>2, <2>4, <2>5 DEF Reply, ioVars, history, Commands
<1>8. CASE RepliesRead
  BY <1>8 DEF RepliesRead, Goto, ioVars, diskVars, history
<1>9. CASE Spin
  BY <1>9 DEF Spin, Goto, ioVars, diskVars, history
<1>10. CASE Take
  <2>1. Head(ring) \in 0 .. N
    BY <1>10, HeadTailProperties DEF Take
  <2>2. maxSeen' \in 0 .. N
    <3>1. maxSeen \in Nat /\ Head(ring) \in Nat
      BY <2>1
    <3>2. maxSeen' = IF maxSeen >= Head(ring) THEN maxSeen ELSE Head(ring)
      BY <1>10, <3>1, MaxOfTwo DEF Take
    <3>3. QED
      BY <2>1, <3>2
  <2>3. QED
    BY <1>10, <2>1, <2>2 DEF Take, Goto, ioVars, diskVars
<1>11. CASE TakeEnd
  BY <1>11 DEF TakeEnd, Goto, ioVars, diskVars, history
<1>12. CASE Dml
  <2>1. Head(ring) \in Events
    BY <1>12, HeadTailProperties DEF Dml
  <2>2. obuf' \in Seq(Commands)
    BY <1>12, <2>1, CommandsOfEvent, ConcatProperties DEF Dml, Commands
  <2>3. cmdn' \in Nat
    BY <1>12, <2>1 DEF Dml
  <2>4. QED
    BY <1>12, <2>2, <2>3 DEF Dml, Goto, ioVars, diskVars, history, Commands
<1>13. CASE Flush
  <2>1. /\ curSave' \in 0 .. SaveNum /\ due' \in BOOLEAN /\ info' \in 0 .. N
        /\ tail' \in BOOLEAN
    <3>1. CASE curSave >= SaveNum \/ due
      <4>1. /\ info' = dumpInfo /\ tail' = (Width[dumpInfo] < Width[info])
            /\ curSave' = 1 /\ due' = FALSE
        BY <1>13, <3>1, Zenon DEF Flush
      <4>2. due' \in BOOLEAN
        BY <4>1, Zenon
      <4>3. tail' \in BOOLEAN
        BY <4>1
      <4>4. curSave' \in 0 .. SaveNum /\ info' \in 0 .. N
        BY <4>1
      <4>5. QED
        BY <4>2, <4>3, <4>4, Zenon
    <3>2. CASE ~(curSave >= SaveNum \/ due)
      <4>1. UNCHANGED <<info, tail, curSave, due>>
        BY <1>13, <3>2, Zenon DEF Flush
      <4>2. ~(curSave >= SaveNum)
        BY <3>2, Zenon
      <4>3. curSave' \in 0 .. SaveNum
        BY <4>1, <4>2
      <4>4. QED
        BY <4>1, <4>3
    <3>3. QED
      BY <3>1, <3>2
  <2>2. /\ rpc' \in {"advance", "get", "cut", "idleCut"}
        /\ rpc' \in {"advance", "cut"} => rpc = "flush"
    BY <1>13, Zenon DEF Flush, Goto
  <2>3. ring' = ring
    BY <1>13 DEF Flush
  <2>4. QED
    BY <1>13, <2>1, <2>2, <2>3 DEF Flush, ioVars, history
<1>14. CASE Advance
  <2>1. ring' \in Seq(Events) /\ Len(ring') <= Num
    BY <1>14, HeadTailProperties, LenProperties DEF Advance
  <2>2. QED
    BY <1>14, <2>1 DEF Advance, Goto, ioVars, diskVars, history
<1>15. CASE Tick
  BY <1>15 DEF Tick, ioVars, diskVars, history
<1>16. CASE Stop
  <2>1. PICK k \in 0 .. Len(wire) :
          /\ db' = Executed(SubSeq(wire, 1, k))
          /\ applied' = applied \cup Range(SubSeq(wire, 1, k))
    BY <1>16 DEF Stop
  <2>2. SubSeq(wire, 1, k) \in Seq(Commands)
    BY <2>1, SubSeqProperties, ElementOfSeq, LenProperties DEF Commands
  <2>3. db' \in [Keys -> 0 .. N]
    BY <2>1, <2>2, ExecutedType
  <2>4. applied' \subseteq Commands
    BY <2>1, <2>2, RangeOfSeq DEF Commands
  <2>5. QED
    BY <1>16, <2>3, <2>4, EmptySeq DEF Stop, Goto, Commands
<1>17. CASE Start
  BY <1>17 DEF Start, Goto, Up, ioVars, diskVars, history
<1>18. CASE UNCHANGED vars
  BY <1>18 DEF vars, ioVars, redisVars, diskVars, history
<1>19. CASE Truncate
  BY <1>19 DEF Truncate, Goto, ioVars, history
<1>20. CASE StartTorn
  BY <1>20 DEF StartTorn, Goto, Up, ioVars
<1>21. QED
  BY <1>1, <1>2, <1>3, <1>4, <1>5, <1>6, <1>7, <1>8, <1>9, <1>10, <1>11,
     <1>12, <1>13, <1>14, <1>15, <1>16, <1>17, <1>18, <1>19, <1>20
     DEF Next, IoThread, RedisThread

\* So they always hold.
LEMMA TypedAlways == Spec => []Typed
BY TypedInit, TypedStep, PTL DEF Spec

\* The ring never holds more than it has slots, and the counters and positions
\* of the slave stay in their ranges.
THEOREM TypeCorrect == Spec => []TypeOK
BY TypedAlways, PTL DEF Typed

-----------------------------------------------------------------------------
(* The replies.  cmdn counts what was appended and not answered, and what  *)
(* is on the wire was sent by the loop that reads the replies.             *)

\* A new redis context owes no reply.
LEMMA RepliesInit == Init => RepliesCounted
BY EmptySeq DEF Init, RepliesCounted

\* Appending, sending and reading a reply keep the count.
LEMMA RepliesStep == Typed /\ RepliesCounted /\ [Next]_vars => RepliesCounted'
<1> SUFFICES ASSUME Typed, RepliesCounted, [Next]_vars PROVE RepliesCounted'
  OBVIOUS
<1>0. /\ obuf \in Seq(Commands) /\ wire \in Seq(Commands)
      /\ Len(obuf) \in Nat /\ Len(wire) \in Nat
  BY LenProperties DEF Typed, TypeOK, Commands
<1> USE DEF RepliesCounted
<1>1. CASE IoThread \/ Tick \/ UNCHANGED vars
  BY <1>1 DEF IoThread, Connect, ConnectTorn, Recv, Break, Tick, vars, redisVars
<1>2. CASE Get \/ Spin \/ Take \/ TakeEnd \/ Advance \/ Flush \/ Truncate
  BY <1>2 DEF Get, Spin, Take, TakeEnd, Advance, Flush, Truncate, Goto
<1>3. CASE SendOut
  <2>1. Len(wire') = Len(wire) + Len(obuf) /\ Len(obuf') = 0
    BY <1>3, <1>0, ConcatProperties, EmptySeq DEF SendOut
  <2>2. QED
    BY <1>3, <1>0, <2>1 DEF SendOut
<1>4. CASE Reply
  <2>1. Len(wire') = Len(wire) - 1
    BY <1>4, <1>0, HeadTailProperties DEF Reply
  <2>2. QED
    BY <1>4, <1>0, <2>1 DEF Reply
<1>5. CASE RepliesRead
  <2>1. wire = << >>
    BY <1>5, <1>0, EmptySeq DEF RepliesRead
  <2>2. QED
    BY <1>5, <2>1 DEF RepliesRead
<1>6. CASE Dml
  <2>1. Head(ring) \in Events
    BY <1>6, HeadTailProperties DEF Dml, Typed, TypeOK, AtHead, Handling, Taken
  <2>2. Len(obuf') = Len(obuf) + Cmds[Head(ring)] /\ Cmds[Head(ring)] \in Nat
    <3> DEFINE new == CommandsOf(Head(ring))
    <3>1. new \in Seq(Commands) /\ Len(new) = Cmds[Head(ring)]
      BY <2>1, CommandsOfEvent
    <3>2. obuf' = obuf \o new
      BY <1>6 DEF Dml
    <3> HIDE DEF new
    <3>3. Len(obuf') = Len(obuf) + Len(new)
      BY <1>0, <3>1, <3>2, ConcatProperties
    <3>4. QED
      BY <2>1, <3>1, <3>3, Constants
  <2>3. wire' = << >>
    BY <1>6 DEF Dml
  <2>4. QED
    BY <1>6, <1>0, <2>2, <2>3 DEF Dml
<1>7. CASE Stop
  BY <1>7, EmptySeq DEF Stop
<1>8. CASE Start \/ StartTorn
  BY <1>8 DEF Start, StartTorn, Up, Goto
<1>9. QED
  BY <1>1, <1>2, <1>3, <1>4, <1>5, <1>6, <1>7, <1>8 DEF Next, RedisThread

\* The loop of rs_redis_get_replies() reads exactly the replies that are due.
THEOREM RepliesAreExact == Spec => []RepliesCounted
<1>1. Typed /\ RepliesCounted /\ [Next]_vars => RepliesCounted'
  BY RepliesStep
<1>2. QED
  BY <1>1, RepliesInit, TypedAlways, PTL DEF Spec

-----------------------------------------------------------------------------
(* slave.info.                                                             *)

\* The end of an older position is gone when rs_flush_slave_info() returns.
LEMMA InfoStep == InfoWhole /\ [Next]_vars => InfoWhole'
<1> SUFFICES ASSUME InfoWhole, [Next]_vars PROVE InfoWhole'
  OBVIOUS
<1> USE DEF InfoWhole, Up, Goto
<1>1. CASE IoThread \/ Tick \/ UNCHANGED vars
  BY <1>1 DEF IoThread, Connect, ConnectTorn, Recv, Break, Tick, vars, redisVars,
              diskVars
<1>2. CASE Get \/ SendOut \/ RepliesRead \/ Spin \/ Take \/ TakeEnd \/ Dml \/ Advance
  BY <1>2 DEF Get, SendOut, RepliesRead, Spin, Take, TakeEnd, Dml, Advance, diskVars
<1>3. CASE Reply
  BY <1>3 DEF Reply
<1>4. CASE Flush
  <2>1. rpc' \notin {"cut", "idleCut"} => tail' = tail
    BY <1>4, Zenon DEF Flush
  <2>2. rpc \in {"flush", "idle"}
    BY <1>4, Zenon DEF Flush
  <2>3. QED
    BY <2>1, <2>2
<1>5. CASE Truncate
  BY <1>5 DEF Truncate
<1>6. CASE Stop \/ Start \/ StartTorn
  BY <1>6 DEF Stop, Start, StartTorn, diskVars
<1>7. QED
  BY <1>1, <1>2, <1>3, <1>4, <1>5, <1>6 DEF Next, RedisThread

\* A slave that was not stopped between write() and truncate() can be resumed.
THEOREM InfoIsWhole == Spec => []InfoWhole
<1>1. Init => InfoWhole
  BY DEF Init, InfoWhole
<1>2. QED
  BY <1>1, InfoStep, PTL DEF Spec

-----------------------------------------------------------------------------
(* No gap.  A reconnection or a restart may only go back: each record in   *)
(* the ring follows the one before it or one that was taken already, and so*)
(* does what the connection brings next.  That is kept because dump_info   *)
(* and slave.info never run ahead of the records taken.                    *)

Seen ==
  /\ ~torn => dumpInfo <= maxSeen /\ info <= maxSeen
  /\ rpc \in Taken => ring[1] <= maxSeen

Consecutive ==
  /\ \A i \in 1 .. Len(ring) :
       ring[i] <= maxSeen + 1 \/ (i > 1 /\ ring[i] = ring[i - 1] + 1)
  /\ next <= maxSeen + 1 \/ (ring # << >> /\ next = ring[Len(ring)] + 1)

NoGapInv == Seen /\ (~torn => Consecutive)

\* Nothing was received and nothing taken.
LEMMA NoGapInit == Init => NoGapInv
BY EmptySeq DEF Init, NoGapInv, Seen, Consecutive, Handling, Taken

\* What was at most one ahead stays so when more has been taken.
LEMMA UpToNext ==
  \A a \in Nat, b \in Nat, x \in Nat : a <= b /\ x <= a + 1 => x <= b + 1
OBVIOUS

\* A record taken from the head of the ring is at most one ahead.
LEMMA HeadFollows ==
  ASSUME Typed, Consecutive, ring # << >>
  PROVE  ring[1] <= maxSeen + 1
<1>1. Len(ring) \in Nat /\ 1 \in 1 .. Len(ring)
  BY EmptySeq, LenProperties DEF Typed, TypeOK
<1>2. QED
  BY <1>1 DEF Consecutive

\* Steps of the redis thread that leave the ring and the positions alone.
LEMMA NoGapFrame ==
  ASSUME Typed, NoGapInv,
         UNCHANGED <<next, ring, dumpInfo, maxSeen, torn>>,
         info' = info \/ info' = dumpInfo,
         rpc' \in Taken => rpc \in Taken
  PROVE  NoGapInv'
BY DEF NoGapInv, Seen, Consecutive, Typed, TypeOK, Handling, Taken

\* Receiving, taking, giving back, breaking, stopping and starting keep it.
LEMMA NoGapStep == Typed /\ Typed' /\ NoGapInv /\ [Next]_vars => NoGapInv'
<1> SUFFICES ASSUME Typed, Typed', NoGapInv, [Next]_vars PROVE NoGapInv'
  OBVIOUS
<1>0. /\ ring \in Seq(Events) /\ Len(ring) \in Nat /\ DOMAIN ring = 1 .. Len(ring)
      /\ \A i \in 1 .. Len(ring) : ring[i] \in Nat
      /\ next \in Nat /\ dumpInfo \in Nat /\ info \in Nat /\ maxSeen \in Nat
  <2>1. ring \in Seq(Events)
    BY DEF Typed, TypeOK
  <2>2. Len(ring) \in Nat /\ DOMAIN ring = 1 .. Len(ring)
    BY <2>1, LenProperties
  <2>3. \A i \in 1 .. Len(ring) : ring[i] \in Nat
    <3>1. \A i \in 1 .. Len(ring) : ring[i] \in Events
      BY <2>1, ElementOfSeq
    <3>2. \A e \in Events : e \in Nat
      BY DEF Events
    <3>3. QED
      BY <3>1, <3>2
  <2>4. /\ next \in 0 .. N + 1 /\ dumpInfo \in 0 .. N
        /\ info \in 0 .. N /\ maxSeen \in 0 .. N
    BY DEF Typed, TypeOK
  <2>5. QED
    BY <2>1, <2>2, <2>3, <2>4, Constants
<1>1. CASE Connect
  BY <1>0, <1>1 DEF Connect, redisVars, diskVars, history, NoGapInv, Seen,
                    Consecutive, Handling, Taken
<1>2. CASE ConnectTorn
  BY <1>0, <1>2 DEF ConnectTorn, redisVars, diskVars, NoGapInv, Seen, Handling, Taken
<1>3. CASE Recv
  <2>1. /\ Len(ring') = Len(ring) + 1 /\ ring'[Len(ring) + 1] = next
        /\ \A i \in 1 .. Len(ring) : ring'[i] = ring[i]
        /\ ring' # << >>
    BY <1>0, <1>3, AppendProperties DEF Recv
  <2>2. Seen'
    BY <1>0, <1>3, <2>1, EmptySeq
       DEF Recv, redisVars, diskVars, history, NoGapInv, Seen, Typed, AtHead, Handling, Taken
  <2>3. ASSUME ~torn PROVE Consecutive'
    <3>1. Consecutive /\ UNCHANGED maxSeen
      BY <1>3, <2>3 DEF NoGapInv, Recv, history
    <3>2. ASSUME NEW i \in 1 .. Len(ring')
          PROVE  ring'[i] <= maxSeen + 1 \/ (i > 1 /\ ring'[i] = ring'[i - 1] + 1)
      <4>1. CASE i \in 1 .. Len(ring)
        BY <1>0, <2>1, <3>1, <4>1 DEF Consecutive
      <4>2. CASE i = Len(ring) + 1
        <5>1. CASE ring = << >>
          BY <2>1, <3>1, <4>2, <5>1 DEF Consecutive
        <5>2. CASE ring # << >>
          <6>1. Len(ring) \in 1 .. Len(ring) /\ i - 1 = Len(ring) /\ i > 1
            BY <1>0, <4>2, <5>2, EmptySeq
          <6>2. QED
            BY <2>1, <3>1, <4>2, <6>1 DEF Consecutive
        <5>3. QED
          BY <5>1, <5>2
      <4>3. QED
        BY <1>0, <2>1, <4>1, <4>2
    <3>3. next' = ring'[Len(ring')] + 1
      BY <1>3, <2>1 DEF Recv
    <3>4. QED
      BY <2>1, <3>1, <3>2, <3>3 DEF Consecutive
  <2>4. QED
    BY <1>3, <2>2, <2>3 DEF NoGapInv, Recv, history
<1>4. CASE Break
  BY <1>0, <1>4 DEF Break, redisVars, diskVars, history, NoGapInv, Seen,
                    Consecutive, Handling, Taken
<1>5. CASE Get \/ SendOut \/ Reply \/ RepliesRead \/ Spin
  BY <1>5, NoGapFrame DEF Get, SendOut, Reply, RepliesRead, Spin, Goto, ioVars,
                          diskVars, history, Handling, Taken
<1>6. CASE TakeEnd \/ Dml
  BY <1>6, NoGapFrame DEF TakeEnd, Dml, Goto, ioVars, diskVars, history, Handling, Taken
<1>7. CASE Flush
  <2>1. info' = info \/ info' = dumpInfo
    BY <1>7, Zenon DEF Flush
  <2>2. rpc' \in Taken => rpc \in Taken
    <3>1. rpc' \in {"advance", "cut"} => rpc = "flush"
      BY <1>7, Zenon DEF Flush, Goto
    <3>2. rpc' \in {"advance", "cut", "get", "idleCut"}
      BY <1>7, Zenon DEF Flush, Goto
    <3>3. QED
      BY <3>1, <3>2 DEF Taken
  <2>3. UNCHANGED <<next, ring, dumpInfo, maxSeen, torn>>
    BY <1>7 DEF Flush, ioVars, history
  <2>4. QED
    BY <2>1, <2>2, <2>3, NoGapFrame
<1>8. CASE Tick
  BY <1>8, NoGapFrame DEF Tick, ioVars, diskVars, history
<1>9. CASE Take
  <2>1. ring # << >> /\ Head(ring) = ring[1] /\ ring[1] \in Nat
    <3>1. ring # << >>
      BY <1>9 DEF Take, Typed, AtHead
    <3>2. 1 \in 1 .. Len(ring)
      BY <1>0, <3>1, EmptySeq
    <3>3. QED
      BY <1>0, <3>1, <3>2
  <2>2. maxSeen' = (IF maxSeen >= ring[1] THEN maxSeen ELSE ring[1])
    BY <1>0, <1>9, <2>1, MaxOfTwo DEF Take
  <2>3. /\ maxSeen \in Nat /\ maxSeen' \in Nat
        /\ maxSeen <= maxSeen' /\ ring[1] <= maxSeen'
    BY <1>0, <2>1, <2>2
  <2>4. UNCHANGED <<next, ring, info, torn>> /\ dumpInfo' = ring[1]
    BY <1>9, <2>1 DEF Take, ioVars, diskVars
  <2>5. Seen'
    BY <1>0, <2>3, <2>4 DEF NoGapInv, Seen
  <2>6. ASSUME ~torn PROVE Consecutive'
    <3>1. Consecutive
      BY <2>6 DEF NoGapInv
    <3>2. \A x \in Nat : x <= maxSeen + 1 => x <= maxSeen' + 1
      BY <2>3, UpToNext
    <3>3. \A i \in 1 .. Len(ring) :
            ring[i] <= maxSeen' + 1 \/ (i > 1 /\ ring[i] = ring[i - 1] + 1)
      BY <1>0, <3>1, <3>2 DEF Consecutive
    <3>4. next <= maxSeen' + 1 \/ (ring # << >> /\ next = ring[Len(ring)] + 1)
      BY <1>0, <3>1, <3>2 DEF Consecutive
    <3>5. QED
      BY <2>4, <3>3, <3>4 DEF Consecutive
  <2>7. QED
    BY <2>4, <2>5, <2>6 DEF NoGapInv
<1>10. CASE Advance
  <2>1. ring # << >> /\ ring[1] <= maxSeen
    BY <1>10 DEF Advance, Typed, AtHead, NoGapInv, Seen, Taken
  <2>2. /\ Len(ring') = Len(ring) - 1
        /\ \A i \in 1 .. Len(ring) - 1 : ring'[i] = ring[i + 1]
    BY <1>0, <1>10, <2>1, HeadTailProperties DEF Advance
  <2>3. UNCHANGED <<next, dumpInfo, info, maxSeen, torn>> /\ rpc' = "get"
    BY <1>10 DEF Advance, Goto, ioVars, diskVars, history
  <2>4. Seen'
    BY <2>3 DEF NoGapInv, Seen, Handling, Taken
  <2>5. ASSUME ~torn PROVE Consecutive'
    <3>1. Consecutive
      BY <2>5 DEF NoGapInv
    <3>2. ASSUME NEW i \in 1 .. Len(ring')
          PROVE  ring'[i] <= maxSeen + 1 \/ (i > 1 /\ ring'[i] = ring'[i - 1] + 1)
      <4>1. /\ i \in 1 .. Len(ring) - 1 /\ i + 1 \in 1 .. Len(ring)
            /\ ring'[i] = ring[i + 1] /\ (i + 1) - 1 = i
        BY <1>0, <2>2
      <4>2. ring[i + 1] <= maxSeen + 1 \/ ring[i + 1] = ring[i] + 1
        BY <3>1, <4>1 DEF Consecutive
      <4>3. CASE i = 1
        BY <1>0, <2>1, <4>1, <4>2, <4>3
      <4>4. CASE i > 1
        <5>1. i - 1 \in 1 .. Len(ring) - 1 /\ (i - 1) + 1 = i
          BY <1>0, <4>1, <4>4
        <5>2. ring'[i - 1] = ring[i]
          BY <2>2, <5>1
        <5>3. QED
          BY <4>1, <4>2, <4>4, <5>2
      <4>5. QED
        BY <4>1, <4>3, <4>4
    <3>3. next <= maxSeen + 1 \/ (ring' # << >> /\ next = ring'[Len(ring')] + 1)
      <4>1. CASE next <= maxSeen + 1
        BY <4>1
      <4>2. CASE next = ring[Len(ring)] + 1
        <5>1. CASE Len(ring) = 1
          BY <1>0, <2>1, <4>2, <5>1
        <5>2. CASE Len(ring) > 1
          BY <1>0, <2>2, <4>2, <5>2, EmptySeq
        <5>3. QED
          BY <1>0, <2>1, <5>1, <5>2, EmptySeq
      <4>3. QED
        BY <3>1, <4>1, <4>2 DEF Consecutive
    <3>4. QED
      BY <2>3, <3>2, <3>3 DEF Consecutive
  <2>6. QED
    BY <2>3, <2>4, <2>5 DEF NoGapInv
<1>11. CASE Stop
  BY <1>0, <1>11, EmptySeq DEF Stop, Goto, NoGapInv, Seen, Consecutive, Handling, Taken
<1>12. CASE Start
  BY <1>0, <1>12 DEF Start, Goto, Up, ioVars, diskVars, history, NoGapInv, Seen,
                     Consecutive, Handling, Taken
<1>13. CASE UNCHANGED vars
  BY <1>13 DEF vars, ioVars, redisVars, diskVars, history, NoGapInv, Seen,
               Consecutive
<1>14. CASE Truncate
  BY <1>14, NoGapFrame DEF Truncate, Goto, ioVars, history, Taken
<1>15. CASE StartTorn
  BY <1>0, <1>15 DEF StartTorn, Goto, NoGapInv, Seen, Taken
<1>16. QED
  BY <1>1, <1>2, <1>3, <1>4, <1>5, <1>6, <1>7, <1>8, <1>9, <1>10, <1>11, <1>12,
     <1>13, <1>14, <1>15 DEF Next, IoThread, RedisThread

\* Reconnections and restarts replay, they never skip: for every size of the
\* ring and of the batches, and any number of breaks and stops, until the slave
\* resumes from a half-written position.
THEOREM NothingIsSkipped == Spec => NoGap
<1>1. Typed /\ Typed' /\ NoGapInv /\ [Next]_vars => NoGapInv'
  BY NoGapStep
<1>2. Typed /\ NoGapInv /\ [Next]_vars => [~torn => maxSeen' <= maxSeen + 1]_vars
  <2> SUFFICES ASSUME Typed, NoGapInv, [Next]_vars, ~torn
               PROVE  maxSeen' <= maxSeen + 1
    OBVIOUS
  <2>0. maxSeen \in Nat
    BY Constants DEF Typed, TypeOK
  <2>1. CASE Take
    <3>1. ring # << >> /\ ring[1] <= maxSeen + 1
      BY <2>1, HeadFollows DEF Take, Typed, AtHead, NoGapInv
    <3>2. Head(ring) = ring[1] /\ Head(ring) \in Nat
      BY <3>1, HeadTailProperties, Constants DEF Typed, TypeOK
    <3>3. maxSeen' = IF maxSeen >= Head(ring) THEN maxSeen ELSE Head(ring)
      BY <2>0, <2>1, <3>2, MaxOfTwo DEF Take
    <3>4. QED
      BY <2>0, <3>1, <3>2, <3>3
  <2>2. CASE ~Take
    <3>1. UNCHANGED maxSeen
      BY <2>2 DEF Next, IoThread, RedisThread, Connect, ConnectTorn, Recv, Break,
                  Get, SendOut, Reply, RepliesRead, Spin, TakeEnd, Dml, Flush,
                  Truncate, Advance, Tick, Stop, Start, StartTorn, vars, history
    <3>2. QED
      BY <2>0, <3>1
  <2>3. QED
    BY <2>1, <2>2
<1>3. QED
  BY <1>1, <1>2, NoGapInit, TypedAlways, PTL DEF Spec, NoGap

-----------------------------------------------------------------------------
(* Losses and replays: the data.                                           *)

LEMMA RangeOfConcat ==
  ASSUME NEW S, NEW s \in Seq(S), NEW t \in Seq(S)
  PROVE  Range(s \o t) = Range(s) \cup Range(t)
<1> DEFINE u == s \o t
<1>1. /\ Len(s) \in Nat /\ Len(t) \in Nat /\ DOMAIN s = 1 .. Len(s) /\ DOMAIN t = 1 .. Len(t)
  BY LenProperties
<1>2. /\ u \in Seq(S) /\ Len(u) = Len(s) + Len(t)
      /\ \A i \in 1 .. Len(s) + Len(t) : u[i] = IF i <= Len(s) THEN s[i] ELSE t[i - Len(s)]
  BY ConcatProperties
<1>3. DOMAIN u = 1 .. Len(s) + Len(t)
  BY <1>2, LenProperties
<1> HIDE DEF u
<1>4. ASSUME NEW x \in Range(u) PROVE x \in Range(s) \cup Range(t)
  <2>1. PICK i \in 1 .. Len(s) + Len(t) : x = u[i]
    BY <1>3, <1>4 DEF Range
  <2>2. CASE i <= Len(s)
    BY <1>1, <1>2, <2>1, <2>2, SMTT(30) DEF Range
  <2>3. CASE i > Len(s)
    <3>1. i - Len(s) \in 1 .. Len(t) /\ x = t[i - Len(s)]
      BY <1>1, <1>2, <2>1, <2>3
    <3>2. QED
      BY <1>1, <3>1 DEF Range
  <2>4. QED
    BY <1>1, <2>2, <2>3
<1>5. ASSUME NEW x \in Range(s) PROVE x \in Range(u)
  <2>1. PICK i \in 1 .. Len(s) : x = s[i]
    BY <1>1, <1>5 DEF Range
  <2>2. i \in 1 .. Len(s) + Len(t) /\ u[i] = x
    BY <1>1, <1>2, <2>1
  <2>3. QED
    BY <1>3, <2>2 DEF Range
<1>6. ASSUME NEW x \in Range(t) PROVE x \in Range(u)
  <2>1. PICK i \in 1 .. Len(t) : x = t[i]
    BY <1>1, <1>6 DEF Range
  <2>2. i + Len(s) \in 1 .. Len(s) + Len(t) /\ u[i + Len(s)] = x
    <3>1. i + Len(s) \in 1 .. Len(s) + Len(t) /\ ~(i + Len(s) <= Len(s)) /\ (i + Len(s)) - Len(s) = i
      BY <1>1
    <3>2. QED
      BY <1>2, <2>1, <3>1
  <2>3. QED
    BY <1>3, <2>2 DEF Range
<1>7. QED
  BY <1>4, <1>5, <1>6 DEF u

LEMMA RangeOfEmpty == Range(<< >>) = {}
BY DEF Range

LEMMA RangeOfTail ==
  ASSUME NEW S, NEW s \in Seq(S), s # << >>
  PROVE  Range(s) = {Head(s)} \cup Range(Tail(s))
<1> DEFINE t == Tail(s)
<1>1. /\ Len(s) \in Nat \ {0} /\ DOMAIN s = 1 .. Len(s) /\ Head(s) = s[1]
  BY EmptySeq, LenProperties
<1>2. /\ t \in Seq(S) /\ DOMAIN t = 1 .. Len(s) - 1 /\ \A i \in 1 .. Len(s) - 1 : t[i] = s[i + 1]
  BY <1>1, HeadTailProperties, LenProperties
<1> HIDE DEF t
<1>3. ASSUME NEW x \in Range(s) PROVE x \in {Head(s)} \cup Range(t)
  <2>1. PICK i \in 1 .. Len(s) : x = s[i]
    BY <1>1, <1>3 DEF Range
  <2>2. CASE i = 1
    BY <1>1, <2>1, <2>2
  <2>3. CASE i # 1
    <3>1. i - 1 \in 1 .. Len(s) - 1 /\ t[i - 1] = x
      BY <1>1, <1>2, <2>1, <2>3
    <3>2. QED
      BY <1>2, <3>1 DEF Range
  <2>4. QED
    BY <2>2, <2>3
<1>4. Range(t) \subseteq Range(s)
  BY <1>1, <1>2 DEF Range
<1>5. Head(s) \in Range(s)
  BY <1>1 DEF Range
<1>6. QED
  BY <1>3, <1>4, <1>5 DEF t

\* A sequence holds at most as many things as it is long.
LEMMA RangeSize ==
  ASSUME NEW S, NEW s \in Seq(S)
  PROVE  IsFiniteSet(Range(s)) /\ Cardinality(Range(s)) <= Len(s)
<1>1. Len(s) \in Nat /\ DOMAIN s = 1 .. Len(s) /\ s \in [1 .. Len(s) -> S]
  BY LenProperties
<1>2. IsFiniteSet(1 .. Len(s)) /\ Cardinality(1 .. Len(s)) = Len(s)
  BY <1>1, FS_Interval
<1>3. s \in Surjection(1 .. Len(s), Range(s))
  BY <1>1 DEF Surjection, Range
<1>4. QED
  BY <1>2, <1>3, FS_Surjection

\* The commands up to a position: a finite set that grows event by event.
LEMMA UpToProperties ==
  /\ \A p \in 0 .. N : IsFiniteSet(CommandsUpTo(p))
  /\ \A p, q \in 0 .. N : p <= q => CommandsUpTo(p) \subseteq CommandsUpTo(q)
  /\ \A p, q \in 0 .. N : q <= p + 1 =>
       CommandsUpTo(q) \subseteq CommandsUpTo(p) \cup Range(CommandsOf(q))
<1>1. ASSUME NEW p \in 0 .. N PROVE IsFiniteSet(CommandsUpTo(p))
  <2> DEFINE parts == {Range(CommandsOf(e)) : e \in 1 .. p}
             f == [e \in 1 .. p |-> Range(CommandsOf(e))]
  <2>1. IsFiniteSet(1 .. p)
    BY FS_Interval, Constants
  <2>2. f \in Surjection(1 .. p, parts)
    BY DEF Surjection
  <2>3. IsFiniteSet(parts)
    <3> HIDE DEF parts, f
    <3>1. QED
      BY <2>1, <2>2, FS_Surjection
  <2>4. ASSUME NEW T \in parts PROVE IsFiniteSet(T)
    <3>1. PICK e \in 1 .. p : T = Range(CommandsOf(e))
      OBVIOUS
    <3>2. e \in Events
      BY Constants DEF Events
    <3>3. QED
      BY <3>1, <3>2, CommandsOfEvent, RangeSize
  <2>5. IsFiniteSet(UNION parts)
    <3> HIDE DEF parts
    <3>1. QED
      BY <2>3, <2>4, FS_UNION
  <2>6. QED
    BY <2>5 DEF CommandsUpTo
<1>2. ASSUME NEW p \in 0 .. N, NEW q \in 0 .. N, p <= q
      PROVE  CommandsUpTo(p) \subseteq CommandsUpTo(q)
  <2>1. 1 .. p \subseteq 1 .. q
    BY <1>2, Constants
  <2>2. QED
    BY <2>1 DEF CommandsUpTo
<1>3. ASSUME NEW p \in 0 .. N, NEW q \in 0 .. N, q <= p + 1
      PROVE  CommandsUpTo(q) \subseteq CommandsUpTo(p) \cup Range(CommandsOf(q))
  <2>1. \A e \in 1 .. q : e \in 1 .. p \/ e = q
    BY <1>3, Constants
  <2>2. QED
    BY <2>1 DEF CommandsUpTo
<1>4. QED
  BY <1>1, <1>2, <1>3

-----------------------------------------------------------------------------
(* The inductive invariant.  A life of the process begins at the position b*)
(* that it read from slave.info, and h is the last event that it has taken.*)

Back == breaks * Num             \* how far the breaks can have set it back
Lag  == Max({1, SaveNum - 1})    \* how many records slave.info is behind

\* What is in the ring and what the connection brings next: it begins behind b
\* and never runs ahead of h.
Stream(b, h) ==
  /\ b <= info /\ info <= h /\ b <= dumpInfo /\ dumpInfo <= h
  /\ rpc \in Taken => ring[1] = dumpInfo
  /\ \A i \in 1 .. Len(ring) :
       ring[i] > b /\ (ring[i] <= h + 1 \/ (i > 1 /\ ring[i] = ring[i - 1] + 1))
  /\ next # 0 =>
       next > b /\ (next <= h + 1 \/ (ring # << >> /\ next = ring[Len(ring)] + 1))

\* What was taken is executed, or on its way to Redis; only what was lost in an
\* earlier life is not, and what slave.info was ahead of Redis when written.
Handled(b, h) ==
  /\ CommandsUpTo(h) \ CommandsUpTo(b)
       \subseteq applied \cup Range(obuf) \cup Range(wire)
                   \cup (IF rpc \in {"nul", "dml"} THEN Range(CommandsOf(dumpInfo)) ELSE {})
  /\ Cardinality(CommandsUpTo(b) \ applied) <= stops * (CommitNum - 1)
  /\ Cardinality((CommandsUpTo(info) \ CommandsUpTo(b)) \ applied) <= CommitNum - 1
  /\ rpc = "flush" => cmdn < CommitNum
  /\ rpc \in {"spin", "idle"} => cmdn = 0

\* Nothing that is taken, in the ring or to come is further back than Back.
Replays(h) ==
  /\ h <= dumpInfo + Back
  /\ \A i \in 1 .. Len(ring) : i > 1 \/ rpc \notin Taken => h < ring[i] + Back
  /\ \A i \in 1 .. Len(ring) : ring[i] <= dumpInfo + Back + i
  /\ \A i, j \in 1 .. Len(ring) : i < j =>
       ring[i] < ring[j] + Back /\ ring[j] <= ring[i] + Back + (j - i)
  /\ next # 0 => h < next + Back /\ \A i \in 1 .. Len(ring) : ring[i] < next + Back
  /\ next = 0 => \A i \in 1 .. Len(ring) :
       ring[i] <= dumpInfo + Back /\ \A j \in 1 .. Len(ring) : ring[j] <= ring[i] + Back

\* slave.info is at most Lag records old.
Saved(b, h) ==
  /\ curSave <= Lag + 1 /\ (rpc \notin Handling => curSave <= Lag)
  /\ \/ h < info + Back + curSave
     \/ due /\ curSave = 0 /\ h = info
     \/ due /\ curSave = 1 /\ h <= info + 1 /\ rpc \in Handling
  /\ h <= maxSeen
  /\ h = maxSeen \/ (stops > 0 /\ maxSeen <= b + Back + Lag)

Life(b, h) == Stream(b, h) /\ Handled(b, h) /\ Replays(h) /\ Saved(b, h)

\* Between two lives.
Down ==
  /\ Cardinality(CommandsUpTo(info) \ applied) <= stops * (CommitNum - 1)
  /\ maxSeen <= info + Back + Lag /\ info <= maxSeen /\ stops > 0
  /\ curSave = 0 /\ due /\ next = 0 /\ ring = << >>
  /\ obuf = << >> /\ wire = << >> /\ cmdn = 0

ReplayInv ==
  ~torn => IF Up THEN \E b, h \in 0 .. N : Life(b, h) ELSE Down

\* The numbers of a state, and of the next one.
LEMMA Numbers ==
  ASSUME Typed
  PROVE  /\ ring \in Seq(Events) /\ Len(ring) \in Nat /\ Len(ring) <= Num
         /\ DOMAIN ring = 1 .. Len(ring)
         /\ \A i \in 1 .. Len(ring) : ring[i] \in Nat /\ ring[i] <= N
         /\ next \in Nat /\ dumpInfo \in Nat /\ info \in Nat /\ maxSeen \in Nat
         /\ curSave \in Nat /\ Back \in Nat /\ stops \in Nat /\ breaks \in Nat
<1>1. ring \in Seq(Events) /\ Len(ring) <= Num
  BY DEF Typed, TypeOK
<1>2. Len(ring) \in Nat /\ DOMAIN ring = 1 .. Len(ring)
  BY <1>1, LenProperties
<1>3. \A i \in 1 .. Len(ring) : ring[i] \in Nat /\ ring[i] <= N
  <2>1. \A i \in 1 .. Len(ring) : ring[i] \in Events
    BY <1>1, ElementOfSeq
  <2>2. QED
    BY <2>1, Constants
<1>4. /\ next \in 0 .. N + 1 /\ dumpInfo \in 0 .. N /\ info \in 0 .. N /\ maxSeen \in 0 .. N
      /\ curSave \in 0 .. SaveNum + 1 /\ breaks \in 0 .. MaxBreaks /\ stops \in 0 .. MaxStops
  BY DEF Typed, TypeOK
<1>5. Back \in Nat
  BY <1>4, Constants DEF Back
<1>6. QED
  BY <1>1, <1>2, <1>3, <1>4, <1>5, Constants

LEMMA LagSize == Lag \in Nat /\ Lag >= 1 /\ Lag >= SaveNum - 1 /\ (Lag = 1 \/ Lag = SaveNum - 1)
<1>1. SaveNum - 1 \in Nat
  BY Constants
<1>2. Lag = IF 1 >= SaveNum - 1 THEN 1 ELSE SaveNum - 1
  BY <1>1, MaxOfTwo DEF Lag
<1>3. QED
  BY <1>1, <1>2

LEMMA BackGrows ==
  /\ breaks' = breaks => Back' = Back
  /\ breaks \in Nat /\ breaks' = breaks + 1 => Back' = Back + Num
<1>1. ASSUME breaks \in Nat, breaks' = breaks + 1 PROVE Back' = Back + Num
  <2>1. \A x, y \in Nat : (x + 1) * y = x * y + y
    OBVIOUS
  <2>2. QED
    BY <1>1, <2>1, Constants DEF Back
<1>2. QED
  BY <1>1 DEF Back

-----------------------------------------------------------------------------
(* A life begins and goes on: the stream.                                  *)

LEMMA StreamFrame ==
  ASSUME Typed, NEW b \in 0 .. N, NEW h \in 0 .. N, Stream(b, h),
         UNCHANGED <<next, ring, dumpInfo>>, info' = info \/ info' = dumpInfo,
         rpc' \in Taken => rpc \in Taken
  PROVE  Stream(b, h)'
BY DEF Stream

LEMMA StreamStart ==
  ASSUME Typed, Down, Start
  PROVE  Stream(info, info)'
<1>1. info \in Nat
  BY Numbers
<1>2. /\ dumpInfo' = info /\ info' = info /\ ring' = << >> /\ next' = 0 /\ rpc' = "get"
  BY DEF Start, Down, Goto, ioVars, diskVars
<1>3. Len(ring') = 0 /\ 1 .. 0 = {}
  BY <1>2
<1>4. QED
  BY <1>1, <1>2, <1>3 DEF Stream, Taken

LEMMA StreamConnect ==
  ASSUME Typed, NEW b \in 0 .. N, NEW h \in 0 .. N, Stream(b, h), Connect
  PROVE  Stream(b, h)'
BY Numbers, Constants DEF Stream, Connect, redisVars, diskVars, history

LEMMA StreamBreak ==
  ASSUME Typed, NEW b \in 0 .. N, NEW h \in 0 .. N, Stream(b, h), Break
  PROVE  Stream(b, h)'
BY Numbers, Constants DEF Stream, Break, redisVars, diskVars, history

LEMMA Received ==
  ASSUME Typed, Recv
  PROVE  /\ Len(ring') = Len(ring) + 1 /\ ring'[Len(ring) + 1] = next
         /\ \A i \in 1 .. Len(ring) : ring'[i] = ring[i]
         /\ ring' # << >> /\ next' = next + 1 /\ Len(ring) < Num /\ next # 0
         /\ UNCHANGED <<breaks, dumpInfo, rpc, obuf, wire, cmdn, curSave, due, info, tail, db,
                        applied, maxSeen, torn, stops>>
<1>1. ring \in Seq(Events) /\ next \in Events /\ ring' = Append(ring, next)
  BY DEF Typed, TypeOK, Recv
<1>2. /\ Len(ring') = Len(ring) + 1 /\ ring'[Len(ring) + 1] = next
      /\ \A i \in 1 .. Len(ring) : ring'[i] = ring[i]
      /\ ring' # << >>
  BY <1>1, AppendProperties
<1>3. next # 0
  BY <1>1, Constants
<1>4. QED
  BY <1>2, <1>3 DEF Recv, redisVars, diskVars, history

LEMMA StreamRecv ==
  ASSUME Typed, NEW b \in 0 .. N, NEW h \in 0 .. N, Stream(b, h), Recv
  PROVE  Stream(b, h)'
<1>1. b \in Nat /\ h \in Nat
  BY Constants
<1>2. ring # << >> => Len(ring) \in 1 .. Len(ring)
  BY Numbers, EmptySeq
<1>3. ring[1] = dumpInfo /\ rpc \in Taken => ring'[1] = dumpInfo
  BY <1>2, Numbers, Received DEF Typed, AtHead
<1>4. ASSUME NEW i \in 1 .. Len(ring')
      PROVE  ring'[i] > b /\ (ring'[i] <= h + 1 \/ (i > 1 /\ ring'[i] = ring'[i - 1] + 1))
  <2>1. CASE i \in 1 .. Len(ring)
    BY <2>1, Numbers, Received, SMTT(30) DEF Stream
  <2>2. CASE i = Len(ring) + 1
    <3>1. ring'[i] = next /\ next > b /\ i - 1 = Len(ring)
      BY <2>2, Numbers, Received DEF Stream
    <3>2. next <= h + 1 \/ (ring # << >> /\ next = ring[Len(ring)] + 1)
      BY Received DEF Stream
    <3>3. ASSUME ring # << >> PROVE i > 1 /\ ring'[i - 1] = ring[Len(ring)]
      BY <1>2, <2>2, <3>1, <3>3, Numbers, Received
    <3>4. QED
      BY <3>1, <3>2, <3>3
  <2>3. QED
    BY <2>1, <2>2, Numbers, Received
<1>5. QED
  BY <1>1, <1>3, <1>4, Numbers, Received DEF Stream

LEMMA TakenRecord ==
  ASSUME Typed, Take
  PROVE  /\ ring # << >> /\ 1 \in 1 .. Len(ring) /\ Head(ring) = ring[1]
         /\ dumpInfo' = ring[1] /\ ring[1] \in 0 .. N /\ rpc = "take" /\ rpc' = "nul"
         /\ curSave' = curSave + 1
         /\ maxSeen' = (IF maxSeen >= ring[1] THEN maxSeen ELSE ring[1])
         /\ UNCHANGED <<breaks, next, ring, obuf, wire, cmdn, due, info, tail, db, applied,
                        torn, stops>>
<1>1. ring # << >> /\ 1 \in 1 .. Len(ring) /\ Head(ring) = ring[1]
  BY Numbers, EmptySeq DEF Take, Typed, AtHead
<1>2. ring[1] \in Nat /\ ring[1] <= N
  BY <1>1, Numbers
<1>3. maxSeen' = (IF maxSeen >= ring[1] THEN maxSeen ELSE ring[1])
  BY <1>1, <1>2, Numbers, MaxOfTwo DEF Take
<1>4. ring[1] \in 0 .. N
  BY <1>2, Constants
<1>5. dumpInfo' = ring[1] /\ rpc = "take" /\ rpc' = "nul" /\ curSave' = curSave + 1
  BY <1>1 DEF Take, Goto
<1>6. UNCHANGED <<breaks, next, ring, obuf, wire, cmdn, due, info, tail, db, applied, torn, stops>>
  BY DEF Take, ioVars, diskVars
<1>7. QED
  BY <1>1, <1>3, <1>4, <1>5, <1>6

Later(h) == IF h >= ring[1] THEN h ELSE ring[1]

LEMMA LaterTaken ==
  ASSUME Typed, NEW b \in 0 .. N, NEW h \in 0 .. N, Stream(b, h), Take
  PROVE  /\ Later(h) \in 0 .. N /\ h <= Later(h) /\ Later(h) <= h + 1 /\ ring[1] <= Later(h)
         /\ Later(h) = h \/ Later(h) = ring[1]
<1>1. ring[1] <= h + 1
  BY TakenRecord DEF Stream
<1>2. QED
  BY <1>1, TakenRecord, Constants DEF Later

LEMMA StreamTake ==
  ASSUME Typed, NEW b \in 0 .. N, NEW h \in 0 .. N, Stream(b, h), Take,
         NEW g \in 0 .. N, g = Later(h)
  PROVE  Stream(b, g)'
<1>1. b \in Nat /\ h \in Nat /\ g \in Nat /\ h <= g /\ ring[1] <= g
  BY LaterTaken, Constants
<1>2. ring[1] > b
  BY TakenRecord DEF Stream
<1>3. \A x \in Nat : x <= h + 1 => x <= g + 1
  BY <1>1
<1>4. QED
  BY <1>1, <1>2, <1>3, TakenRecord, Numbers, SMTT(30) DEF Stream

LEMMA GivenBack ==
  ASSUME Typed, Advance
  PROVE  /\ ring # << >> /\ Len(ring') = Len(ring) - 1 /\ Len(ring) > 0
         /\ \A i \in 1 .. Len(ring) - 1 : ring'[i] = ring[i + 1] /\ i + 1 \in 1 .. Len(ring)
         /\ rpc = "advance" /\ rpc' = "get"
         /\ UNCHANGED <<breaks, next, dumpInfo, obuf, wire, cmdn, curSave, due, info, tail, db,
                        applied, maxSeen, torn, stops>>
<1>1. ring # << >> /\ ring \in Seq(Events)
  BY Numbers DEF Advance, Typed, AtHead, Taken
<1>2. Len(ring') = Len(ring) - 1 /\ \A i \in 1 .. Len(ring) - 1 : ring'[i] = ring[i + 1]
  BY <1>1, Numbers, HeadTailProperties DEF Advance
<1>3. QED
  BY <1>1, <1>2, Numbers, EmptySeq DEF Advance, Goto, ioVars, diskVars, history

LEMMA StreamAdvance ==
  ASSUME Typed, NEW b \in 0 .. N, NEW h \in 0 .. N, Stream(b, h), Advance
  PROVE  Stream(b, h)'
<1>1. b \in Nat /\ h \in Nat /\ ring[1] <= h
  BY GivenBack, Constants DEF Stream, Taken
<1>2. ASSUME NEW i \in 1 .. Len(ring')
      PROVE  ring'[i] > b /\ (ring'[i] <= h + 1 \/ (i > 1 /\ ring'[i] = ring'[i - 1] + 1))
  <2>1. /\ i \in 1 .. Len(ring) - 1 /\ i + 1 \in 1 .. Len(ring)
        /\ ring'[i] = ring[i + 1] /\ (i + 1) - 1 = i
    BY <1>2, Numbers, GivenBack
  <2>2. ring[i + 1] > b /\ (ring[i + 1] <= h + 1 \/ ring[i + 1] = ring[i] + 1)
    BY <2>1 DEF Stream
  <2>3. CASE i = 1
    BY <1>1, <2>1, <2>2, <2>3, Numbers
  <2>4. CASE i > 1
    <3>1. i - 1 \in 1 .. Len(ring) - 1 /\ (i - 1) + 1 = i
      BY <2>1, <2>4, Numbers
    <3>2. ring'[i - 1] = ring[i]
      BY <3>1, GivenBack
    <3>3. QED
      BY <2>1, <2>2, <2>4, <3>2
  <2>5. QED
    BY <2>1, <2>3, <2>4
<1>3. ASSUME next = ring[Len(ring)] + 1
      PROVE  next <= h + 1 \/ (ring' # << >> /\ next = ring'[Len(ring')] + 1)
  <2>1. CASE Len(ring) = 1
    BY <1>1, <1>3, <2>1, Numbers
  <2>2. CASE Len(ring) > 1
    BY <1>3, <2>2, Numbers, GivenBack, EmptySeq
  <2>3. QED
    BY <2>1, <2>2, Numbers, GivenBack
<1>4. QED
  BY <1>1, <1>2, <1>3, GivenBack DEF Stream, Taken

-----------------------------------------------------------------------------
(* What was taken is executed or on its way.                               *)

\* Fewer commands are missing when more have been executed.
LEMMA FewerMissing ==
  ASSUME NEW A, IsFiniteSet(A), NEW B, NEW C, B \subseteq C
  PROVE  /\ Cardinality(A \ C) <= Cardinality(A \ B)
         /\ Cardinality(A \ B) \in Nat /\ Cardinality(A \ C) \in Nat
<1>1. IsFiniteSet(A \ B)
  BY FS_Difference
<1>2. A \ C \in SUBSET (A \ B)
  OBVIOUS
<1>3. QED
  BY <1>1, <1>2, FS_Subset, FS_CardinalityType

LEMMA HandledFrame ==
  ASSUME Typed, NEW b \in 0 .. N, NEW h \in 0 .. N, Handled(b, h),
         UNCHANGED <<applied, stops, info, dumpInfo>>,
         Range(obuf) \cup Range(wire) \subseteq Range(obuf') \cup Range(wire'),
         rpc \in {"nul", "dml"} => rpc' \in {"nul", "dml"},
         rpc' = "flush" => cmdn' < CommitNum,
         rpc' \in {"spin", "idle"} => cmdn' = 0
  PROVE  Handled(b, h)'
<1>1. (IF rpc \in {"nul", "dml"} THEN Range(CommandsOf(dumpInfo)) ELSE {})
        \subseteq (IF rpc' \in {"nul", "dml"} THEN Range(CommandsOf(dumpInfo')) ELSE {})
  OBVIOUS
<1>2. QED
  BY <1>1 DEF Handled

LEMMA HandledStart ==
  ASSUME Typed, Down, Start
  PROVE  Handled(info, info)'
<1>1. UNCHANGED <<info, applied, stops>> /\ rpc' = "get"
  BY DEF Start, Goto, diskVars, history
<1>2. CommandsUpTo(info) \ CommandsUpTo(info) = {} /\ {} \ applied = {} /\ Cardinality({}) = 0
  BY FS_EmptySet
<1>3. 0 <= CommitNum - 1
  BY Constants
<1>4. QED
  BY <1>1, <1>2, <1>3 DEF Handled, Down

LEMMA HandledReply ==
  ASSUME Typed, NEW b \in 0 .. N, NEW h \in 0 .. N, Handled(b, h), Reply
  PROVE  Handled(b, h)'
<1>1. /\ applied' = applied \cup {Head(wire)} /\ wire' = Tail(wire) /\ obuf' = obuf
      /\ rpc \in {"drain", "commit"} /\ UNCHANGED <<rpc, info, dumpInfo, stops>>
  BY DEF Reply, history
<1>2. Range(wire) = {Head(wire)} \cup Range(Tail(wire))
  <2>1. wire \in Seq(Commands) /\ wire # << >>
    BY DEF Reply, Typed, TypeOK, Commands
  <2>2. QED
    BY <2>1, RangeOfTail
<1>3. info \in 0 .. N
  BY DEF Typed, TypeOK
<1>4. Cardinality(CommandsUpTo(b) \ applied') <= stops * (CommitNum - 1)
  <2>1. Cardinality(CommandsUpTo(b) \ applied) <= stops * (CommitNum - 1)
    BY DEF Handled
  <2>2. stops * (CommitNum - 1) \in Int
    BY Numbers, Constants
  <2>3. /\ Cardinality(CommandsUpTo(b) \ applied') <= Cardinality(CommandsUpTo(b) \ applied)
        /\ Cardinality(CommandsUpTo(b) \ applied) \in Nat
        /\ Cardinality(CommandsUpTo(b) \ applied') \in Nat
    <3>1. IsFiniteSet(CommandsUpTo(b)) /\ applied \subseteq applied'
      BY <1>1, UpToProperties
    <3>2. QED
      BY <3>1, FewerMissing
  <2>4. QED
    BY <2>1, <2>2, <2>3
<1>5. Cardinality((CommandsUpTo(info) \ CommandsUpTo(b)) \ applied') <= CommitNum - 1
  <2>1. Cardinality((CommandsUpTo(info) \ CommandsUpTo(b)) \ applied) <= CommitNum - 1
    BY DEF Handled
  <2>2. IsFiniteSet(CommandsUpTo(info) \ CommandsUpTo(b))
    BY <1>3, UpToProperties, FS_Difference
  <2>3. applied \subseteq applied' /\ CommitNum - 1 \in Int
    BY <1>1, Constants
  <2> DEFINE A == CommandsUpTo(info) \ CommandsUpTo(b)
  <2> HIDE DEF A
  <2>4. /\ Cardinality(A \ applied') <= Cardinality(A \ applied)
        /\ Cardinality(A \ applied) \in Nat /\ Cardinality(A \ applied') \in Nat
    BY <2>2, <2>3, FewerMissing DEF A
  <2>5. QED
    BY <2>1, <2>3, <2>4 DEF A
<1>6. CommandsUpTo(h) \ CommandsUpTo(b) \subseteq applied' \cup Range(obuf') \cup Range(wire')
  BY <1>1, <1>2 DEF Handled
<1>7. QED
  BY <1>1, <1>4, <1>5, <1>6 DEF Handled

LEMMA HandledTake ==
  ASSUME Typed, NEW b \in 0 .. N, NEW h \in 0 .. N, Stream(b, h), Handled(b, h), Take,
         NEW g \in 0 .. N, g = Later(h)
  PROVE  Handled(b, g)'
<1>1. CommandsUpTo(g) \subseteq CommandsUpTo(h) \cup Range(CommandsOf(dumpInfo'))
  <2>1. CASE g = h
    BY <2>1
  <2>2. CASE g # h
    <3>1. g = dumpInfo' /\ g <= h + 1
      BY <2>2, LaterTaken, TakenRecord
    <3>2. QED
      BY <3>1, UpToProperties
  <2>3. QED
    BY <2>1, <2>2
<1>2. CommandsUpTo(h) \ CommandsUpTo(b) \subseteq applied \cup Range(obuf) \cup Range(wire)
  BY TakenRecord DEF Handled
<1>3. UNCHANGED <<applied, obuf, wire, stops, info>> /\ rpc' = "nul"
  BY TakenRecord
<1>4. CommandsUpTo(g) \ CommandsUpTo(b)
        \subseteq applied' \cup Range(obuf') \cup Range(wire') \cup Range(CommandsOf(dumpInfo'))
  BY <1>1, <1>2, <1>3
<1>5. QED
  BY <1>3, <1>4 DEF Handled

LEMMA HandledDml ==
  ASSUME Typed, NEW b \in 0 .. N, NEW h \in 0 .. N, Stream(b, h), Handled(b, h), Dml
  PROVE  Handled(b, h)'
<1>1. ring # << >> /\ Head(ring) = ring[1] /\ ring[1] = dumpInfo /\ ring[1] \in Events
  <2>1. ring # << >> /\ ring[1] = dumpInfo
    BY DEF Dml, Typed, AtHead, Stream, Taken
  <2>2. ring \in Seq(Events) /\ 1 \in 1 .. Len(ring)
    BY <2>1, Numbers, EmptySeq
  <2>3. QED
    BY <2>1, <2>2, ElementOfSeq
<1>2. Range(obuf') = Range(obuf) \cup Range(CommandsOf(dumpInfo))
  <2>1. obuf \in Seq(Commands) /\ CommandsOf(dumpInfo) \in Seq(Commands)
    BY <1>1, CommandsOfEvent DEF Typed, TypeOK, Commands
  <2>2. obuf' = obuf \o CommandsOf(dumpInfo)
    BY <1>1 DEF Dml
  <2>3. QED
    BY <2>1, <2>2, RangeOfConcat
<1>3. /\ UNCHANGED <<applied, stops, info, dumpInfo, wire>>
      /\ rpc' \in {"commit", "flush"}
      /\ rpc' = "flush" => ~(cmdn' >= CommitNum)
  BY DEF Dml, Goto, diskVars, history
<1>4. cmdn' \in Nat
  <2>1. Cmds[Head(ring)] \in Nat /\ cmdn \in Nat
    BY <1>1, Constants DEF Typed, TypeOK
  <2>2. QED
    BY <2>1 DEF Dml
<1>5. CommandsUpTo(h) \ CommandsUpTo(b) \subseteq applied' \cup Range(obuf') \cup Range(wire')
  BY <1>2, <1>3 DEF Handled, Dml
<1>6. QED
  <2>1. rpc' = "flush" => cmdn' < CommitNum
    BY <1>3, <1>4, Constants
  <2>2. QED
    BY <1>3, <1>5, <2>1 DEF Handled

LEMMA HandledFlush ==
  ASSUME Typed, RepliesCounted, NEW b \in 0 .. N, NEW h \in 0 .. N, Stream(b, h), Handled(b, h),
         rpc \in {"flush", "idle"}, info' = dumpInfo, rpc' \in {"cut", "idleCut"},
         UNCHANGED <<dumpInfo, obuf, wire, cmdn, applied, stops>>
  PROVE  Handled(b, h)'
<1> DEFINE M == (CommandsUpTo(dumpInfo) \ CommandsUpTo(b)) \ applied
<1>1. dumpInfo \in 0 .. N /\ dumpInfo <= h
  BY DEF Typed, TypeOK, Stream
<1>2. wire = << >> /\ obuf \in Seq(Commands) /\ cmdn = Len(obuf) + Len(wire)
  BY DEF RepliesCounted, Typed, TypeOK, Commands
<1>3. Len(obuf) = cmdn /\ cmdn <= CommitNum - 1
  <2>1. Len(wire) = 0 /\ Len(obuf) \in Nat
    BY <1>2, LenProperties
  <2>2. cmdn < CommitNum
    BY Constants DEF Handled
  <2>3. QED
    BY <1>2, <2>1, <2>2, Constants
<1>4. M \subseteq Range(obuf)
  <2>1. CommandsUpTo(dumpInfo) \subseteq CommandsUpTo(h)
    BY <1>1, UpToProperties
  <2>2. CommandsUpTo(h) \ CommandsUpTo(b) \subseteq applied \cup Range(obuf) \cup Range(wire)
    BY DEF Handled
  <2>3. Range(wire) = {}
    BY <1>2, RangeOfEmpty
  <2>4. QED
    BY <2>1, <2>2, <2>3
<1>5. Cardinality(M) <= CommitNum - 1
  <2>1. IsFiniteSet(Range(obuf)) /\ Cardinality(Range(obuf)) <= CommitNum - 1
    <3>1. IsFiniteSet(Range(obuf)) /\ Cardinality(Range(obuf)) <= Len(obuf)
      BY <1>2, RangeSize
    <3>2. Cardinality(Range(obuf)) \in Nat /\ Len(obuf) \in Nat
      BY <1>2, <3>1, FS_CardinalityType, LenProperties
    <3>3. QED
      BY <1>3, <3>1, <3>2, Constants
  <2>2. Cardinality(M) <= Cardinality(Range(obuf)) /\ Cardinality(M) \in Nat
    BY <1>4, <2>1, FS_Subset, FS_CardinalityType
  <2>3. Cardinality(Range(obuf)) \in Nat
    BY <2>1, FS_CardinalityType
  <2>4. QED
    BY <2>1, <2>2, <2>3, Constants
<1>6. QED
  BY <1>5 DEF Handled

-----------------------------------------------------------------------------
(* Nothing is further back than the breaks can have set it.                *)

LEMMA ReplaysFrame ==
  ASSUME Typed, NEW h \in 0 .. N, Replays(h), UNCHANGED <<next, ring, dumpInfo, breaks>>,
         rpc' \in Taken <=> rpc \in Taken
  PROVE  Replays(h)'
BY BackGrows DEF Replays

LEMMA ReplaysStart ==
  ASSUME Typed, Down, Start
  PROVE  Replays(info)'
<1>1. /\ dumpInfo' = info /\ info' = info /\ ring' = << >> /\ next' = 0 /\ breaks' = breaks
  BY DEF Start, Down, ioVars, diskVars
<1>2. Len(ring') = 0 /\ 1 .. 0 = {}
  BY <1>1
<1>3. Back' = Back /\ Back \in Nat /\ info \in Nat
  BY <1>1, BackGrows, Numbers
<1>4. QED
  BY <1>1, <1>2, <1>3 DEF Replays

LEMMA ReplaysConnect ==
  ASSUME Typed, NEW h \in 0 .. N, Replays(h), Connect
  PROVE  Replays(h)'
<1>1. /\ next = 0 /\ next' = dumpInfo + 1 /\ UNCHANGED <<ring, dumpInfo, breaks, rpc>>
  BY DEF Connect, redisVars
<1>2. h \in Nat /\ Back' = Back
  BY <1>1, BackGrows, Constants
<1>3. QED
  BY <1>1, <1>2, Numbers DEF Replays

LEMMA ReplaysBreak ==
  ASSUME Typed, NEW h \in 0 .. N, Replays(h), Break
  PROVE  Replays(h)'
<1>1. /\ next' = 0 /\ breaks' = breaks + 1 /\ UNCHANGED <<ring, dumpInfo, rpc>>
  BY DEF Break, redisVars
<1>2. h \in Nat /\ Back' = Back + Num /\ Num \in Nat
  BY <1>1, BackGrows, Numbers, Constants
<1>3. \A i \in 1 .. Len(ring) : ring[i] <= dumpInfo + Back'
  BY <1>2, Numbers, SMTT(30) DEF Replays
<1>4. ASSUME NEW i \in 1 .. Len(ring), NEW j \in 1 .. Len(ring)
      PROVE  /\ ring[j] <= ring[i] + Back'
             /\ i < j => ring[i] < ring[j] + Back' /\ ring[j] <= ring[i] + Back' + (j - i)
  <2>0. ring[i] \in Nat /\ ring[j] \in Nat /\ Back \in Nat /\ i \in Nat /\ j \in Nat
    BY Numbers
  <2>1. CASE j < i
    <3>1. ring[j] < ring[i] + Back
      BY <2>1 DEF Replays
    <3>2. QED
      BY <1>2, <2>0, <2>1, <3>1
  <2>2. CASE j = i
    BY <1>2, <2>2, Numbers
  <2>3. CASE j > i
    <3>1. ring[i] < ring[j] + Back /\ ring[j] <= ring[i] + Back + (j - i)
      BY <2>3 DEF Replays
    <3>2. j - i \in Nat /\ j - i <= Num
      BY <1>2, <2>3, Numbers
    <3>3. QED
      BY <1>2, <2>0, <3>1, <3>2
  <2>4. QED
    BY <2>1, <2>2, <2>3
<1>5. \A i \in 1 .. Len(ring) :
        /\ i > 1 \/ rpc \notin Taken => h < ring[i] + Back'
        /\ ring[i] <= dumpInfo + Back' + i
  <2>1. \A i \in 1 .. Len(ring) : i > 1 \/ rpc \notin Taken => h < ring[i] + Back
    BY DEF Replays
  <2>2. \A i \in 1 .. Len(ring) : ring[i] <= dumpInfo + Back + i
    BY DEF Replays
  <2>0. dumpInfo \in Nat /\ Back \in Nat /\ Num \in Nat /\ Back' = Back + Num
    BY <1>2, Numbers
  <2>3. \A x, y \in Nat : x < y + Back => x < y + Back'
    BY <2>0
  <2>4. \A x, i \in Nat : x <= dumpInfo + Back + i => x <= dumpInfo + Back' + i
    BY <2>0
  <2>5. QED
    BY <1>2, <2>1, <2>2, <2>3, <2>4, Numbers
<1>6. h <= dumpInfo + Back'
  BY <1>2, Numbers DEF Replays
<1>7. QED
  BY <1>1, <1>3, <1>4, <1>5, <1>6 DEF Replays

LEMMA ReplaysRecv ==
  ASSUME Typed, NEW b \in 0 .. N, NEW h \in 0 .. N, Stream(b, h), Replays(h), Recv
  PROVE  Replays(h)'
<1> DEFINE k == Len(ring)
<1>1. /\ k \in Nat /\ h \in Nat /\ Back' = Back /\ Len(ring') = k + 1 /\ ring'[k + 1] = next
      /\ \A i \in 1 .. k : ring'[i] = ring[i] /\ ring[i] \in Nat
      /\ next' = next + 1 /\ next \in Nat /\ next # 0 /\ UNCHANGED <<dumpInfo, rpc>>
      /\ Back \in Nat /\ dumpInfo \in Nat
  BY BackGrows, Received, Numbers, Constants
<1>2. next <= h + 1 \/ (k \in 1 .. k /\ next = ring[k] + 1)
  <2>1. ring # << >> => k \in 1 .. k
    BY Numbers, EmptySeq
  <2>2. QED
    BY <1>1, <2>1 DEF Stream
<1> HIDE DEF k
<1>3. h <= dumpInfo + Back /\ h < next + Back
  BY <1>1 DEF Replays
<1>4. \A i \in 1 .. k : ring[i] < next + Back /\ ring[i] <= dumpInfo + Back + i
  BY <1>1 DEF Replays, k
<1>5. next <= dumpInfo + Back + (k + 1)
  BY <1>1, <1>2, <1>3, <1>4
<1>6. ASSUME NEW i \in 1 .. k PROVE next <= ring[i] + Back + ((k + 1) - i)
  <2>1. CASE next <= h + 1
    <3>1. CASE i > 1 \/ rpc \notin Taken
      <4>1. h < ring[i] + Back
        BY <3>1 DEF Replays, k
      <4>2. QED
        BY <1>1, <2>1, <4>1
    <3>2. CASE i = 1 /\ rpc \in Taken
      <4>1. ring[i] = dumpInfo
        BY <3>2 DEF Stream
      <4>2. QED
        BY <1>1, <1>3, <2>1, <4>1
    <3>3. QED
      BY <1>1, <3>1, <3>2
  <2>2. CASE k \in 1 .. k /\ next = ring[k] + 1
    <3>1. CASE i = k
      BY <1>1, <2>2, <3>1
    <3>2. CASE i < k
      <4>1. ring[k] <= ring[i] + Back + (k - i)
        BY <2>2, <3>2 DEF Replays, k
      <4>2. QED
        BY <1>1, <2>2, <3>2, <4>1, SMTT(30)
    <3>3. QED
      BY <1>1, <3>1, <3>2
  <2>3. QED
    BY <1>2, <2>1, <2>2
<1>7. \A i \in 1 .. k + 1 : i \in 1 .. k \/ i = k + 1
  BY <1>1
<1>8. \A i \in 1 .. k + 1 :
        /\ i > 1 \/ rpc \notin Taken => h < ring'[i] + Back
        /\ ring'[i] <= dumpInfo + Back + i
        /\ ring'[i] < next + 1 + Back
  <2>1. \A i \in 1 .. k : i > 1 \/ rpc \notin Taken => h < ring[i] + Back
    BY DEF Replays, k
  <2>2. QED
    BY <1>1, <1>3, <1>4, <1>5, <1>7, <2>1, SMTT(30)
<1>9. ASSUME NEW i \in 1 .. k + 1, NEW j \in 1 .. k + 1, i < j
      PROVE  ring'[i] < ring'[j] + Back /\ ring'[j] <= ring'[i] + Back + (j - i)
  <2>1. CASE j \in 1 .. k
    <3>1. i \in 1 .. k
      BY <1>1, <1>9, <2>1
    <3>2. QED
      BY <1>1, <1>9, <2>1, <3>1 DEF Replays, k
  <2>2. CASE j = k + 1
    <3>1. i \in 1 .. k
      BY <1>1, <1>9, <2>2
    <3>2. QED
      BY <1>1, <1>4, <1>6, <2>2, <3>1
  <2>3. QED
    BY <1>7, <2>1, <2>2
<1>10. QED
  BY <1>1, <1>3, <1>8, <1>9 DEF Replays

LEMMA ReplaysTake ==
  ASSUME Typed, NEW b \in 0 .. N, NEW h \in 0 .. N, Stream(b, h), Replays(h), Take,
         NEW g \in 0 .. N, g = Later(h)
  PROVE  Replays(g)'
<1>1. /\ g = h \/ g = ring[1]
      /\ g \in Nat /\ h \in Nat /\ ring[1] \in Nat /\ Back' = Back /\ Back \in Nat /\ next \in Nat
      /\ 1 \in 1 .. Len(ring) /\ dumpInfo' = ring[1] /\ UNCHANGED <<ring, next>>
      /\ rpc = "take" /\ rpc' = "nul"
  BY LaterTaken, TakenRecord, BackGrows, Numbers, Constants
<1>2. h < ring[1] + Back
  BY <1>1 DEF Replays, Taken
<1>3. \A i \in 1 .. Len(ring) : i > 1 => /\ h < ring[i] + Back /\ ring[1] < ring[i] + Back
                                        /\ ring[i] <= ring[1] + Back + (i - 1)
  BY <1>1, Numbers DEF Replays
<1>4. \A i \in 1 .. Len(ring) : ring[i] <= ring[1] + Back + i
  BY <1>1, <1>3, Numbers
<1>5. next # 0 => h < next + Back /\ ring[1] < next + Back
  BY <1>1 DEF Replays
<1>6. next = 0 => \A i \in 1 .. Len(ring) : ring[i] <= ring[1] + Back
  BY <1>1 DEF Replays
<1>7. /\ g <= ring[1] + Back
      /\ \A i \in 1 .. Len(ring) : i > 1 => g < ring[i] + Back
      /\ next # 0 => g < next + Back
  BY <1>1, <1>2, <1>3, <1>5
<1>8. QED
  BY <1>1, <1>4, <1>6, <1>7 DEF Replays, Taken

LEMMA ReplaysAdvance ==
  ASSUME Typed, NEW b \in 0 .. N, NEW h \in 0 .. N, Stream(b, h), Replays(h), Advance
  PROVE  Replays(h)'
<1> DEFINE k == Len(ring) - 1
<1>1. /\ k \in Nat /\ Len(ring') = k /\ 1 \in 1 .. Len(ring) /\ ring[1] = dumpInfo
      /\ \A i \in 1 .. k : ring'[i] = ring[i + 1] /\ i + 1 \in 1 .. Len(ring) /\ i + 1 > 1
      /\ Back' = Back /\ Back \in Nat /\ h \in Nat /\ dumpInfo \in Nat
      /\ UNCHANGED <<next, dumpInfo>>
  BY GivenBack, BackGrows, Numbers, Constants, SMTT(30) DEF Stream, Taken
<1>2. \A i \in 1 .. k : h < ring'[i] + Back
  BY <1>1 DEF Replays
<1>3. \A i \in 1 .. k : ring'[i] <= dumpInfo + Back + i
  <2>1. \A i \in 1 .. k : ring[i + 1] <= ring[1] + Back + ((i + 1) - 1) /\ (i + 1) - 1 = i
    BY <1>1 DEF Replays
  <2>2. QED
    BY <1>1, <2>1
<1>4. ASSUME NEW i \in 1 .. k, NEW j \in 1 .. k, i < j
      PROVE  ring'[i] < ring'[j] + Back /\ ring'[j] <= ring'[i] + Back + (j - i)
  <2>1. i + 1 < j + 1 /\ (j + 1) - (i + 1) = j - i
    BY <1>1, <1>4
  <2>2. QED
    BY <1>1, <2>1 DEF Replays
<1>5. /\ next # 0 => h < next + Back /\ \A i \in 1 .. k : ring'[i] < next + Back
      /\ next = 0 => \A i \in 1 .. k :
           ring'[i] <= dumpInfo + Back /\ \A j \in 1 .. k : ring'[j] <= ring'[i] + Back
  BY <1>1 DEF Replays
<1>6. h <= dumpInfo + Back
  BY DEF Replays
<1>7. QED
  BY <1>1, <1>2, <1>3, <1>4, <1>5, <1>6 DEF Replays

-----------------------------------------------------------------------------
(* slave.info.                                                             *)

LEMMA SavedFrame ==
  ASSUME Typed, NEW b \in 0 .. N, NEW h \in 0 .. N, Saved(b, h),
         UNCHANGED <<curSave, breaks, info, maxSeen, stops>>, due => due',
         rpc' \in Handling <=> rpc \in Handling
  PROVE  Saved(b, h)'
<1>1. Back' = Back /\ Lag' = Lag
  BY BackGrows DEF Lag
<1>2. QED
  BY <1>1 DEF Saved

LEMMA SavedStart ==
  ASSUME Typed, Down, Start
  PROVE  Saved(info, info)'
<1>1. /\ info' = info /\ curSave' = 0 /\ due' /\ UNCHANGED <<maxSeen, stops, breaks>>
  BY DEF Start, Down, ioVars, diskVars, history
<1>2. Back' = Back /\ Lag' = Lag
  BY <1>1, BackGrows DEF Lag
<1>3. QED
  BY <1>1, <1>2, LagSize DEF Saved, Down

LEMMA SavedBreak ==
  ASSUME Typed, NEW b \in 0 .. N, NEW h \in 0 .. N, Saved(b, h), Break
  PROVE  Saved(b, h)'
<1>1. /\ breaks' = breaks + 1 /\ UNCHANGED <<rpc, curSave, due, info, maxSeen, stops>>
  BY DEF Break, redisVars, diskVars, history
<1>2. /\ Lag' = Lag /\ Back' = Back + Num /\ Num \in Nat /\ Back \in Nat /\ h \in Nat /\ b \in Nat
      /\ info \in Nat /\ curSave \in Nat /\ maxSeen \in Nat /\ Lag \in Nat
  BY <1>1, BackGrows, Numbers, Constants, LagSize DEF Lag
<1>3. h < info + Back + curSave => h < info + Back' + curSave
  BY <1>2
<1>4. maxSeen <= b + Back + Lag => maxSeen <= b + Back' + Lag
  BY <1>2
<1>5. QED
  BY <1>1, <1>2, <1>3, <1>4 DEF Saved

LEMMA SavedTake ==
  ASSUME Typed, NEW b \in 0 .. N, NEW h \in 0 .. N, Stream(b, h), Saved(b, h), Take,
         NEW g \in 0 .. N, g = Later(h)
  PROVE  Saved(b, g)'
<1>1. /\ UNCHANGED <<due, info, stops>> /\ rpc = "take" /\ rpc' = "nul" /\ curSave' = curSave + 1
      /\ maxSeen' = (IF maxSeen >= ring[1] THEN maxSeen ELSE ring[1])
      /\ Lag' = Lag /\ Back' = Back
      /\ Back \in Nat /\ h \in Nat /\ g \in Nat /\ b \in Nat /\ ring[1] \in Nat /\ Lag \in Nat
      /\ info \in Nat /\ curSave \in Nat /\ maxSeen \in Nat
  BY TakenRecord, BackGrows, Numbers, Constants, LagSize DEF Lag
<1>2. h <= g /\ g <= h + 1 /\ ring[1] <= g /\ (g = h \/ g = ring[1])
  BY LaterTaken
<1>3. curSave' <= Lag + 1
  BY <1>1 DEF Saved, Handling
<1>4. \/ g < info + Back + curSave'
      \/ due /\ curSave' = 1 /\ g <= info + 1
  <2>1. CASE h < info + Back + curSave
    BY <1>1, <1>2, <2>1
  <2>2. CASE due /\ curSave = 0 /\ h = info
    BY <1>1, <1>2, <2>2
  <2>3. QED
    BY <1>1, <2>1, <2>2 DEF Saved, Handling
<1>5. g <= maxSeen' /\ (g = maxSeen' \/ (stops > 0 /\ maxSeen' <= b + Back + Lag))
  <2>1. h <= maxSeen /\ (h = maxSeen \/ (stops > 0 /\ maxSeen <= b + Back + Lag))
    BY DEF Saved
  <2>2. CASE maxSeen >= ring[1]
    BY <1>1, <1>2, <2>1, <2>2
  <2>3. CASE maxSeen < ring[1]
    BY <1>1, <1>2, <2>1, <2>3
  <2>4. QED
    BY <1>1, <2>2, <2>3
<1>6. QED
  BY <1>1, <1>3, <1>4, <1>5 DEF Saved, Handling

\* The flush that writes slave.info, and the one that finds it too early.
LEMMA SavedFlush ==
  ASSUME Typed, NEW b \in 0 .. N, NEW h \in 0 .. N, Replays(h), Saved(b, h), Flush
  PROVE  Saved(b, h)'
<1>0. /\ Back \in Nat /\ h \in Nat /\ Lag \in Nat /\ Lag >= 1 /\ Lag >= SaveNum - 1 /\ SaveNum \in Nat
      /\ dumpInfo \in Nat /\ info \in Nat /\ curSave \in Nat
  BY Numbers, Constants, LagSize
<1>1. /\ UNCHANGED <<breaks, dumpInfo, maxSeen, stops>>
      /\ rpc' \in {"cut", "idleCut", "advance", "get"}
  BY Zenon DEF Flush, Goto, ioVars, history
<1>2. Lag' = Lag /\ Back' = Back
  BY <1>1, BackGrows DEF Lag
<1>3. CASE curSave >= SaveNum \/ due
  <2>1. info' = dumpInfo /\ curSave' = 1
    BY <1>3, Zenon DEF Flush
  <2>2. h < info' + Back + curSave'
    BY <1>0, <2>1 DEF Replays
  <2>3. curSave' <= Lag
    BY <1>0, <2>1
  <2>4. QED
    BY <1>0, <1>1, <1>2, <2>1, <2>2, <2>3 DEF Saved, Handling
<1>4. CASE ~(curSave >= SaveNum \/ due)
  <2>1. info' = info /\ curSave' = curSave
    BY <1>4, Zenon DEF Flush
  <2>2. ~due /\ curSave < SaveNum
    BY <1>0, <1>4
  <2>3. curSave' <= Lag /\ h < info' + Back + curSave'
    BY <1>0, <2>1, <2>2 DEF Saved
  <2>4. QED
    BY <1>0, <1>1, <1>2, <2>1, <2>3 DEF Saved, Handling
<1>5. QED
  BY <1>3, <1>4

-----------------------------------------------------------------------------
(* The invariant.                                                          *)

\* A slave that starts without slave.info begins at 0.
LEMMA ReplayInit == Init => ReplayInv
<1> SUFFICES ASSUME Init PROVE Life(0, 0)
  <2>1. Init => Up
    BY DEF Init, Up
  <2>2. 0 \in 0 .. N
    BY Constants
  <2>3. QED
    BY <2>1, <2>2 DEF ReplayInv
<1>1. Len(ring) = 0 /\ 1 .. 0 = {} /\ Back \in Nat
  <2>1. breaks = 0 /\ ring = << >>
    BY DEF Init
  <2>2. QED
    BY <2>1, Constants DEF Back
<1>2. Stream(0, 0) /\ Replays(0)
  BY <1>1 DEF Init, Stream, Replays, Taken
<1>3. Saved(0, 0)
  BY <1>1, LagSize DEF Init, Saved, Handling
<1>4. Handled(0, 0)
  <2>1. CommandsUpTo(0) = {}
    BY DEF CommandsUpTo
  <2>2. Cardinality({}) = 0
    BY FS_EmptySet
  <2>3. info = 0 /\ stops = 0 /\ rpc = "get" /\ {} \ applied = {} /\ {} \ {} = {}
    BY DEF Init
  <2>4. 0 <= stops * (CommitNum - 1) /\ 0 <= CommitNum - 1
    BY <2>3, Constants
  <2>5. /\ Cardinality(CommandsUpTo(0) \ applied) <= stops * (CommitNum - 1)
        /\ Cardinality((CommandsUpTo(info) \ CommandsUpTo(0)) \ applied) <= CommitNum - 1
    BY <2>1, <2>2, <2>3, <2>4
  <2>6. QED
    BY <2>1, <2>3, <2>5 DEF Handled
<1>5. QED
  BY <1>2, <1>3, <1>4 DEF Life

\* While the process is up its life goes on.
LEMMA LifeStep ==
  ASSUME Typed, RepliesCounted, [Next]_vars, Up, Up', ~torn',
         NEW b \in 0 .. N, NEW h \in 0 .. N, Life(b, h)
  PROVE  \E g \in 0 .. N : Life(b, g)'
<1> USE DEF Life
<1>1. CASE Connect
  <2>1. Handled(b, h)'
    BY <1>1, HandledFrame DEF Connect, redisVars, diskVars, history, Handled
  <2>2. Saved(b, h)'
    BY <1>1, SavedFrame DEF Connect, redisVars, diskVars, history
  <2>3. QED
    BY <1>1, <2>1, <2>2, StreamConnect, ReplaysConnect
<1>2. CASE Recv
  <2>1. Handled(b, h)'
    BY <1>2, HandledFrame, Received DEF Handled
  <2>2. Saved(b, h)'
    BY <1>2, SavedFrame, Received
  <2>3. QED
    BY <1>2, <2>1, <2>2, StreamRecv, ReplaysRecv
<1>3. CASE Break
  <2>1. Handled(b, h)'
    BY <1>3, HandledFrame DEF Break, redisVars, diskVars, history, Handled
  <2>2. QED
    BY <1>3, <2>1, StreamBreak, ReplaysBreak, SavedBreak
<1>4. CASE Get \/ Spin \/ TakeEnd \/ RepliesRead \/ Truncate \/ Tick \/ UNCHANGED vars
  <2>1. /\ UNCHANGED <<next, breaks, ring, dumpInfo, obuf, wire, cmdn, curSave, info, applied,
                       maxSeen, stops>>
        /\ due => due'
        /\ rpc' \in Taken <=> rpc \in Taken
        /\ rpc' \in Handling <=> rpc \in Handling
        /\ rpc \in {"nul", "dml"} => rpc' \in {"nul", "dml"}
    BY <1>4 DEF Get, Spin, TakeEnd, RepliesRead, Truncate, Tick, vars, Goto, ioVars, redisVars,
                diskVars, history, Taken, Handling
  <2>2. /\ rpc' = "flush" => cmdn' < CommitNum
        /\ rpc' \in {"spin", "idle"} => cmdn' = 0
    BY <1>4, <2>1, Constants
       DEF Get, Spin, TakeEnd, RepliesRead, Truncate, Tick, vars, Goto, redisVars, Handled
  <2>3. Handled(b, h)'
    BY <2>1, <2>2, HandledFrame
  <2>4. QED
    BY <2>1, <2>3, StreamFrame, ReplaysFrame, SavedFrame
<1>5. CASE SendOut
  <2>1. /\ UNCHANGED <<next, breaks, ring, dumpInfo, rpc, cmdn, curSave, due, info, applied,
                       maxSeen, stops>>
        /\ wire' = wire \o obuf /\ obuf' = << >>
    BY <1>5 DEF SendOut, ioVars, diskVars, history
  <2>2. Range(obuf) \cup Range(wire) \subseteq Range(obuf') \cup Range(wire')
    <3>1. wire \in Seq(Commands) /\ obuf \in Seq(Commands)
      BY DEF Typed, TypeOK, Commands
    <3>2. QED
      BY <2>1, <3>1, RangeOfConcat
  <2>3. Handled(b, h)'
    BY <2>1, <2>2, HandledFrame DEF Handled
  <2>4. QED
    BY <2>1, <2>3, StreamFrame, ReplaysFrame, SavedFrame
<1>6. CASE Reply
  <2>1. UNCHANGED <<next, breaks, ring, dumpInfo, rpc, curSave, due, info, maxSeen, stops>>
    BY <1>6 DEF Reply, ioVars, history
  <2>2. QED
    BY <1>6, <2>1, HandledReply, StreamFrame, ReplaysFrame, SavedFrame
<1>7. CASE Take
  <2>1. Later(h) \in 0 .. N
    BY <1>7, LaterTaken
  <2>2. QED
    BY <1>7, <2>1, StreamTake, HandledTake, ReplaysTake, SavedTake
<1>8. CASE Dml
  <2>1. /\ UNCHANGED <<next, breaks, ring, dumpInfo, curSave, due, info, maxSeen, stops>>
        /\ rpc = "dml" /\ rpc' \in {"commit", "flush"}
    BY <1>8 DEF Dml, Goto, ioVars, diskVars, history
  <2>2. /\ rpc' \in Taken <=> rpc \in Taken
        /\ rpc' \in Handling <=> rpc \in Handling
    BY <2>1 DEF Taken, Handling
  <2>3. QED
    BY <1>8, <2>1, <2>2, HandledDml, StreamFrame, ReplaysFrame, SavedFrame
<1>9. CASE Flush
  <2>1. /\ UNCHANGED <<next, breaks, ring, dumpInfo, obuf, wire, cmdn, applied, stops>>
        /\ rpc \in {"flush", "idle"}
        /\ info' = info \/ info' = dumpInfo
    BY <1>9, Zenon DEF Flush, ioVars, history
  <2>2. \/ info' = dumpInfo /\ rpc' \in {"cut", "idleCut"}
        \/ info' = info /\ rpc' \in {"advance", "get"}
    BY <1>9, Zenon DEF Flush, Goto
  <2>3. rpc' \in Taken <=> rpc \in Taken
    <3>1. rpc = "flush" => rpc' \in {"cut", "advance"}
      BY <1>9, Zenon DEF Flush, Goto
    <3>2. rpc = "idle" => rpc' \in {"idleCut", "get"}
      BY <1>9 DEF Flush, Goto
    <3>3. QED
      BY <2>1, <3>1, <3>2 DEF Taken
  <2>4. Handled(b, h)'
    <3>1. CASE info' = dumpInfo /\ rpc' \in {"cut", "idleCut"}
      BY <2>1, <3>1, HandledFlush
    <3>2. CASE info' = info /\ rpc' \in {"advance", "get"}
      BY <2>1, <3>2, HandledFrame
    <3>3. QED
      BY <2>2, <3>1, <3>2
  <2>5. QED
    BY <1>9, <2>1, <2>3, <2>4, StreamFrame, ReplaysFrame, SavedFlush
<1>10. CASE Advance
  <2>1. Handled(b, h)'
    BY <1>10, GivenBack, HandledFrame
  <2>2. Saved(b, h)'
    BY <1>10, GivenBack, SavedFrame DEF Handling
  <2>3. QED
    BY <1>10, <2>1, <2>2, StreamAdvance, ReplaysAdvance
<1>11. CASE ConnectTorn \/ Stop \/ Start \/ StartTorn
  BY <1>11 DEF ConnectTorn, Stop, Start, StartTorn, Up, Goto
<1>12. QED
  BY <1>1, <1>2, <1>3, <1>4, <1>5, <1>6, <1>7, <1>8, <1>9, <1>10, <1>11
     DEF Next, IoThread, RedisThread

\* A stop loses what was on its way, less than CommitNum commands of those that
\* slave.info covers.
LEMMA LifeEnds ==
  ASSUME Typed, Typed', Stop, NEW b \in 0 .. N, NEW h \in 0 .. N, Life(b, h)
  PROVE  Down'
<1>1. /\ next' = 0 /\ ring' = << >> /\ obuf' = << >> /\ wire' = << >> /\ cmdn' = 0
      /\ curSave' = 0 /\ due' = TRUE /\ stops' = stops + 1
      /\ UNCHANGED <<breaks, info, maxSeen>> /\ applied \subseteq applied'
  BY DEF Stop
<1>2. /\ Back' = Back /\ Lag' = Lag /\ Back \in Nat /\ Lag \in Nat /\ Lag >= 1 /\ info \in 0 .. N
      /\ info \in Nat /\ b \in Nat /\ h \in Nat /\ maxSeen \in Nat /\ curSave \in Nat /\ stops \in Nat
      /\ b <= info /\ info <= h
  BY <1>1, BackGrows, LagSize, Numbers, Constants DEF Lag, Life, Stream, Typed, TypeOK
<1>3. maxSeen <= info + Back + Lag /\ info <= maxSeen
  <2>1. h <= info + Back + Lag
    BY <1>2 DEF Life, Saved
  <2>2. QED
    BY <1>2, <2>1 DEF Life, Saved
<1>4. Cardinality(CommandsUpTo(info) \ applied') <= stops' * (CommitNum - 1)
  <2> DEFINE A == CommandsUpTo(b) \ applied
             B == (CommandsUpTo(info) \ CommandsUpTo(b)) \ applied
             C == CommandsUpTo(info) \ applied'
  <2>1. IsFiniteSet(A) /\ IsFiniteSet(B) /\ C \subseteq A \cup B
    <3>1. IsFiniteSet(CommandsUpTo(b)) /\ IsFiniteSet(CommandsUpTo(info))
      BY <1>2, UpToProperties
    <3>2. QED
      BY <1>1, <3>1, FS_Difference
  <2>2. Cardinality(A) <= stops * (CommitNum - 1) /\ Cardinality(B) <= CommitNum - 1
    BY DEF Life, Handled
  <2> HIDE DEF A, B, C
  <2>3. /\ IsFiniteSet(A \cup B) /\ Cardinality(A \cup B) <= Cardinality(A) + Cardinality(B)
        /\ Cardinality(A) \in Nat /\ Cardinality(B) \in Nat /\ Cardinality(A \cup B) \in Nat
    <3>1. /\ IsFiniteSet(A \cup B) /\ IsFiniteSet(A \cap B)
          /\ Cardinality(A \cup B) = Cardinality(A) + Cardinality(B) - Cardinality(A \cap B)
      BY <2>1, FS_Union, FS_Intersection
    <3>2. /\ Cardinality(A) \in Nat /\ Cardinality(B) \in Nat /\ Cardinality(A \cup B) \in Nat
          /\ Cardinality(A \cap B) \in Nat
      BY <2>1, <3>1, FS_CardinalityType
    <3>3. QED
      BY <3>1, <3>2
  <2>4. Cardinality(C) <= Cardinality(A \cup B) /\ Cardinality(C) \in Nat
    BY <2>1, <2>3, FS_Subset, FS_CardinalityType
  <2>5. /\ stops' * (CommitNum - 1) = stops * (CommitNum - 1) + (CommitNum - 1)
        /\ stops * (CommitNum - 1) \in Int /\ CommitNum - 1 \in Int
    <3>1. \A x, y \in Int : (x + 1) * y = x * y + y /\ x * y \in Int
      OBVIOUS
    <3>2. CommitNum - 1 \in Int /\ stops \in Int
      BY <1>2, Constants
    <3>3. QED
      BY <1>1, <3>1, <3>2
  <2>6. QED
    BY <2>2, <2>3, <2>4, <2>5 DEF C
<1>5. QED
  BY <1>1, <1>2, <1>3, <1>4 DEF Down

LEMMA ReplayStep ==
  Typed /\ Typed' /\ RepliesCounted /\ ReplayInv /\ [Next]_vars => ReplayInv'
<1> SUFFICES ASSUME Typed, Typed', RepliesCounted, ReplayInv, [Next]_vars, ~torn'
             PROVE  IF Up' THEN \E b, h \in 0 .. N : Life(b, h)' ELSE Down'
  BY DEF ReplayInv
<1>1. ~torn
  BY DEF Next, IoThread, RedisThread, Connect, ConnectTorn, Recv, Break, Get, SendOut, Reply,
         RepliesRead, Spin, Take, TakeEnd, Dml, Flush, Truncate, Advance, Tick, Stop, Start,
         StartTorn, vars, history
<1>2. CASE Up /\ Up'
  <2>1. PICK b \in 0 .. N, h \in 0 .. N : Life(b, h)
    BY <1>1, <1>2 DEF ReplayInv
  <2>2. PICK g \in 0 .. N : Life(b, g)'
    BY <1>2, <2>1, LifeStep
  <2>3. QED
    BY <1>2, <2>2
<1>3. CASE Up /\ ~Up'
  <2>1. PICK b \in 0 .. N, h \in 0 .. N : Life(b, h)
    BY <1>1, <1>3 DEF ReplayInv
  <2>2. Stop
    BY <1>3 DEF Up, Next, IoThread, RedisThread, Connect, ConnectTorn, Recv, Break, Get, SendOut,
         Reply, RepliesRead, Spin, Take, TakeEnd, Dml, Flush, Truncate, Advance, Tick, Start,
         StartTorn, vars, redisVars, Goto
  <2>3. QED
    BY <1>3, <2>1, <2>2, LifeEnds
<1>4. CASE ~Up /\ Up'
  <2>1. Down
    BY <1>1, <1>4 DEF ReplayInv
  <2>2. Start
    BY <1>4 DEF Up, Next, IoThread, RedisThread, Connect, ConnectTorn, Recv, Break, Get, SendOut,
         Reply, RepliesRead, Spin, Take, TakeEnd, Dml, Flush, Truncate, Advance, Tick, Stop,
         StartTorn, vars, redisVars
  <2>3. info \in 0 .. N
    BY DEF Typed, TypeOK
  <2>4. Life(info, info)'
    BY <2>1, <2>2, StreamStart, HandledStart, ReplaysStart, SavedStart DEF Life
  <2>5. info' = info
    BY <2>2 DEF Start, diskVars
  <2>6. QED
    BY <1>4, <2>3, <2>4, <2>5
<1>5. CASE ~Up /\ ~Up'
  <2>1. Down
    BY <1>1, <1>5 DEF ReplayInv
  <2>2. UNCHANGED vars
    BY <1>5 DEF Up, Next, IoThread, RedisThread, Connect, ConnectTorn, Recv, Break, Get, SendOut,
         Reply, RepliesRead, Spin, Take, TakeEnd, Dml, Flush, Truncate, Advance, Tick, Stop,
         Start, StartTorn, Goto
  <2>3. QED
    BY <1>5, <2>1, <2>2 DEF Down, Back, Lag, vars, ioVars, redisVars, diskVars, history
<1>6. QED
  BY <1>2, <1>3, <1>4, <1>5

LEMMA ReplayInvariant == Spec => []ReplayInv
<1>1. Typed /\ Typed' /\ RepliesCounted /\ ReplayInv /\ [Next]_vars => ReplayInv'
  BY ReplayStep
<1>2. QED
  BY <1>1, ReplayInit, TypedAlways, RepliesAreExact, PTL DEF Spec

-----------------------------------------------------------------------------
(* The theorems.                                                           *)

\* slave.info runs ahead of Redis by less than RS_REDIS_CMD_COMMIT_NUM commands,
\* and every stop of the process loses less than that many, however often the
\* connection breaks in between, until the slave resumes from a half-written
\* position.
THEOREM LossIsBounded == Spec => []LossBound
<1>1. Typed /\ ReplayInv => LossBound
  <2> SUFFICES ASSUME Typed, ReplayInv, ~torn
               PROVE  Cardinality(Unapplied) <= (stops + 1) * (CommitNum - 1)
    BY DEF LossBound
  <2>1. /\ stops \in Nat /\ CommitNum - 1 \in Nat /\ stops * (CommitNum - 1) \in Nat
        /\ (stops + 1) * (CommitNum - 1) = stops * (CommitNum - 1) + (CommitNum - 1)
    <3>1. \A x, y \in Nat : (x + 1) * y = x * y + y /\ x * y \in Nat
      OBVIOUS
    <3>2. stops \in Nat /\ CommitNum - 1 \in Nat
      BY Numbers, Constants
    <3>3. QED
      BY <3>1, <3>2
  <2>2. info \in 0 .. N
    BY DEF Typed, TypeOK
  <2>3. Cardinality(Unapplied) \in Nat
    BY <2>2, UpToProperties, FS_Difference, FS_CardinalityType DEF Unapplied
  <2>4. CASE ~Up
    BY <2>1, <2>3, <2>4 DEF ReplayInv, Down, Unapplied
  <2>5. CASE Up
    <3>1. PICK b \in 0 .. N, h \in 0 .. N : Life(b, h)
      BY <2>5 DEF ReplayInv
    <3> DEFINE A == CommandsUpTo(b) \ applied
               B == (CommandsUpTo(info) \ CommandsUpTo(b)) \ applied
    <3>2. IsFiniteSet(A) /\ IsFiniteSet(B) /\ Unapplied \subseteq A \cup B
      BY <2>2, UpToProperties, FS_Difference DEF Unapplied
    <3>3. Cardinality(A) <= stops * (CommitNum - 1) /\ Cardinality(B) <= CommitNum - 1
      BY <3>1 DEF Life, Handled
    <3> HIDE DEF A, B
    <3>4. /\ IsFiniteSet(A \cup B) /\ IsFiniteSet(A \cap B)
          /\ Cardinality(A \cup B) = Cardinality(A) + Cardinality(B) - Cardinality(A \cap B)
      BY <3>2, FS_Union, FS_Intersection
    <3>5. /\ Cardinality(A) \in Nat /\ Cardinality(B) \in Nat /\ Cardinality(A \cap B) \in Nat
          /\ Cardinality(A \cup B) \in Nat
      BY <3>2, <3>4, FS_CardinalityType
    <3>6. Cardinality(Unapplied) <= Cardinality(A \cup B)
      BY <3>2, <3>4, FS_Subset
    <3>7. QED
      BY <2>1, <2>3, <3>3, <3>4, <3>5, <3>6
  <2>6. QED
    BY <2>4, <2>5
<1>2. QED
  BY <1>1, TypedAlways, ReplayInvariant, PTL

\* A record that comes again is at most as far back as one ring for each broken
\* connection, and, after a restart, the records since the last flush, until the
\* slave resumes from a half-written position.
THEOREM ReplayIsBounded == Spec => ReplayBounded
<1>1. ASSUME Typed, ReplayInv, [Next]_vars, rpc = "take", rpc' = "nul", ~torn
      PROVE  maxSeen < dumpInfo' + breaks * Num + (IF stops = 0 THEN 0 ELSE Max({1, SaveNum - 1}))
  <2>1. Take
    BY <1>1 DEF Next, IoThread, RedisThread, Connect, ConnectTorn, Recv, Break, Get, SendOut,
         Reply, RepliesRead, Spin, TakeEnd, Dml, Flush, Truncate, Advance, Tick, Stop, Start,
         StartTorn, vars, redisVars, Goto
  <2>2. PICK b \in 0 .. N, h \in 0 .. N : Life(b, h)
    BY <1>1 DEF ReplayInv, Up
  <2>3. /\ b \in Nat /\ h \in Nat /\ Back \in Nat /\ Lag \in Nat /\ maxSeen \in Nat /\ stops \in Nat
        /\ dumpInfo' = ring[1] /\ ring[1] \in Nat
    BY <1>1, <2>1, TakenRecord, Numbers, LagSize, Constants
  <2>4. h < ring[1] + Back /\ ring[1] > b
    BY <1>1, <2>1, <2>2, TakenRecord DEF Life, Replays, Stream, Taken
  <2>5. maxSeen < ring[1] + Back + (IF stops = 0 THEN 0 ELSE Lag)
    BY <2>2, <2>3, <2>4 DEF Life, Saved
  <2>6. QED
    BY <2>3, <2>5 DEF Back, Lag
<1>2. QED
  BY <1>1, TypedAlways, ReplayInvariant, PTL DEF Spec, ReplayBounded

-----------------------------------------------------------------------------
(* What Redis agrees with: the last event of each key among the first h.   *)

\* A set of numbers has a least one: the intervals below them are finite sets.
LEMMA LeastElement ==
  ASSUME NEW T, T \subseteq Nat, T # {}
  PROVE  \E m \in T : \A n \in T : m <= n
<1> DEFINE R == StrictSubsetOrdering(Nat)
           I == {0 .. n : n \in T}
<1>1. IsWellFoundedOn(R, FiniteSubsetsOf(Nat))
  BY FS_StrictSubsetOrderingWellFounded
<1>2. \A n \in T : IsFiniteSet(0 .. n) /\ 0 .. n \subseteq Nat
  BY FS_Interval
<1>3. I \subseteq FiniteSubsetsOf(Nat) /\ I # {}
  BY <1>2 DEF FiniteSubsetsOf
<1> HIDE DEF R
<1>4. \E x \in I : \A y \in I : ~ (<<y, x>> \in R)
  <2> HIDE DEF I
  <2>1. QED
    BY <1>1, <1>3, WFMin
<1>5. PICK m \in T : \A n \in T : ~ (<<0 .. n, 0 .. m>> \in R)
  BY <1>4
<1>6. ASSUME NEW n \in T, ~ (m <= n) PROVE FALSE
  <2>1. n \in Nat /\ m \in Nat /\ n < m
    BY <1>6
  <2>2. 0 .. n \subseteq 0 .. m /\ m \in 0 .. m /\ m \notin 0 .. n
    BY <2>1
  <2>3. <<0 .. n, 0 .. m>> \in R
    BY <2>1, <2>2 DEF R, StrictSubsetOrdering
  <2>4. QED
    BY <2>3, <1>5, <1>6
<1>7. QED
  BY <1>5, <1>6

\* A bounded one has a greatest, at the least distance from the bound.
LEMMA GreatestElement ==
  ASSUME NEW b \in Nat, NEW T, T \subseteq 0 .. b, T # {}
  PROVE  \E m \in T : \A n \in T : n <= m
<1> DEFINE D == {b - n : n \in T}
<1>1. D \subseteq Nat /\ D # {}
  <2>1. \A n \in T : b - n \in Nat
    OBVIOUS
  <2>2. QED
    BY <2>1
<1>2. PICK d \in D : \A e \in D : d <= e
  BY <1>1, LeastElement
<1>3. PICK m \in T : d = b - m
  BY <1>2
<1>4. ASSUME NEW n \in T PROVE n <= m
  <2>1. b - m <= b - n
    BY <1>2, <1>3
  <2>2. QED
    BY <2>1
<1>5. QED
  BY <1>4

Wanted(k, h)   == {e \in 1 .. h : Key[e] = k /\ Cmds[e] > 0}
LastUpTo(k, h) == Max({0} \cup Wanted(k, h))

LEMMA LastUpToIs ==
  ASSUME NEW k, NEW h \in Nat
  PROVE  /\ LastUpTo(k, h) \in 0 .. h /\ LastUpTo(k, h) \in {0} \cup Wanted(k, h)
         /\ \A e \in Wanted(k, h) : e <= LastUpTo(k, h)
<1> DEFINE T == {0} \cup Wanted(k, h)
<1>1. T \subseteq 0 .. h /\ T # {}
  BY DEF Wanted
<1> HIDE DEF T
<1>2. \E m \in T : \A n \in T : m >= n
  <2>1. PICK m \in T : \A n \in T : n <= m
    BY <1>1, GreatestElement
  <2>2. QED
    BY <1>1, <2>1
<1>3. Max(T) \in T /\ \A n \in T : Max(T) >= n
  BY <1>2, Zenon DEF Max
<1>4. \A n \in T : n <= Max(T)
  BY <1>1, <1>3
<1>5. Max(T) = LastUpTo(k, h)
  BY DEF T, LastUpTo
<1>6. QED
  BY <1>1, <1>3, <1>4, <1>5 DEF T

\* It is the only one.
LEMMA LastUpToOnly ==
  ASSUME NEW k, NEW h \in Nat, NEW x \in {0} \cup Wanted(k, h), \A e \in Wanted(k, h) : e <= x
  PROVE  LastUpTo(k, h) = x
<1>1. LastUpTo(k, h) \in {0} \cup Wanted(k, h) /\ \A e \in Wanted(k, h) : e <= LastUpTo(k, h)
  BY LastUpToIs
<1>2. LastUpTo(k, h) \in Nat /\ x \in Nat
  BY LastUpToIs DEF Wanted
<1>3. x <= LastUpTo(k, h) /\ LastUpTo(k, h) <= x
  BY <1>1, <1>2
<1>4. QED
  BY <1>2, <1>3

LEMMA LastUpToNext ==
  ASSUME NEW k, NEW h \in Nat
  PROVE  LastUpTo(k, h + 1) = IF Key[h + 1] = k /\ Cmds[h + 1] > 0 THEN h + 1 ELSE LastUpTo(k, h)
<1>0. h + 1 \in Nat /\ 1 .. h + 1 = (1 .. h) \cup {h + 1}
  OBVIOUS
<1>1. CASE Key[h + 1] = k /\ Cmds[h + 1] > 0
  <2>1. h + 1 \in Wanted(k, h + 1) /\ \A e \in Wanted(k, h + 1) : e <= h + 1
    BY <1>0, <1>1 DEF Wanted
  <2>2. LastUpTo(k, h + 1) = h + 1
    BY <1>0, <2>1, LastUpToOnly
  <2>3. QED
    BY <1>1, <2>2
<1>2. CASE ~ (Key[h + 1] = k /\ Cmds[h + 1] > 0)
  <2>1. Wanted(k, h + 1) = Wanted(k, h)
    BY <1>0, <1>2 DEF Wanted
  <2>2. QED
    BY <1>2, <2>1, Zenon DEF LastUpTo
<1>3. QED
  BY <1>1, <1>2

\* No later event counts when the last one is among the first m.
LEMMA LastUpToStays ==
  ASSUME NEW k, NEW h \in Nat, NEW m \in Nat, m <= h, LastUpTo(k, h) <= m
  PROVE  LastUpTo(k, m) = LastUpTo(k, h)
<1>1. LastUpTo(k, h) \in {0} \cup Wanted(k, m)
  BY LastUpToIs DEF Wanted
<1>2. \A e \in Wanted(k, m) : e <= LastUpTo(k, h)
  BY LastUpToIs DEF Wanted
<1>3. QED
  BY <1>1, <1>2, LastUpToOnly

LEMMA LastUpToNone ==
  ASSUME NEW k
  PROVE  LastUpTo(k, 0) = 0
BY LastUpToIs

-----------------------------------------------------------------------------
(* What Redis holds when it has executed a sequence of commands: for each  *)
(* key the event of the last of them.                                      *)

Lasts(s, k) == {i \in 1 .. Len(s) : /\ Key[s[i][1]] = k
                                    /\ \A j \in i + 1 .. Len(s) : Key[s[j][1]] # k}

Result(d, s, k) ==
  IF Lasts(s, k) = {} THEN d[k] ELSE s[CHOOSE i \in Lasts(s, k) : TRUE][1]

LEMMA ExecutedIs == \A s : \A k \in Keys : Executed(s)[k] = Result(db, s, k)
BY DEF Executed, Result, Lasts

LEMMA ResultLast ==
  ASSUME NEW d, NEW s \in Seq(Commands), NEW k, NEW i \in Lasts(s, k)
  PROVE  Result(d, s, k) = s[i][1]
<1>0. Len(s) \in Nat
  BY LenProperties
<1>1. PICK l \in Lasts(s, k) : l = CHOOSE j \in Lasts(s, k) : TRUE
  BY Zenon
<1>2. i \in 1 .. Len(s) /\ l \in 1 .. Len(s)
  BY DEF Lasts
<1>3. ~ (l \in i + 1 .. Len(s)) /\ ~ (i \in l + 1 .. Len(s))
  BY DEF Lasts
<1>4. i = l
  BY <1>0, <1>2, <1>3
<1>5. Result(d, s, k) = s[l][1]
  BY <1>1, Zenon DEF Result
<1>6. QED
  BY <1>4, <1>5

LEMMA ResultIs ==
  ASSUME NEW d, NEW s \in Seq(Commands), NEW k
  PROVE  /\ (\A i \in 1 .. Len(s) : Key[s[i][1]] # k) => Result(d, s, k) = d[k]
         /\ \A i \in 1 .. Len(s) : Key[s[i][1]] = k => Lasts(s, k) # {}
<1>0. Len(s) \in Nat
  BY LenProperties
<1>1. (\A i \in 1 .. Len(s) : Key[s[i][1]] # k) => Result(d, s, k) = d[k]
  BY DEF Result, Lasts
<1>3. ASSUME NEW i \in 1 .. Len(s), Key[s[i][1]] = k PROVE Lasts(s, k) # {}
  <2> DEFINE T == {j \in 1 .. Len(s) : Key[s[j][1]] = k}
  <2>1. T \subseteq 0 .. Len(s) /\ T # {}
    BY <1>0, <1>3
  <2>2. PICK l \in T : \A j \in T : j <= l
    <3> HIDE DEF T
    <3>1. QED
      BY <1>0, <2>1, GreatestElement
  <2>3. ASSUME NEW j \in l + 1 .. Len(s) PROVE Key[s[j][1]] # k
    BY <1>0, <2>2
  <2>4. l \in Lasts(s, k)
    BY <2>2, <2>3 DEF Lasts
  <2>5. QED
    BY <2>4
<1>4. QED
  BY <1>1, <1>3

\* Executing the first command first and then the others: the same.
LEMMA ResultOfTail ==
  ASSUME NEW d, NEW c, NEW s \in Seq(Commands), s # << >>, NEW k,
         c[k] = Result(d, <<Head(s)>>, k)
  PROVE  Result(c, Tail(s), k) = Result(d, s, k)
<1> DEFINE t == Tail(s)
           o == <<Head(s)>>
<1>1. /\ Len(s) \in Nat \ {0} /\ Head(s) = s[1] /\ s[1] \in Commands
  BY EmptySeq, LenProperties, ElementOfSeq
<1>2. /\ t \in Seq(Commands) /\ Len(t) = Len(s) - 1
      /\ \A i \in 1 .. Len(s) - 1 : t[i] = s[i + 1]
  BY <1>1, HeadTailProperties, LenProperties
<1>3. o \in Seq(Commands) /\ Len(o) = 1 /\ o[1] = s[1]
  BY <1>1
<1> HIDE DEF t, o
<1>4. CASE \A i \in 1 .. Len(t) : Key[t[i][1]] # k
  <2>1. Result(c, t, k) = c[k]
    BY <1>2, <1>4, ResultIs
  <2>2. ASSUME NEW i \in 2 .. Len(s) PROVE Key[s[i][1]] # k
    <3>1. i - 1 \in 1 .. Len(s) - 1 /\ (i - 1) + 1 = i
      BY <1>1
    <3>2. t[i - 1] = s[i]
      BY <1>2, <3>1
    <3>3. QED
      BY <1>2, <1>4, <3>1, <3>2
  <2>3. CASE Key[s[1][1]] = k
    <3>1. 1 \in Lasts(s, k) /\ 1 \in Lasts(o, k)
      BY <1>1, <1>3, <2>2, <2>3 DEF Lasts
    <3>2. Result(d, s, k) = s[1][1]
      BY <3>1, ResultLast
    <3>3. Result(d, o, k) = o[1][1]
      BY <1>3, <3>1, ResultLast
    <3>4. QED
      BY <1>3, <2>1, <3>2, <3>3 DEF t, o
  <2>4. CASE Key[s[1][1]] # k
    <3>1. \A i \in 1 .. Len(s) : i = 1 \/ i \in 2 .. Len(s)
      BY <1>1
    <3>2. Result(d, s, k) = d[k]
      BY <2>2, <2>4, <3>1, ResultIs
    <3>3. \A i \in 1 .. Len(o) : Key[o[i][1]] # k
      BY <1>3, <2>4
    <3>4. Result(d, o, k) = d[k]
      BY <1>3, <3>3, ResultIs
    <3>5. QED
      BY <2>1, <3>2, <3>4 DEF t, o
  <2>5. QED
    BY <2>3, <2>4
<1>5. CASE ~ \A i \in 1 .. Len(t) : Key[t[i][1]] # k
  <2>1. PICK i \in Lasts(t, k) : TRUE
    BY <1>2, <1>5, ResultIs
  <2>2. i \in 1 .. Len(s) - 1 /\ Key[t[i][1]] = k /\ t[i] = s[i + 1] /\ i + 1 \in 1 .. Len(s)
    BY <1>1, <1>2 DEF Lasts
  <2>3. ASSUME NEW j \in (i + 1) + 1 .. Len(s) PROVE Key[s[j][1]] # k
    <3>1. j - 1 \in i + 1 .. Len(t) /\ j - 1 \in 1 .. Len(s) - 1 /\ (j - 1) + 1 = j
      BY <1>1, <1>2, <2>2
    <3>2. t[j - 1] = s[j]
      BY <1>2, <3>1
    <3>3. Key[t[j - 1][1]] # k
      BY <3>1 DEF Lasts
    <3>4. QED
      BY <3>2, <3>3
  <2>4. i + 1 \in Lasts(s, k)
    BY <2>2, <2>3 DEF Lasts
  <2>5. Result(d, s, k) = s[i + 1][1]
    BY <2>4, ResultLast
  <2>6. Result(c, t, k) = t[i][1]
    BY <1>2, <2>1, ResultLast
  <2>7. QED
    BY <2>2, <2>5, <2>6 DEF t
<1>6. QED
  BY <1>4, <1>5

\* Executing the commands of one more event.
LEMMA ResultOfEvent ==
  ASSUME NEW d, NEW s \in Seq(Commands), NEW e \in Events, NEW k
  PROVE  Result(d, s \o CommandsOf(e), k)
           = IF Key[e] = k /\ Cmds[e] > 0 THEN e ELSE Result(d, s, k)
<1> DEFINE t == CommandsOf(e)
           u == s \o t
<1>1. Len(s) \in Nat /\ Cmds[e] \in Nat
  BY LenProperties, Constants
<1>2. t \in Seq(Commands) /\ Len(t) = Cmds[e] /\ \A i \in 1 .. Cmds[e] : t[i][1] = e
  BY CommandsOfEvent DEF CommandsOf
<1> HIDE DEF t
<1>3. /\ u \in Seq(Commands) /\ Len(u) = Len(s) + Cmds[e]
      /\ \A i \in 1 .. Len(s) : u[i] = s[i]
      /\ \A i \in 1 .. Cmds[e] : u[Len(s) + i] = t[i]
  BY <1>1, <1>2, ConcatProperties
<1> HIDE DEF u
<1>4. \A i \in Len(s) + 1 .. Len(u) : u[i][1] = e
  <2> TAKE i \in Len(s) + 1 .. Len(u)
  <2>1. i - Len(s) \in 1 .. Cmds[e] /\ Len(s) + (i - Len(s)) = i
    BY <1>1, <1>3
  <2>2. QED
    BY <1>2, <1>3, <2>1
<1>5. CASE Key[e] = k /\ Cmds[e] > 0
  <2>1. Len(u) \in Len(s) + 1 .. Len(u) /\ Len(u) \in 1 .. Len(u) /\ Len(u) + 1 .. Len(u) = {}
    BY <1>1, <1>3, <1>5
  <2>2. Len(u) \in Lasts(u, k) /\ u[Len(u)][1] = e
    BY <1>4, <1>5, <2>1 DEF Lasts
  <2>3. Result(d, u, k) = e
    BY <1>3, <2>2, ResultLast
  <2>4. QED
    BY <1>5, <2>3 DEF t, u
<1>6. CASE ~ (Key[e] = k /\ Cmds[e] > 0)
  <2>1. \A i \in Len(s) + 1 .. Len(u) : Key[u[i][1]] # k
    <3>1. CASE Key[e] # k
      BY <1>4, <3>1
    <3>2. CASE Cmds[e] = 0
      BY <1>1, <1>3, <3>2
    <3>3. QED
      BY <1>1, <1>6, <3>1, <3>2
  <2>2. CASE \A i \in 1 .. Len(s) : Key[s[i][1]] # k
    <3>1. \A i \in 1 .. Len(u) : i \in 1 .. Len(s) \/ i \in Len(s) + 1 .. Len(u)
      BY <1>1, <1>3
    <3>2. \A i \in 1 .. Len(u) : Key[u[i][1]] # k
      BY <1>3, <2>1, <2>2, <3>1
    <3>3. Result(d, u, k) = d[k] /\ Result(d, s, k) = d[k]
      BY <1>3, <2>2, <3>2, ResultIs
    <3>4. QED
      BY <1>6, <3>3 DEF t, u
  <2>3. CASE ~ \A i \in 1 .. Len(s) : Key[s[i][1]] # k
    <3>1. PICK i \in Lasts(s, k) : TRUE
      BY <2>3, ResultIs
    <3>2. i \in 1 .. Len(s) /\ i \in 1 .. Len(u) /\ u[i] = s[i] /\ Key[u[i][1]] = k
      BY <1>1, <1>3 DEF Lasts
    <3>3. ASSUME NEW j \in i + 1 .. Len(u) PROVE Key[u[j][1]] # k
      <4>1. CASE j \in Len(s) + 1 .. Len(u)
        BY <2>1, <4>1
      <4>2. CASE j \in i + 1 .. Len(s)
        <5>1. Key[s[j][1]] # k
          BY <4>2 DEF Lasts
        <5>2. j \in 1 .. Len(s)
          BY <1>1, <3>2, <4>2
        <5>3. QED
          BY <1>3, <5>1, <5>2
      <4>3. QED
        BY <1>1, <1>3, <3>2, <4>1, <4>2
    <3>4. i \in Lasts(u, k)
      BY <3>2, <3>3 DEF Lasts
    <3>5. Result(d, u, k) = u[i][1] /\ Result(d, s, k) = s[i][1]
      BY <1>3, <3>4, ResultLast
    <3>6. QED
      BY <1>6, <3>2, <3>5 DEF t, u
  <2>4. QED
    BY <2>2, <2>3
<1>7. QED
  BY <1>5, <1>6

-----------------------------------------------------------------------------
(* Convergence.  Redis, what is on the wire and what hiredis has buffered  *)
(* promise a value for each key.  After one lost connection the records    *)
(* come in two passes: the first ends with what the ring held, the second  *)
(* begins behind the position p the slave reconnected at.                  *)

Promised(k) == Result(db, wire \o obuf, k)

\* The records of the ring whose commands are appended: the one at its head,
\* until it is given back.
Used == IF rpc \in {"commit", "flush", "cut", "advance"} THEN 1 ELSE 0

\* From its place a on, up to b, ring r continues after event e.
Runs(r, a, b, e) == \A i \in a + 1 .. b : r[i] = e + (i - a)

\* One pass: all that is handled is 1 .. h, and the rest follows.
FirstPass(h) ==
  /\ Runs(ring, Used, Len(ring), h)
  /\ breaks = 1 => next = 0
  /\ breaks = 0 /\ next = 0 => ring = << >> /\ h = 0
  /\ next # 0 => next = h + (Len(ring) - Used) + 1
  /\ dumpInfo = IF rpc \in {"nul", "dml"} THEN h + 1 ELSE h
  /\ \A k \in Keys : Promised(k) = LastUpTo(k, h)

\* The first pass ends at place j of the ring, where the second begins.
GoesBack(h, j, p) ==
  /\ next # 0
  /\ Runs(ring, Used, j, h) /\ Runs(ring, j, Len(ring), p)
  /\ next = p + (Len(ring) - j) + 1
  /\ p <= h + (j - Used)
  /\ \A k \in Keys : Promised(k) = LastUpTo(k, h)

\* The second pass is at h; the first has ended at m.
SecondPass(h, m, p) ==
  /\ Runs(ring, Used, Len(ring), h)
  /\ next # 0 /\ next = h + (Len(ring) - Used) + 1
  /\ p <= h /\ p <= m
  /\ \A k \in Keys :
       Promised(k) = IF LastUpTo(k, h) > p THEN LastUpTo(k, h) ELSE LastUpTo(k, m)

Passes(h) ==
  \/ FirstPass(h)
  \/ breaks = 1 /\ \E j \in Used .. Len(ring), p \in 0 .. N : GoesBack(h, j, p)
  \/ breaks = 1 /\ \E m \in 0 .. N, p \in 0 .. N : SecondPass(h, m, p)

OneBreak == breaks <= 1 /\ stops = 0 /\ ~torn

PassInv ==
  OneBreak => /\ Up
              /\ rpc \in {"spin", "idle", "idleCut"} => cmdn = 0
              /\ \E h \in 0 .. N : Passes(h)

\* What is sent and what is answered is promised before and after.
LEMMA PromisedKept ==
  ASSUME Typed, RepliesCounted, [Next]_vars, ~Dml, ~Stop, NEW k \in Keys
  PROVE  Promised(k)' = Promised(k)
<1>0. obuf \in Seq(Commands) /\ wire \in Seq(Commands)
  BY DEF Typed, TypeOK, Commands
<1>1. CASE IoThread \/ Tick \/ Start \/ StartTorn \/ UNCHANGED vars
  BY <1>1 DEF IoThread, Connect, ConnectTorn, Recv, Break, Tick, Start, StartTorn, vars,
     redisVars, diskVars, Promised
<1>2. CASE Get \/ RepliesRead \/ Spin \/ Take \/ TakeEnd \/ Advance \/ Flush \/ Truncate
  BY <1>2 DEF Get, RepliesRead, Spin, Take, TakeEnd, Advance, Flush, Truncate, diskVars, Promised
<1>3. CASE SendOut
  <2>1. wire' = wire \o obuf /\ obuf' = << >> /\ db' = db
    BY <1>3 DEF SendOut, diskVars
  <2>2. (wire \o obuf) \o << >> = wire \o obuf
    BY <1>0, ConcatProperties, ConcatEmptySeq
  <2>3. QED
    BY <2>1, <2>2 DEF Promised
<1>4. CASE Reply
  <2>1. obuf = << >> /\ obuf' = << >> /\ wire # << >> /\ wire' = Tail(wire)
        /\ db' = Executed(<<Head(wire)>>)
    BY <1>4 DEF Reply
  <2>2. Tail(wire) \in Seq(Commands)
    BY <1>0, <2>1, HeadTailProperties
  <2>3. wire \o << >> = wire /\ Tail(wire) \o << >> = Tail(wire)
    BY <1>0, <2>2, ConcatEmptySeq
  <2>4. db'[k] = Result(db, <<Head(wire)>>, k)
    BY <2>1, ExecutedIs
  <2>5. Result(db', Tail(wire), k) = Result(db, wire, k)
    BY <1>0, <2>1, <2>4, ResultOfTail
  <2>6. QED
    BY <2>1, <2>3, <2>5 DEF Promised
<1>5. QED
  BY <1>1, <1>2, <1>3, <1>4 DEF Next, RedisThread

\* A handler promises its key.
LEMMA PromisedDml ==
  ASSUME Typed, Dml, NEW k \in Keys
  PROVE  Promised(k)' = IF Key[ring[1]] = k /\ Cmds[ring[1]] > 0 THEN ring[1] ELSE Promised(k)
<1>0. obuf \in Seq(Commands) /\ wire \in Seq(Commands) /\ wire \o obuf \in Seq(Commands)
  BY ConcatProperties DEF Typed, TypeOK, Commands
<1>1. ring[1] \in Events /\ Head(ring) = ring[1]
  BY EmptySeq, ElementOfSeq, LenProperties DEF Dml, Typed, TypeOK, AtHead, Taken
<1>2. wire' = wire /\ obuf' = obuf \o CommandsOf(ring[1]) /\ db' = db
  BY <1>1 DEF Dml, diskVars
<1>3. CommandsOf(ring[1]) \in Seq(Commands)
  BY <1>1, CommandsOfEvent
<1>4. wire \o (obuf \o CommandsOf(ring[1])) = (wire \o obuf) \o CommandsOf(ring[1])
  <2> DEFINE t == CommandsOf(ring[1])
  <2>1. t \in Seq(Commands)
    BY <1>3
  <2> HIDE DEF t
  <2>2. wire \o (obuf \o t) = (wire \o obuf) \o t
    BY <1>0, <2>1, ConcatAssociative
  <2>3. QED
    BY <2>2 DEF t
<1> DEFINE u == wire \o obuf
           e == ring[1]
<1>5. Promised(k)' = Result(db, u \o CommandsOf(e), k) /\ Promised(k) = Result(db, u, k)
  BY <1>2, <1>4, Zenon DEF Promised
<1>6. u \in Seq(Commands) /\ e \in Events
  BY <1>0, <1>1
<1> HIDE DEF u, e
<1>7. Promised(k)' = IF Key[e] = k /\ Cmds[e] > 0 THEN e ELSE Promised(k)
  BY <1>5, <1>6, ResultOfEvent
<1>8. QED
  BY <1>7 DEF e

\* A slave without slave.info.
LEMMA PassInit == Init => PassInv
<1> SUFFICES ASSUME Init PROVE PassInv
  OBVIOUS
<1>1. /\ ring = << >> /\ next = 0 /\ breaks = 0 /\ rpc = "get" /\ dumpInfo = 0 /\ wire = << >>
      /\ obuf = << >> /\ db = [k \in Keys |-> 0]
  BY DEF Init
<1>2. Len(ring) = 0 /\ << >> \in Seq(Commands) /\ wire \o obuf = << >>
  BY <1>1, EmptySeq, ConcatEmptySeq
<1>3. ASSUME NEW k \in Keys PROVE Promised(k) = LastUpTo(k, 0)
  <2>1. Lasts(<< >>, k) = {}
    BY <1>1, <1>2 DEF Lasts
  <2>2. Promised(k) = db[k]
    BY <1>2, <2>1, Zenon DEF Promised, Result
  <2>3. QED
    BY <1>1, <2>2, LastUpToNone
<1>4. Runs(ring, Used, Len(ring), 0)
  BY <1>1, <1>2 DEF Runs, Used
<1>5. FirstPass(0)
  BY <1>1, <1>3, <1>4 DEF FirstPass
<1>6. 0 \in 0 .. N /\ Up
  BY <1>1, Constants DEF Up
<1>7. QED
  BY <1>1, <1>5, <1>6 DEF PassInv, Passes

\* Steps that leave the records alone.
LEMMA PassFrame ==
  ASSUME UNCHANGED <<ring, next, breaks, dumpInfo>>, Used' = Used,
         rpc' \in {"nul", "dml"} <=> rpc \in {"nul", "dml"},
         \A k \in Keys : Promised(k)' = Promised(k),
         NEW h \in 0 .. N, Passes(h)
  PROVE  Passes(h)'
<1>1. CASE FirstPass(h)
  BY <1>1 DEF FirstPass, Runs, Passes
<1>2. ASSUME breaks = 1, NEW j \in Used .. Len(ring), NEW p \in 0 .. N, GoesBack(h, j, p)
      PROVE  Passes(h)'
  BY <1>2 DEF GoesBack, Runs, Passes
<1>3. ASSUME breaks = 1, NEW m \in 0 .. N, NEW p \in 0 .. N, SecondPass(h, m, p)
      PROVE  Passes(h)'
  BY <1>3 DEF SecondPass, Runs, Passes
<1>4. QED
  BY <1>1, <1>2, <1>3 DEF Passes

LEMMA UsedRange ==
  ASSUME Typed
  PROVE  Used \in 0 .. Len(ring)
<1>1. rpc \in {"commit", "flush", "cut", "advance"} => ring # << >>
  BY DEF Typed, AtHead, Taken
<1>2. Len(ring) \in Nat /\ (ring # << >> => Len(ring) > 0)
  BY Numbers, EmptySeq
<1>3. QED
  BY <1>1, <1>2 DEF Used

\* The dump command asks for what follows dump_info: the next event in the first
\* connection, the begin of the second pass in the other one.
LEMMA PassConnect ==
  ASSUME Typed, NEW h \in 0 .. N, Passes(h), breaks <= 1, Connect,
         \A k \in Keys : Promised(k)' = Promised(k)
  PROVE  Passes(h)'
<1>1. /\ next = 0 /\ next' = dumpInfo + 1 /\ rpc # "nul"
      /\ UNCHANGED <<ring, breaks, dumpInfo, rpc>> /\ Used' = Used
  BY DEF Connect, redisVars, Used
<1>2. FirstPass(h) /\ h \in Nat
  BY <1>1, Constants DEF Passes, GoesBack, SecondPass
<1>3. Used \in Nat /\ Len(ring) \in Nat /\ Used <= Len(ring) /\ dumpInfo \in Nat /\ breaks \in Nat
  BY UsedRange, Numbers
<1>4. CASE breaks = 0
  <2>1. ring = << >> /\ h = 0 /\ Len(ring) = 0 /\ Used = 0
    BY <1>1, <1>2, <1>3, <1>4, EmptySeq DEF FirstPass
  <2>2. rpc # "dml" /\ dumpInfo = 0
    BY <1>1, <1>2, <2>1 DEF FirstPass, Typed, AtHead, Taken
  <2>3. FirstPass(h)'
    BY <1>1, <1>2, <1>4, <2>1, <2>2 DEF FirstPass, Runs
  <2>4. QED
    BY <2>3 DEF Passes
<1>5. CASE breaks = 1
  <2>1. dumpInfo \in 0 .. N
    BY DEF Typed, TypeOK
  <2>2. dumpInfo <= h + (Len(ring) - Used)
    <3>1. CASE rpc = "dml"
      <4>1. ring # << >> /\ Used = 0 /\ dumpInfo = h + 1
        BY <1>2, <3>1 DEF Typed, AtHead, Taken, Used, FirstPass
      <4>2. QED
        BY <1>2, <1>3, <4>1, Numbers, EmptySeq
    <3>2. CASE rpc # "dml"
      BY <1>1, <1>2, <1>3, <3>2 DEF FirstPass
    <3>3. QED
      BY <3>1, <3>2
  <2>3. Runs(ring, Len(ring), Len(ring), dumpInfo)
    BY <1>3 DEF Runs
  <2>4. next' # 0 /\ next' = dumpInfo + (Len(ring) - Len(ring)) + 1
    BY <1>1, <1>3
  <2>5. Runs(ring, Used, Len(ring), h) /\ \A k \in Keys : Promised(k) = LastUpTo(k, h)
    BY <1>2 DEF FirstPass
  <2>6. GoesBack(h, Len(ring), dumpInfo)'
    BY <1>1, <2>2, <2>3, <2>4, <2>5 DEF GoesBack, Runs
  <2>7. Len(ring) \in Used .. Len(ring)
    BY <1>3
  <2>8. QED
    BY <1>1, <1>5, <2>1, <2>6, <2>7 DEF Passes
<1>6. QED
  BY <1>3, <1>4, <1>5

LEMMA PassBreak ==
  ASSUME Typed, NEW h \in 0 .. N, Passes(h), (breaks <= 1)', Break,
         \A k \in Keys : Promised(k)' = Promised(k)
  PROVE  Passes(h)'
<1>1. /\ next' = 0 /\ next # 0 /\ breaks' = breaks + 1 /\ UNCHANGED <<ring, dumpInfo, rpc>>
      /\ Used' = Used
  BY DEF Break, redisVars, Used
<1>2. breaks = 0 /\ breaks' = 1
  BY <1>1, Numbers
<1>3. FirstPass(h)
  BY <1>2 DEF Passes
<1>4. FirstPass(h)'
  BY <1>1, <1>2, <1>3 DEF FirstPass, Runs
<1>5. QED
  BY <1>4 DEF Passes

\* The record received is the next one of its pass.
LEMMA RunsAppended ==
  ASSUME Typed, Recv, NEW a \in 0 .. Len(ring), NEW b \in 0 .. Len(ring), NEW e \in Nat,
         Runs(ring, a, b, e)
  PROVE  /\ Runs(ring', a, b, e)
         /\ b = Len(ring) /\ next = e + (Len(ring) - a) + 1 => Runs(ring', a, Len(ring'), e)
<1>1. \A i \in a + 1 .. b : i \in 1 .. Len(ring)
  BY Numbers
<1>2. \A i \in a + 1 .. b : ring'[i] = e + (i - a)
  BY <1>1, Received DEF Runs
<1>3. ASSUME b = Len(ring), next = e + (Len(ring) - a) + 1, NEW i \in a + 1 .. Len(ring')
      PROVE  ring'[i] = e + (i - a)
  <2>1. Len(ring') = Len(ring) + 1 /\ Len(ring) \in Nat /\ ring'[Len(ring) + 1] = next
    BY Numbers, Received
  <2>2. i \in a + 1 .. b \/ i = Len(ring) + 1
    BY <1>3, <2>1
  <2>3. CASE i = Len(ring) + 1
    BY <1>3, <2>1, <2>3
  <2>4. QED
    BY <1>2, <2>2, <2>3
<1>4. QED
  BY <1>2, <1>3 DEF Runs

LEMMA PassRecv ==
  ASSUME Typed, NEW h \in 0 .. N, Passes(h), Recv,
         \A k \in Keys : Promised(k)' = Promised(k)
  PROVE  Passes(h)'
<1>1. /\ Len(ring') = Len(ring) + 1 /\ next' = next + 1 /\ next # 0 /\ Used' = Used
      /\ UNCHANGED <<breaks, dumpInfo, rpc>> /\ next' # 0 /\ next \in Nat
  BY Received, Numbers DEF Used
<1>2. Used \in 0 .. Len(ring) /\ Len(ring) \in 0 .. Len(ring) /\ Len(ring) \in Nat /\ h \in Nat
  BY UsedRange, Numbers, Constants
<1>3. CASE FirstPass(h)
  <2>1. Runs(ring, Used, Len(ring), h) /\ next = h + (Len(ring) - Used) + 1
    BY <1>1, <1>3 DEF FirstPass
  <2>2. Runs(ring', Used, Len(ring'), h)
    BY <1>1, <1>2, <2>1, RunsAppended
  <2>3. next' = h + (Len(ring') - Used) + 1
    BY <1>1, <1>2, <2>1
  <2>4. FirstPass(h)'
    BY <1>1, <1>3, <2>2, <2>3 DEF FirstPass
  <2>5. QED
    BY <2>4 DEF Passes
<1>4. ASSUME breaks = 1, NEW j \in Used .. Len(ring), NEW p \in 0 .. N, GoesBack(h, j, p)
      PROVE  Passes(h)'
  <2>1. /\ Runs(ring, Used, j, h) /\ Runs(ring, j, Len(ring), p) /\ next = p + (Len(ring) - j) + 1
        /\ j \in 0 .. Len(ring) /\ p \in Nat
    BY <1>2, <1>4, Constants DEF GoesBack
  <2>2. Runs(ring', Used, j, h) /\ Runs(ring', j, Len(ring'), p)
    BY <1>1, <1>2, <2>1, RunsAppended
  <2>3. next' = p + (Len(ring') - j) + 1
    BY <1>1, <1>2, <2>1
  <2>4. GoesBack(h, j, p)'
    BY <1>1, <1>4, <2>2, <2>3 DEF GoesBack
  <2>5. j \in Used' .. Len(ring')
    BY <1>1, <1>2
  <2>6. QED
    BY <1>1, <1>4, <2>4, <2>5 DEF Passes
<1>5. ASSUME breaks = 1, NEW m \in 0 .. N, NEW p \in 0 .. N, SecondPass(h, m, p)
      PROVE  Passes(h)'
  <2>1. Runs(ring, Used, Len(ring), h) /\ next = h + (Len(ring) - Used) + 1
    BY <1>5 DEF SecondPass
  <2>2. Runs(ring', Used, Len(ring'), h)
    BY <1>1, <1>2, <2>1, RunsAppended
  <2>3. next' = h + (Len(ring') - Used) + 1
    BY <1>1, <1>2, <2>1
  <2>4. SecondPass(h, m, p)'
    BY <1>1, <1>5, <2>2, <2>3 DEF SecondPass
  <2>5. QED
    BY <1>1, <1>5, <2>4 DEF Passes
<1>6. QED
  BY <1>3, <1>4, <1>5 DEF Passes

\* The record at the head is given back.
LEMMA RunsShifted ==
  ASSUME Typed, Advance, NEW a \in 1 .. Len(ring), NEW b \in 1 .. Len(ring), NEW e \in Nat,
         Runs(ring, a, b, e)
  PROVE  Runs(ring', a - 1, b - 1, e)
<1>1. \A i \in 1 .. Len(ring) - 1 : ring'[i] = ring[i + 1]
  BY GivenBack
<1>2. ASSUME NEW i \in a .. b - 1 PROVE ring'[i] = e + (i - (a - 1))
  <2>1. i \in 1 .. Len(ring) - 1 /\ i + 1 \in a + 1 .. b /\ (i + 1) - a = i - (a - 1)
    BY Numbers
  <2>2. QED
    BY <1>1, <2>1 DEF Runs
<1>3. (a - 1) + 1 .. b - 1 = a .. b - 1
  BY Numbers
<1>4. QED
  BY <1>2, <1>3 DEF Runs

LEMMA PassAdvance ==
  ASSUME Typed, NEW h \in 0 .. N, Passes(h), Advance,
         \A k \in Keys : Promised(k)' = Promised(k)
  PROVE  Passes(h)'
<1>1. /\ Len(ring') = Len(ring) - 1 /\ Len(ring) \in Nat /\ Len(ring) > 0 /\ ring # << >>
      /\ Used = 1 /\ Used' = 0 /\ rpc = "advance" /\ rpc' = "get"
      /\ UNCHANGED <<breaks, dumpInfo, next>> /\ h \in Nat /\ next \in Nat
  BY GivenBack, Numbers, Constants DEF Used
<1>2. 1 \in 1 .. Len(ring) /\ Len(ring) \in 1 .. Len(ring)
  BY <1>1
<1>3. CASE FirstPass(h)
  <2>1. Runs(ring', 0, Len(ring'), h)
    <3>1. Runs(ring, 1, Len(ring), h)
      BY <1>1, <1>3 DEF FirstPass
    <3>2. Runs(ring', 1 - 1, Len(ring) - 1, h)
      BY <1>1, <1>2, <3>1, RunsShifted
    <3>3. QED
      BY <1>1, <3>2
  <2>2. Len(ring') - 0 = Len(ring) - 1
    BY <1>1
  <2>3. FirstPass(h)'
    BY <1>1, <1>3, <2>1, <2>2 DEF FirstPass
  <2>4. QED
    BY <2>3 DEF Passes
<1>4. ASSUME breaks = 1, NEW j \in Used .. Len(ring), NEW p \in 0 .. N, GoesBack(h, j, p)
      PROVE  Passes(h)'
  <2>1. j \in 1 .. Len(ring) /\ p \in Nat /\ j - 1 \in 0 .. Len(ring')
    BY <1>1, <1>4, Constants
  <2>2. Runs(ring, 1, j, h) /\ Runs(ring, j, Len(ring), p)
    BY <1>1, <1>4 DEF GoesBack
  <2>3. Runs(ring', 1 - 1, j - 1, h) /\ Runs(ring', j - 1, Len(ring) - 1, p)
    BY <1>1, <1>2, <2>1, <2>2, RunsShifted
  <2>4. Runs(ring', 0, j - 1, h) /\ Runs(ring', j - 1, Len(ring'), p)
    BY <1>1, <2>3
  <2>5. Len(ring') - (j - 1) = Len(ring) - j /\ (j - 1) - 0 = j - 1
    BY <1>1, <2>1
  <2>6. GoesBack(h, j - 1, p)'
    BY <1>1, <1>4, <2>4, <2>5 DEF GoesBack
  <2>7. QED
    BY <1>1, <1>4, <2>1, <2>6 DEF Passes
<1>5. ASSUME breaks = 1, NEW m \in 0 .. N, NEW p \in 0 .. N, SecondPass(h, m, p)
      PROVE  Passes(h)'
  <2>1. Runs(ring', 0, Len(ring'), h)
    <3>1. Runs(ring, 1, Len(ring), h)
      BY <1>1, <1>5 DEF SecondPass
    <3>2. Runs(ring', 1 - 1, Len(ring) - 1, h)
      BY <1>1, <1>2, <3>1, RunsShifted
    <3>3. QED
      BY <1>1, <3>2
  <2>2. Len(ring') - 0 = Len(ring) - 1
    BY <1>1
  <2>3. SecondPass(h, m, p)'
    BY <1>1, <1>5, <2>1, <2>2 DEF SecondPass
  <2>4. QED
    BY <1>1, <1>5, <2>3 DEF Passes
<1>6. QED
  BY <1>3, <1>4, <1>5 DEF Passes

\* Taking a record says where the slave would reconnect.
LEMMA PassTake ==
  ASSUME Typed, NEW h \in 0 .. N, Passes(h), Take,
         \A k \in Keys : Promised(k)' = Promised(k)
  PROVE  Passes(h)'
<1>1. /\ UNCHANGED <<ring, next, breaks>> /\ Used = 0 /\ Used' = 0 /\ rpc' = "nul"
      /\ ring # << >> /\ dumpInfo' = ring[1] /\ Len(ring) \in Nat /\ 1 \in 0 + 1 .. Len(ring)
      /\ h \in Nat
  BY TakenRecord, Constants, Numbers DEF Used
<1>2. CASE FirstPass(h)
  <2>1. ring[1] = h + (1 - 0)
    BY <1>1, <1>2 DEF FirstPass, Runs
  <2>2. dumpInfo' = h + 1
    BY <1>1, <2>1
  <2>3. FirstPass(h)'
    BY <1>1, <1>2, <2>2 DEF FirstPass, Runs
  <2>4. QED
    BY <2>3 DEF Passes
<1>3. ASSUME breaks = 1, NEW j \in Used .. Len(ring), NEW p \in 0 .. N, GoesBack(h, j, p)
      PROVE  Passes(h)'
  BY <1>1, <1>3 DEF GoesBack, Runs, Passes
<1>4. ASSUME breaks = 1, NEW m \in 0 .. N, NEW p \in 0 .. N, SecondPass(h, m, p)
      PROVE  Passes(h)'
  BY <1>1, <1>4 DEF SecondPass, Runs, Passes
<1>5. QED
  BY <1>2, <1>3, <1>4 DEF Passes

\* Handling the record at the head: it is the next one of its pass, or the first
\* of the second.
LEMMA RunsUsed ==
  ASSUME Typed, NEW b \in Nat, NEW e \in Nat, Runs(ring, 0, b, e)
  PROVE  Runs(ring, 1, b, e + 1)
BY DEF Runs

LEMMA PassDml ==
  ASSUME Typed, NEW h \in 0 .. N, Passes(h), Dml
  PROVE  \E g \in 0 .. N : Passes(g)'
<1> DEFINE e == ring[1]
<1>1. /\ UNCHANGED <<ring, next, breaks, dumpInfo>> /\ rpc = "dml" /\ rpc' \in {"commit", "flush"}
      /\ Used = 0 /\ Used' = 1
  BY DEF Dml, Goto, ioVars, Used
<1>2. ring # << >>
  BY <1>1 DEF Typed, AtHead, Taken
<1>3. /\ Len(ring) \in Nat /\ 1 \in 1 .. Len(ring) /\ e \in Nat /\ e <= N /\ h \in Nat /\ next \in Nat
      /\ N \in Nat
  BY <1>2, Numbers, EmptySeq, Constants
<1>4. \A k \in Keys : Promised(k)' = IF Key[e] = k /\ Cmds[e] > 0 THEN e ELSE Promised(k)
  BY PromisedDml
<1> HIDE DEF e
<1>5. CASE FirstPass(h)
  <2>1. Runs(ring, 0, Len(ring), h)
    BY <1>1, <1>5 DEF FirstPass
  <2>2. e = h + 1
    BY <1>3, <2>1 DEF Runs, e
  <2>3. Runs(ring, 1, Len(ring), h + 1)
    BY <1>3, <2>1, RunsUsed
  <2>4. \A k \in Keys : Promised(k)' = LastUpTo(k, h + 1)
    <3> TAKE k \in Keys
    <3>1. Promised(k) = LastUpTo(k, h)
      BY <1>5 DEF FirstPass
    <3>2. QED
      BY <1>3, <1>4, <2>2, <3>1, LastUpToNext
  <2>5. h + 1 \in 0 .. N
    BY <1>3, <2>2
  <2>6. next # 0 => next = (h + 1) + (Len(ring) - 1) + 1
    BY <1>1, <1>3, <1>5 DEF FirstPass
  <2>7. dumpInfo = h + 1
    BY <1>1, <1>5 DEF FirstPass
  <2>8. FirstPass(h + 1)'
    BY <1>1, <1>2, <1>5, <2>3, <2>4, <2>6, <2>7 DEF FirstPass
  <2>9. QED
    BY <2>5, <2>8 DEF Passes
<1>6. ASSUME breaks = 1, NEW j \in Used .. Len(ring), NEW p \in 0 .. N, GoesBack(h, j, p), j = 0
      PROVE  \E g \in 0 .. N : Passes(g)'
  <2>1. Runs(ring, 0, Len(ring), p) /\ next = p + Len(ring) + 1 /\ p <= h /\ p \in Nat /\ next # 0
    BY <1>1, <1>3, <1>6 DEF GoesBack
  <2>2. e = p + 1
    BY <1>3, <2>1 DEF Runs, e
  <2>3. Runs(ring, 1, Len(ring), p + 1)
    BY <1>3, <2>1, RunsUsed
  <2>4. ASSUME NEW k \in Keys
        PROVE  Promised(k)' = IF LastUpTo(k, p + 1) > p THEN LastUpTo(k, p + 1) ELSE LastUpTo(k, h)
    <3>1. Promised(k) = LastUpTo(k, h)
      BY <1>6 DEF GoesBack
    <3>2. LastUpTo(k, p) \in 0 .. p
      BY <2>1, LastUpToIs
    <3>3. CASE Key[e] = k /\ Cmds[e] > 0
      <4>1. LastUpTo(k, p + 1) = p + 1 /\ Promised(k)' = p + 1
        BY <1>4, <2>1, <2>2, <3>3, LastUpToNext
      <4>2. QED
        BY <2>1, <4>1
    <3>4. CASE ~ (Key[e] = k /\ Cmds[e] > 0)
      <4>1. LastUpTo(k, p + 1) = LastUpTo(k, p) /\ Promised(k)' = LastUpTo(k, h)
        BY <1>4, <2>1, <2>2, <3>1, <3>4, LastUpToNext
      <4>2. QED
        BY <2>1, <3>2, <4>1
    <3>5. QED
      BY <3>3, <3>4
  <2>5. p + 1 \in 0 .. N /\ p <= p + 1 /\ next = (p + 1) + (Len(ring) - 1) + 1
    BY <1>3, <2>1, <2>2
  <2>6. SecondPass(p + 1, h, p)'
    BY <1>1, <2>1, <2>3, <2>4, <2>5 DEF SecondPass
  <2>7. QED
    BY <1>1, <1>6, <2>5, <2>6 DEF Passes
<1>7. ASSUME breaks = 1, NEW j \in Used .. Len(ring), NEW p \in 0 .. N, GoesBack(h, j, p), j # 0
      PROVE  \E g \in 0 .. N : Passes(g)'
  <2>1. /\ Runs(ring, 0, j, h) /\ Runs(ring, j, Len(ring), p) /\ p <= h + j /\ j \in 1 .. Len(ring)
        /\ next # 0 /\ next = p + (Len(ring) - j) + 1 /\ j \in Nat /\ p \in Nat
    BY <1>1, <1>3, <1>7 DEF GoesBack
  <2>2. e = h + 1
    BY <1>3, <2>1 DEF Runs, e
  <2>3. Runs(ring, 1, j, h + 1)
    BY <1>3, <2>1, RunsUsed
  <2>4. \A k \in Keys : Promised(k)' = LastUpTo(k, h + 1)
    <3> TAKE k \in Keys
    <3>1. Promised(k) = LastUpTo(k, h)
      BY <1>7 DEF GoesBack
    <3>2. QED
      BY <1>3, <1>4, <2>2, <3>1, LastUpToNext
  <2>5. h + 1 \in 0 .. N /\ p <= (h + 1) + (j - 1)
    BY <1>3, <2>1, <2>2
  <2>6. GoesBack(h + 1, j, p)'
    BY <1>1, <2>1, <2>3, <2>4, <2>5 DEF GoesBack
  <2>7. QED
    BY <1>1, <1>7, <2>1, <2>5, <2>6 DEF Passes
<1>8. ASSUME breaks = 1, NEW m \in 0 .. N, NEW p \in 0 .. N, SecondPass(h, m, p)
      PROVE  \E g \in 0 .. N : Passes(g)'
  <2>1. /\ Runs(ring, 0, Len(ring), h) /\ next = h + Len(ring) + 1 /\ p <= h /\ p <= m /\ p \in Nat
        /\ next # 0
    BY <1>1, <1>3, <1>8 DEF SecondPass
  <2>2. e = h + 1
    BY <1>3, <2>1 DEF Runs, e
  <2>3. Runs(ring, 1, Len(ring), h + 1)
    BY <1>3, <2>1, RunsUsed
  <2>4. ASSUME NEW k \in Keys
        PROVE  Promised(k)' = IF LastUpTo(k, h + 1) > p THEN LastUpTo(k, h + 1) ELSE LastUpTo(k, m)
    <3>1. Promised(k) = IF LastUpTo(k, h) > p THEN LastUpTo(k, h) ELSE LastUpTo(k, m)
      BY <1>8 DEF SecondPass
    <3>2. CASE Key[e] = k /\ Cmds[e] > 0
      <4>1. LastUpTo(k, h + 1) = h + 1 /\ Promised(k)' = h + 1
        BY <1>3, <1>4, <2>2, <3>2, LastUpToNext
      <4>2. QED
        BY <1>3, <2>1, <4>1
    <3>3. CASE ~ (Key[e] = k /\ Cmds[e] > 0)
      <4>1. LastUpTo(k, h + 1) = LastUpTo(k, h) /\ Promised(k)' = Promised(k)
        BY <1>3, <1>4, <2>2, <3>3, LastUpToNext
      <4>2. QED
        BY <3>1, <4>1, Zenon
    <3>4. QED
      BY <3>2, <3>3
  <2>5. h + 1 \in 0 .. N /\ p <= h + 1 /\ next = (h + 1) + (Len(ring) - 1) + 1
    BY <1>3, <2>1, <2>2
  <2>6. SecondPass(h + 1, m, p)'
    BY <1>1, <2>1, <2>3, <2>4, <2>5 DEF SecondPass
  <2>7. QED
    BY <1>1, <1>8, <2>5, <2>6 DEF Passes
<1>9. QED
  BY <1>5, <1>6, <1>7, <1>8 DEF Passes

\* Both threads keep to the passes; a second break, a stop or a torn position
\* ends what is said.
LEMMA PassStep == Typed /\ RepliesCounted /\ PassInv /\ [Next]_vars => PassInv'
<1> SUFFICES ASSUME Typed, RepliesCounted, PassInv, [Next]_vars, OneBreak' PROVE PassInv'
  BY DEF PassInv
<1>1. OneBreak /\ ~Stop /\ ~ConnectTorn /\ ~StartTorn
  <2>1. breaks \in Nat /\ stops \in Nat
    BY Numbers
  <2>2. stops' = 0 /\ torn' = FALSE
    BY DEF OneBreak, Typed, TypeOK, ConnectTorn, Stop, StartTorn, Next, vars, history
  <2>3. QED
    BY <2>1, <2>2 DEF OneBreak, Next, IoThread, RedisThread, Connect, ConnectTorn, Recv, Break,
       Get, SendOut, Reply, RepliesRead, Spin, Take, TakeEnd, Dml, Flush, Truncate, Advance,
       Tick, Stop, Start, StartTorn, vars, ioVars, history
<1>2. PICK h \in 0 .. N : Passes(h)
  BY <1>1 DEF PassInv
<1>3. Up /\ (rpc \in {"spin", "idle", "idleCut"} => cmdn = 0) /\ breaks <= 1 /\ (breaks <= 1)'
  BY <1>1 DEF PassInv, OneBreak
<1>4. ~Start /\ Up'
  BY <1>1, <1>3 DEF Up, Start, Next, IoThread, RedisThread, Connect, Recv, Break, Get, SendOut,
     Reply, RepliesRead, Spin, Take, TakeEnd, Dml, Flush, Truncate, Advance, Tick, vars,
     redisVars, Goto
<1>5. rpc' \in {"spin", "idle", "idleCut"} => cmdn' = 0
  BY <1>1, <1>3, <1>4 DEF Next, IoThread, RedisThread, Connect, Recv, Break, Get, SendOut,
     Reply, RepliesRead, Spin, Take, TakeEnd, Dml, Flush, Truncate, Advance, Tick, vars,
     redisVars, Goto
<1>6. \E g \in 0 .. N : Passes(g)'
  <2>1. CASE Dml
    BY <1>2, <2>1, PassDml
  <2>2. CASE ~Dml
    <3>1. \A k \in Keys : Promised(k)' = Promised(k)
      BY <1>1, <2>2, PromisedKept
    <3>2. CASE Connect
      BY <1>2, <1>3, <3>1, <3>2, PassConnect
    <3>3. CASE Recv
      BY <1>2, <3>1, <3>3, PassRecv
    <3>4. CASE Break
      BY <1>2, <1>3, <3>1, <3>4, PassBreak
    <3>5. CASE Take
      BY <1>2, <3>1, <3>5, PassTake
    <3>6. CASE Advance
      BY <1>2, <3>1, <3>6, PassAdvance
    <3>7. CASE Get \/ SendOut \/ Reply \/ RepliesRead \/ Spin \/ TakeEnd \/ Flush \/ Truncate
               \/ Tick \/ UNCHANGED vars
      <4>1. /\ UNCHANGED <<ring, next, breaks, dumpInfo>> /\ Used' = Used
            /\ rpc' \in {"nul", "dml"} <=> rpc \in {"nul", "dml"}
        BY <3>7 DEF Get, SendOut, Reply, RepliesRead, Spin, TakeEnd, Flush, Truncate, Tick, vars,
           ioVars, redisVars, Goto, Used
      <4>2. QED
        BY <1>2, <3>1, <4>1, PassFrame
    <3>8. QED
      BY <1>1, <1>4, <2>2, <3>2, <3>3, <3>4, <3>5, <3>6, <3>7 DEF Next, IoThread, RedisThread
  <2>3. QED
    BY <2>1, <2>2
<1>7. QED
  BY <1>4, <1>5, <1>6 DEF PassInv

\* When the slave is idle behind the last event, Redis holds for each key what the
\* last event of the binlog set, although one broken connection has brought a part
\* of the binlog again (rs_start_io_thread() resumes at dump_info).  It says
\* nothing of a process that was stopped, or of a half-written position.
THEOREM ConvergesOnce == Spec => []ConvergesAfterBreak
<1>1. Typed /\ RepliesCounted /\ PassInv => ConvergesAfterBreak
  <2> SUFFICES ASSUME Typed, RepliesCounted, PassInv, Quiescent, breaks <= 1, NEW k \in Keys
               PROVE  db[k] = LastOn(k)
    BY DEF ConvergesAfterBreak
  <2>1. /\ next = N + 1 /\ ring = << >> /\ rpc = "idle" /\ OneBreak
        /\ N \in Nat /\ Used = 0 /\ Len(ring) = 0
    BY Constants, EmptySeq DEF Quiescent, OneBreak, Used
  <2>2. cmdn = 0 /\ \E h \in 0 .. N : Passes(h)
    BY <2>1 DEF PassInv
  <2>3. wire = << >> /\ obuf = << >>
    <3>1. wire = << >> /\ Len(obuf) = 0
      <4>1. Len(obuf) \in Nat /\ Len(wire) \in Nat
        BY LenProperties DEF Typed, TypeOK
      <4>2. QED
        BY <2>1, <2>2, <4>1 DEF RepliesCounted
    <3>2. QED
      BY <3>1, EmptySeq DEF Typed, TypeOK
  <2>4. Promised(k) = db[k]
    <3>1. << >> \in Seq(Commands) /\ Len(<< >>) = 0 /\ << >> \o << >> = << >>
      BY EmptySeq, ConcatEmptySeq
    <3>2. Lasts(<< >>, k) = {}
      BY <3>1 DEF Lasts
    <3>3. QED
      BY <2>3, <3>1, <3>2, Zenon DEF Promised, Result
  <2>5. LastOn(k) = LastUpTo(k, N)
    BY DEF LastOn, LastUpTo, Wanted, Events
  <2>6. PICK h \in 0 .. N : Passes(h)
    BY <2>2
  <2>7. CASE FirstPass(h)
    <3>1. next = h + (Len(ring) - Used) + 1 /\ Promised(k) = LastUpTo(k, h)
      BY <2>1, <2>7 DEF FirstPass
    <3>2. h = N
      BY <2>1, <3>1
    <3>3. QED
      BY <2>4, <2>5, <3>1, <3>2
  <2>8. ASSUME NEW j \in Used .. Len(ring), NEW p \in 0 .. N, GoesBack(h, j, p)
        PROVE  db[k] = LastOn(k)
    <3>1. /\ next = p + (Len(ring) - j) + 1 /\ p <= h + (j - Used) /\ Promised(k) = LastUpTo(k, h)
          /\ j = 0
      BY <2>1, <2>8 DEF GoesBack
    <3>2. h = N
      BY <2>1, <3>1
    <3>3. QED
      BY <2>4, <2>5, <3>1, <3>2
  <2>9. ASSUME NEW m \in 0 .. N, NEW p \in 0 .. N, SecondPass(h, m, p)
        PROVE  db[k] = LastOn(k)
    <3>1. /\ next = h + (Len(ring) - Used) + 1 /\ p <= m
          /\ Promised(k) = IF LastUpTo(k, h) > p THEN LastUpTo(k, h) ELSE LastUpTo(k, m)
      BY <2>9 DEF SecondPass
    <3>2. h = N /\ m \in Nat /\ m <= N /\ p \in Nat
      BY <2>1, <3>1
    <3>3. LastUpTo(k, N) \in 0 .. N
      BY <2>1, LastUpToIs
    <3>4. CASE LastUpTo(k, N) > p
      BY <2>4, <2>5, <3>1, <3>2, <3>4
    <3>5. CASE ~ (LastUpTo(k, N) > p)
      <4>1. LastUpTo(k, N) <= m
        BY <2>1, <3>1, <3>2, <3>3, <3>5
      <4>2. LastUpTo(k, m) = LastUpTo(k, N)
        BY <2>1, <3>2, <4>1, LastUpToStays
      <4>3. QED
        BY <2>4, <2>5, <3>1, <3>2, <3>5, <4>2
    <3>6. QED
      BY <3>4, <3>5
  <2>10. QED
    BY <2>6, <2>7, <2>8, <2>9 DEF Passes
<1>2. QED
  BY <1>1, PassInit, PassStep, TypedAlways, RepliesAreExact, PTL DEF Spec
=============================================================================
