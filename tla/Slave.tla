------------------------------- MODULE Slave -------------------------------
(***************************************************************************)
(* The slave process: the io thread (rs_io_thread.c) receives the records  *)
(* of the master into the ring buffer, the redis thread (rs_redis_thread.c,*)
(* rs_redis.c) turns them into Redis commands and keeps slave.info.        *)
(*                                                                         *)
(* A record is an event number in 1 .. N; the binlog position that follows *)
(* event e is e itself, so a master asked to resume at position p sends    *)
(* p+1, p+2, ...  An event stands for Cmds[e] commands on one key of Redis *)
(* (none: a record that carries only a position, RS_MYSQL_SKIP_DATA).      *)
(*                                                                         *)
(* The ring buffer is a sequence (RingBuf implements BoundedFifo).  hiredis*)
(* and Redis are external: an appended command stays in obuf, the memory of*)
(* the client, until redisGetReply() puts all of obuf on the wire.         *)
(***************************************************************************)
EXTENDS Naturals, Sequences, FiniteSetsExt

CONSTANTS
  N,          \* how many events the master has
  Cmds,       \* Cmds[e]: how many commands the handler of event e appends
  Keys, Key,  \* Key[e]: the key of Redis that event e sets
  Width,      \* Width[p]: how many characters position p has in slave.info
  Num,        \* ringbuf.num
  CommitNum,  \* RS_REDIS_CMD_COMMIT_NUM
  SaveNum,    \* binlog.save
  MaxBreaks,  \* bound: connections lost
  MaxStops    \* bound: stops of the process

Events == 1 .. N

ASSUME SlaveAssumption ==
  /\ N \in Nat \ {0} /\ Cmds \in [Events -> Nat] /\ Key \in [Events -> Keys]
  /\ Width \in [0 .. N -> Nat] /\ {Num, CommitNum, SaveNum} \subseteq Nat \ {0}
  /\ {MaxBreaks, MaxStops} \subseteq Nat

VARIABLES
  (* io thread *)
  next,      \* the event the connection brings next; 0 without connection
  (* shared by the two threads *)
  ring,      \* records received and not yet given back
  dumpInfo,  \* si->dump_info
  (* redis thread *)
  rpc,       \* where the thread is; "down" when the process is stopped
  obuf,      \* commands appended to hiredis and not sent
  wire,      \* commands sent whose reply was not read
  cmdn,      \* si->cmdn
  curSave,   \* si->cur_binlog_save
  due,       \* binlog.savesec seconds have passed since the last flush
  (* what survives the process *)
  info,      \* slave.info, the position written last
  tail,      \* behind it is the end of a longer one, that was there before
  db,        \* Redis: the event whose command set each key last, or 0
  (* history *)
  applied,   \* commands Redis has executed at least once
  maxSeen,   \* the last event the redis thread ever took from the ring
  torn,      \* a half-written position was used: dump_info or slave.info
  breaks, stops

ioVars    == <<next, breaks>>
redisVars == <<rpc, obuf, wire, cmdn, curSave, due>>
diskVars  == <<info, tail, db, applied>>
history   == <<maxSeen, torn, stops>>
vars == <<ioVars, ring, dumpInfo, redisVars, diskVars, history>>

Up == rpc # "down"

\* A command is named by its event and its rank in the event.
CommandsOf(e) == [j \in 1 .. Cmds[e] |-> <<e, j>>]
CommandsUpTo(p) == UNION {Range(CommandsOf(e)) : e \in 1 .. p}

\* Redis after executing the commands of s in order.
Executed(s) == [k \in Keys |->
  LET last == {i \in 1 .. Len(s) : /\ Key[s[i][1]] = k
                                   /\ \A j \in i + 1 .. Len(s) : Key[s[j][1]] # k}
  IN  IF last = {} THEN db[k] ELSE s[CHOOSE i \in last : TRUE][1]]

-----------------------------------------------------------------------------
Init ==
  /\ next = 0 /\ breaks = 0
  /\ ring = << >> /\ dumpInfo = 0
  /\ rpc = "get" /\ obuf = << >> /\ wire = << >> /\ cmdn = 0
  /\ curSave = 0 /\ due = TRUE
  /\ info = 0 /\ tail = FALSE /\ db = [k \in Keys |-> 0] /\ applied = {}
  /\ maxSeen = 0 /\ torn = FALSE /\ stops = 0

(* The io thread.                                                          *)

SkipRing_mut ==
  /\ Up /\ next = 0 /\ rpc # "nul"
  /\ next' = dumpInfo + Len(ring) + 1
  /\ UNCHANGED <<breaks, ring, dumpInfo, redisVars, diskVars, history>>

\* connect() and rs_send_dumpcmd(): the master resumes at dump_info, the event
\* the redis thread is at; what the ring still holds comes again.
Connect ==
  /\ Up /\ next = 0 /\ rpc # "nul"
  /\ next' = dumpInfo + 1
  /\ UNCHANGED <<breaks, ring, dumpInfo, redisVars, diskVars, history>>

\* The same while the redis thread is between rs_memcpy() and the final '\0'
\* of dump_info: the position read is a mixture of two, it can be any.
ConnectTorn ==
  /\ Up /\ next = 0 /\ rpc = "nul"
  /\ next' \in 1 .. N + 1
  /\ torn' = TRUE
  /\ UNCHANGED <<breaks, ring, dumpInfo, redisVars, diskVars, maxSeen, stops>>

NoFullCheck_mut ==
  /\ Up /\ next \in Events
  /\ ring' = Append(ring, next)
  /\ next' = next + 1
  /\ UNCHANGED <<breaks, dumpInfo, redisVars, diskVars, history>>

\* rs_ringbuf_set(), two rs_recv_tmpbuf(), rs_ringbuf_set_advance().
Recv ==
  /\ Up /\ next \in Events /\ Len(ring) < Num
  /\ ring' = Append(ring, next)
  /\ next' = next + 1
  /\ UNCHANGED <<breaks, dumpInfo, redisVars, diskVars, history>>

\* rs_recv_tmpbuf() fails: close(), sleep and retry; the ring is left alone.
Break ==
  /\ Up /\ next # 0 /\ breaks < MaxBreaks
  /\ next' = 0
  /\ breaks' = breaks + 1
  /\ UNCHANGED <<ring, dumpInfo, redisVars, diskVars, history>>

-----------------------------------------------------------------------------
(* The redis thread.                                                       *)

Goto(pc) == rpc' = pc

Get ==
  /\ rpc = "get"
  /\ Goto(IF ring = << >> THEN "drain" ELSE "take")
  /\ UNCHANGED <<ioVars, ring, dumpInfo, obuf, wire, cmdn, curSave, due,
                 diskVars, history>>

\* rs_redis_get_replies(): the first redisGetReply() sends everything ...
SendOut ==
  /\ rpc \in {"drain", "commit"} /\ cmdn > 0 /\ obuf # << >>
  /\ wire' = wire \o obuf
  /\ obuf' = << >>
  /\ UNCHANGED <<ioVars, ring, dumpInfo, rpc, cmdn, curSave, due, diskVars,
                 history>>

\* ... and each one waits for the reply of one command, whatever it says.
Reply ==
  /\ rpc \in {"drain", "commit"} /\ cmdn > 0 /\ obuf = << >> /\ wire # << >>
  /\ db' = Executed(<<Head(wire)>>)
  /\ applied' = applied \cup {Head(wire)}
  /\ wire' = Tail(wire)
  /\ cmdn' = cmdn - 1
  /\ UNCHANGED <<ioVars, ring, dumpInfo, rpc, obuf, curSave, due, info, tail, history>>

RepliesRead ==
  /\ rpc \in {"drain", "commit"} /\ cmdn = 0
  /\ Goto(IF rpc = "drain" THEN "spin" ELSE "flush")
  /\ UNCHANGED <<ioVars, ring, dumpInfo, obuf, wire, cmdn, curSave, due,
                 diskVars, history>>

NoIdleFlush_mut ==
  /\ rpc = "spin"
  /\ Goto(IF ring = << >> THEN "get" ELSE "take")
  /\ UNCHANGED <<ioVars, ring, dumpInfo, obuf, wire, cmdn, curSave, due,
                 diskVars, history>>

\* rs_ringbuf_spin_wait(), then usleep().
Spin ==
  /\ rpc = "spin"
  /\ Goto(IF ring = << >> THEN "idle" ELSE "take")
  /\ UNCHANGED <<ioVars, ring, dumpInfo, obuf, wire, cmdn, curSave, due,
                 diskVars, history>>

\* rs_memcpy() of the position into dump_info, before the data is handled.
Take ==
  /\ rpc = "take"
  /\ curSave' = curSave + 1
  /\ dumpInfo' = Head(ring)
  /\ maxSeen' = Max({maxSeen, Head(ring)})
  /\ Goto("nul")
  /\ UNCHANGED <<ioVars, ring, obuf, wire, cmdn, due, diskVars, torn, stops>>

\* dump_info[len] = '\0'.
TakeEnd ==
  /\ rpc = "nul"
  /\ Goto("dml")
  /\ UNCHANGED <<ioVars, ring, dumpInfo, obuf, wire, cmdn, curSave, due,
                 diskVars, history>>

CountRecords_mut ==
  /\ rpc = "dml"
  /\ obuf' = obuf \o CommandsOf(Head(ring))
  /\ cmdn' = cmdn + 1
  /\ Goto(IF cmdn' >= CommitNum THEN "commit" ELSE "flush")
  /\ UNCHANGED <<ioVars, ring, dumpInfo, wire, curSave, due, diskVars, history>>

NoCommit_mut ==
  /\ rpc = "dml"
  /\ obuf' = obuf \o CommandsOf(Head(ring))
  /\ cmdn' = cmdn + Cmds[Head(ring)]
  /\ Goto(IF cmdn' > CommitNum THEN "commit" ELSE "flush")
  /\ UNCHANGED <<ioVars, ring, dumpInfo, wire, curSave, due, diskVars, history>>

\* rs_redis_dml_data(): the handler appends its commands, nothing is sent.
Dml ==
  /\ rpc = "dml"
  /\ obuf' = obuf \o CommandsOf(Head(ring))
  /\ cmdn' = cmdn + Cmds[Head(ring)]
  /\ Goto(IF cmdn' >= CommitNum THEN "commit" ELSE "flush")
  /\ UNCHANGED <<ioVars, ring, dumpInfo, wire, curSave, due, diskVars, history>>

LateSave_mut ==
  /\ rpc \in {"flush", "idle"}
  /\ IF curSave > SaveNum \/ due
     THEN /\ info' = dumpInfo /\ tail' = (Width[dumpInfo] < Width[info])
          /\ curSave' = 1 /\ due' = FALSE
          /\ Goto(IF rpc = "flush" THEN "cut" ELSE "idleCut")
     ELSE /\ UNCHANGED <<info, tail, curSave, due>>
          /\ Goto(IF rpc = "flush" THEN "advance" ELSE "get")
  /\ UNCHANGED <<ioVars, ring, dumpInfo, obuf, wire, cmdn, db, applied, history>>

\* rs_flush_slave_info(), after a record and when the thread is idle: the new
\* position is written over the old one ...
Flush ==
  /\ rpc \in {"flush", "idle"}
  /\ IF curSave >= SaveNum \/ due
     THEN /\ info' = dumpInfo /\ tail' = (Width[dumpInfo] < Width[info])
          /\ curSave' = 1 /\ due' = FALSE
          /\ Goto(IF rpc = "flush" THEN "cut" ELSE "idleCut")
     ELSE /\ UNCHANGED <<info, tail, curSave, due>>
          /\ Goto(IF rpc = "flush" THEN "advance" ELSE "get")
  /\ UNCHANGED <<ioVars, ring, dumpInfo, obuf, wire, cmdn, db, applied, history>>

NoIdleCut_mut ==
  /\ rpc \in {"cut", "idleCut"}
  /\ tail' = (tail /\ rpc = "idleCut")
  /\ Goto(IF rpc = "cut" THEN "advance" ELSE "get")
  /\ UNCHANGED <<ioVars, ring, dumpInfo, obuf, wire, cmdn, curSave, due, info, db,
                 applied, history>>

\* ... and truncate() removes what the old one was longer.
Truncate ==
  /\ rpc \in {"cut", "idleCut"}
  /\ tail' = FALSE
  /\ Goto(IF rpc = "cut" THEN "advance" ELSE "get")
  /\ UNCHANGED <<ioVars, ring, dumpInfo, obuf, wire, cmdn, curSave, due, info, db,
                 applied, history>>

\* rs_ringbuf_get_advance().
Advance ==
  /\ rpc = "advance"
  /\ ring' = Tail(ring)
  /\ Goto("get")
  /\ UNCHANGED <<ioVars, dumpInfo, obuf, wire, cmdn, curSave, due, diskVars,
                 history>>

RedisThread == \/ Get \/ SendOut \/ Reply \/ RepliesRead \/ Spin
               \/ Take \/ TakeEnd \/ Dml \/ Flush \/ Truncate \/ Advance

\* The clock passes binlog.savesec.
Tick ==
  /\ Up /\ ~due
  /\ due' = TRUE
  /\ UNCHANGED <<ioVars, ring, dumpInfo, rpc, obuf, wire, cmdn, curSave,
                 diskVars, history>>

-----------------------------------------------------------------------------
(* The process.                                                            *)

\* A crash, a kill, or a thread that left its loop after an error of Redis, of
\* a handler or of the file and stopped the process with SIGQUIT.  Redis may
\* still execute any part of what is on the wire.
Stop ==
  /\ Up /\ stops < MaxStops
  /\ \E k \in 0 .. Len(wire) :
       /\ db' = Executed(SubSeq(wire, 1, k))
       /\ applied' = applied \cup Range(SubSeq(wire, 1, k))
  /\ next' = 0 /\ ring' = << >> /\ dumpInfo' = 0
  /\ Goto("down") /\ obuf' = << >> /\ wire' = << >> /\ cmdn' = 0
  /\ curSave' = 0 /\ due' = TRUE
  /\ stops' = stops + 1
  /\ UNCHANGED <<breaks, info, tail, maxSeen, torn>>

\* rs_init_slave_info() reads slave.info and starts both threads.
Start ==
  /\ ~Up /\ ~tail
  /\ dumpInfo' = info
  /\ Goto("get")
  /\ UNCHANGED <<ioVars, ring, obuf, wire, cmdn, curSave, due, diskVars, history>>

\* It reads a position that ends as an older one did: it can be any.
StartTorn ==
  /\ ~Up /\ tail
  /\ dumpInfo' \in 0 .. N /\ info' = dumpInfo'
  /\ tail' = FALSE /\ torn' = TRUE
  /\ Goto("get")
  /\ UNCHANGED <<ioVars, ring, obuf, wire, cmdn, curSave, due, db, applied, maxSeen,
                 stops>>

-----------------------------------------------------------------------------
IoThread == Connect \/ ConnectTorn \/ Recv \/ Break

Next == IoThread \/ RedisThread \/ Tick \/ Stop \/ Start \/ StartTorn

Spec == Init /\ [][Next]_vars

\* Threads are scheduled, the master accepts connections and Redis answers,
\* time passes, and a stopped slave is started again.
FairSpec ==
  /\ Spec
  /\ WF_vars(Connect \/ ConnectTorn) /\ WF_vars(Recv)
  /\ WF_vars(RedisThread) /\ WF_vars(Tick) /\ WF_vars(Start \/ StartTorn)

-----------------------------------------------------------------------------
(* Types; the ring holds at most Num records, and cur_binlog_save stays    *)
(* below binlog.save + 2 whatever the two threads do.                      *)
TypeOK ==
  /\ next \in 0 .. N + 1 /\ breaks \in 0 .. MaxBreaks
  /\ ring \in Seq(Events) /\ Len(ring) <= Num /\ dumpInfo \in 0 .. N
  /\ rpc \in {"down", "get", "drain", "spin", "idle", "take", "nul", "dml",
              "commit", "flush", "cut", "idleCut", "advance"}
  /\ obuf \in Seq(CommandsUpTo(N)) /\ wire \in Seq(CommandsUpTo(N))
  /\ cmdn \in Nat /\ curSave \in 0 .. SaveNum + 1 /\ due \in BOOLEAN
  /\ info \in 0 .. N /\ tail \in BOOLEAN /\ db \in [Keys -> 0 .. N]
  /\ applied \subseteq CommandsUpTo(N)
  /\ maxSeen \in 0 .. N /\ torn \in BOOLEAN /\ stops \in 0 .. MaxStops

(* The counter of outstanding replies is exact, so that the loop of        *)
(* rs_redis_get_replies() neither leaves a reply behind nor waits for one  *)
(* that never comes; and slave.info is only written with the wire empty.   *)
RepliesCounted ==
  /\ cmdn = Len(obuf) + Len(wire)
  /\ rpc \notin {"drain", "commit"} => wire = << >>

(* However often the connection breaks and the process restarts, the redis *)
(* thread never takes a record before all the records before it, unless it *)
(* resumed from a half-written position.                                   *)
NoGap == [][~torn => maxSeen' <= maxSeen + 1]_vars

(* Each broken connection makes the slave go back by at most what the ring *)
(* can hold; a restart replays, besides, what was taken since slave.info   *)
(* was written.  Not so once the slave has resumed from a half-written     *)
(* position (torn), which can be any.                                      *)
ReplayBounded ==
  [][rpc = "take" /\ rpc' = "nul" /\ ~torn =>
       maxSeen < dumpInfo' + breaks * Num
                   + (IF stops = 0 THEN 0 ELSE Max({1, SaveNum - 1}))]_vars

Unapplied == CommandsUpTo(info) \ applied

(* slave.info runs ahead of Redis by less than RS_REDIS_CMD_COMMIT_NUM     *)
(* commands, so each stop of the process loses less than that many, unless *)
(* the slave has resumed from a half-written position (torn).              *)
LossBound ==
  ~torn => Cardinality(Unapplied) <= (stops + 1) * (CommitNum - 1)

(* Only a stop between write() and truncate() leaves a slave.info that     *)
(* cannot be resumed from; in particular each position is written whole    *)
(* before its record is given back.                                        *)
InfoWhole == Up /\ rpc \notin {"cut", "idleCut"} => ~tail

LastOn(k) == Max({0} \cup {e \in Events : Key[e] = k /\ Cmds[e] > 0})

\* Everything was received, handled, answered and given back.
Quiescent == next = N + 1 /\ ring = << >> /\ rpc = "idle" /\ ~torn /\ stops = 0

(* Redis ends with what MySQL wrote last, if the connection broke once.    *)
ConvergesAfterBreak ==
  Quiescent /\ breaks <= 1 => \A k \in Keys : db[k] = LastOn(k)

(* The overview of README.zh.md: the operations of MySQL are synchronised  *)
(* to the other data source.                                               *)
Converges == Quiescent => \A k \in Keys : db[k] = LastOn(k)

(* slave.info catches up with Redis again and again: in particular once    *)
(* after the last event.                                                   *)
PositionCatchesUp == []<>(Up /\ info = dumpInfo /\ cmdn = 0)

(* A stronger property, which TLC refutes (README.md): the order of the    *)
(* comments of the loop, "commit to redis" and then "flush slave.info",    *)
(* read as a promise that a position on disk is one Redis has reached.     *)
InfoBehindRedis == stops = 0 /\ ~torn => Unapplied = {}
=============================================================================
