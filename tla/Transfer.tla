------------------------------ MODULE Transfer ------------------------------
(***************************************************************************)
(* A slave and its dump session: the dump thread of module DumpSend feeds  *)
(* the connection that the io thread of module SlaveIo reads.  A lost      *)
(* connection, or a slave that stops, is seen by the dump thread when it   *)
(* writes or, with nothing to send, in rs_timed_select(); a slave that     *)
(* connects again gets another session.                                    *)
(***************************************************************************)
EXTENDS SlaveIo

CONSTANTS SendSize, MasterNum, NetSize
VARIABLES
  dpc, next, queue, sbuf, open,
  maxSeen    \* history: the last record the redis thread ever had

ASSUME TransferAssumption == {SendSize, MasterNum, NetSize} \subseteq Nat \ {0}

D == INSTANCE DumpSend

session == <<dpc, next, queue, sbuf>>
slave   == <<ipc, buf, part, len, ring, data, pool, rpc, dumpInfo, flags>>
all     == <<vars, session, open, maxSeen>>

\* The slave's process ends, and the kernel closes its connection.
Stop ==
  /\ ipc \notin {"connect", "exit", "stopped"}
  /\ ipc' = "stopped" /\ rpc' = "exit" /\ net' = << >>
  /\ UNCHANGED <<buf, part, len, ring, data, pool, dumpInfo, flags>>

TransferInit == Init /\ D!Init /\ maxSeen = 0

Connects    == Connect /\ D!Start(dumpInfo) /\ UNCHANGED maxSeen
Closes      == (Break \/ RecvTooBig \/ Stop) /\ open' = FALSE /\ UNCHANGED <<session, maxSeen>>
Receives    == Receive /\ UNCHANGED <<session, open, maxSeen>>
TakesRecord == /\ RedisThread /\ UNCHANGED <<session, open>>
               /\ maxSeen' = IF dumpInfo' > maxSeen THEN dumpInfo' ELSE maxSeen
Sends       == D!Next /\ UNCHANGED <<slave, maxSeen>>

TransferNext == Connects \/ Closes \/ Receives \/ TakesRecord \/ Sends

Spec == TransferInit /\ [][TransferNext]_all
\* The threads run; a connection need not break, and the slave need not stop.
FairSpec == /\ Spec /\ WF_all(Connects \/ Receives) /\ WF_all(TakesRecord)
            /\ WF_all(RecvTooBig /\ Closes)
            /\ WF_all(D!DumpThread /\ UNCHANGED <<slave, maxSeen>>)
            /\ WF_all(D!Publish /\ UNCHANGED <<slave, maxSeen>>)

(* Types, and nothing grows: the rings, the send buffer, and the chunks,   *)
(* which broken connections do not leak.                                   *)
Bounded == TypeOK /\ D!TypeOK /\ NoLeak

(* Every record gets to the redis thread, through both rings, both buffers *)
(* and the connection: no thread waits for a record that another one keeps.*)
(* Three ways out: the slave is stopped, a connection began on cells left  *)
(* of the last one (stale), or two slots got one chunk (shared).           *)
Delivered == <>(stale \/ shared \/ ipc = "stopped" \/ dumpInfo = NRec)

(* The redis thread is given a record that it had, or the one after the    *)
(* last that it ever had, however often the connection breaks in between   *)
(* two records, in a length or in a body, as long as no connection began   *)
(* on cells left of the last one and no chunk was given to two slots.      *)
NoneMissedIfClean == [][Clean => dumpInfo' <= maxSeen + 1]_all

(* The session of a slave that is gone ends, and gives its slot back,      *)
(* unless the slave comes back before.                                     *)
SessionEnds == ~open ~> open \/ dpc = "free"
=============================================================================
