------------------------------ MODULE DumpSend ------------------------------
(***************************************************************************)
(* The dump thread of the master, rs_start_dump_thread(): it takes the     *)
(* records that its io thread has put into the ring, collects them in the  *)
(* send buffer, and sends that when a record does not fit any more or when *)
(* the ring is empty, rs_send_tmpbuf().  Sizes are in the cells of module  *)
(* SlaveIo, one for the length of a record and Body[r] for the rest.       *)
(***************************************************************************)
EXTENDS Integers, Sequences

CONSTANTS
  NRec, Body,
  SendSize,   \* sendbuf.size
  MasterNum,  \* ringbuf.num of the master
  NetSize     \* bound: cells on their way

VARIABLES
  dpc,   \* where the dump thread is
  next,  \* the record its io thread will publish next
  queue, \* the records of the ring
  sbuf,  \* rd->send_buf, from pos to last
  open,  \* the slave has not closed the connection
  net    \* cells the slave has not read

Record(r) == [k \in 1 .. Body[r] + 1 |-> <<r, k - 1>>]

Init == /\ dpc = "free" /\ next = 1 /\ queue = << >> /\ sbuf = << >>
        /\ open = FALSE /\ net = << >>

\* A slave has connected and rs_parse_dumpcmd() has read its command, which asks
\* for what follows record pos.
Start(pos) ==
  /\ dpc' = "get" /\ next' = pos + 1 /\ queue' = << >> /\ sbuf' = << >>
  /\ open' = TRUE /\ net' = << >>

\* rs_binlog_create_data(), in the io thread.
Publish ==
  /\ dpc # "free" /\ next <= NRec /\ Len(queue) < MasterNum
  /\ queue' = Append(queue, next) /\ next' = next + 1
  /\ UNCHANGED <<dpc, sbuf, open, net>>

FitsBelow_mut(r) == SendSize - Len(sbuf) > 1 + Body[r]

Fits(r) == SendSize - Len(sbuf) >= 1 + Body[r]

Fill ==
  /\ dpc = "get" /\ queue # << >> /\ Fits(Head(queue))
  /\ sbuf' = sbuf \o Record(Head(queue)) /\ queue' = Tail(queue)
  /\ UNCHANGED <<dpc, next, open, net>>

\* The record stays in the ring while the buffer is sent.
FlushFull ==
  /\ dpc = "get" /\ queue # << >> /\ ~Fits(Head(queue))
  /\ dpc' = "send"
  /\ UNCHANGED <<next, queue, sbuf, open, net>>

FlushEmpty ==
  /\ dpc = "get" /\ queue = << >>
  /\ dpc' = "sendRest"
  /\ UNCHANGED <<next, queue, sbuf, open, net>>

\* rs_send_tmpbuf(): write() takes n of the cells, or fails.
Write(n) ==
  /\ dpc \in {"send", "sendRest"} /\ n <= Len(sbuf)
  /\ IF open
     THEN /\ Len(net) + n <= NetSize
          /\ net' = net \o SubSeq(sbuf, 1, n)
          /\ sbuf' = SubSeq(sbuf, n + 1, Len(sbuf))
          /\ UNCHANGED dpc
     ELSE dpc' = "free" /\ UNCHANGED <<net, sbuf>>
  /\ UNCHANGED <<next, queue, open>>

Written ==
  /\ dpc \in {"send", "sendRest"} /\ sbuf = << >>
  /\ dpc' = IF dpc = "send" THEN "get" ELSE "spin"
  /\ UNCHANGED <<next, queue, sbuf, open, net>>

\* rs_ringbuf_spin_wait()
Spin ==
  /\ dpc = "spin"
  /\ dpc' = IF queue # << >> THEN "get" ELSE "select"
  /\ UNCHANGED <<next, queue, sbuf, open, net>>

Sleep_mut ==
  /\ dpc = "select"
  /\ dpc' = "get"
  /\ UNCHANGED <<next, queue, sbuf, open, net>>

\* rs_timed_select(): nothing to read of the slave but that it has gone.
Select ==
  /\ dpc = "select"
  /\ dpc' = IF open THEN "get" ELSE "free"
  /\ UNCHANGED <<next, queue, sbuf, open, net>>

DumpThread == \/ Fill \/ FlushFull \/ FlushEmpty \/ Written \/ Spin \/ Select
              \/ \E n \in 1 .. SendSize : Write(n)

Next == Publish \/ DumpThread

TypeOK ==
  /\ dpc \in {"free", "get", "send", "sendRest", "spin", "select"}
  /\ next \in 1 .. NRec + 1 /\ open \in BOOLEAN
  /\ Len(queue) <= MasterNum /\ Len(sbuf) <= SendSize /\ Len(net) <= NetSize
=============================================================================
