------------------------------ MODULE SlaveIo ------------------------------
(***************************************************************************)
(* How the slave's io thread turns the byte stream of the master into      *)
(* records of the ring buffer: rs_start_io_thread(), rs_recv_tmpbuf() and  *)
(* the chunks of the slab pool the records live in.                        *)
(*                                                                         *)
(* The stream is a sequence of cells.  Record r is a header cell <<r, 0>>  *)
(* (the four bytes of its length) and the Body[r] cells <<r, 1>> ...       *)
(* A read returns any number of the cells that have not been read, as the  *)
(* kernel pleases; module Transfer puts them there.  The redis thread is   *)
(* reduced to what it does to a slot: look at it, set dump_info, give it   *)
(* back.                                                                   *)
(***************************************************************************)
EXTENDS Integers, SequencesExt, FiniteSetsExt

CONSTANTS
  NRec,       \* records the master has
  Body,       \* Body[r]: cells of the body of record r
  Size,       \* recvbuf.size, in cells
  Num,        \* ringbuf.num
  Class,      \* Class[n]: slab class of a record of n cells, rs_palloc_id()
  MaxBreaks,  \* bound: connections lost
  NULL

Records == 1 .. NRec
Slots   == 0 .. Num - 1
Classes == Range(Class)
Chunks  == Classes \X (1 .. Num + 1)    \* one more than needed in each class

ASSUME SlaveIoAssumption ==
  /\ {NRec, Size, Num} \subseteq Nat \ {0} /\ MaxBreaks \in Nat
  /\ Body \in [Records -> 1 .. Size] /\ DOMAIN Class = 1 .. Size + 1
  /\ NULL \notin Chunks

VARIABLES
  ipc,       \* where the io thread is
  net,       \* cells of this connection that were not read
  buf,       \* si->recv_buf, from pos to last
  part,      \* what rs_recv_tmpbuf() has already copied to its caller
  len,       \* rbd->len of the slot under wp
  wp, used,  \* the ring: slot to write, records to be read
  data,      \* data[i]: rbd->data of slot i
  mem,       \* the content of each chunk
  freeChunk, \* the stack of freed chunks of each slab class
  fresh,     \* chunks of each class that were handed out at least once
  rpc,       \* where the redis thread is
  dumpInfo,  \* si->dump_info, as the number of the last record taken
  breaks,
  stale,     \* history: a connection began with cells of the last one in buf
  dangling,  \* history: a slot was left with a chunk that had been freed
  shared     \* history: a chunk was given to a slot while another one had it

ring  == <<wp, used>>
pool  == <<mem, freeChunk, fresh, shared>>
flags == <<breaks, stale, dangling>>
vars  == <<ipc, net, buf, part, len, ring, data, pool, rpc, dumpInfo, flags>>

Frame(r)   == [k \in 1 .. Body[r] |-> <<r, k>>]
SlotAfter(i) == (i + 1) % Num

rp         == (wp - used) % Num
Published  == {(wp - j) % Num : j \in 1 .. used}
Wanted     == IF ipc \in {"head", "readHead"} THEN 1 ELSE len

\* rs_pfree() pushes a chunk on the stack of its class, rbd->id.
Freed(chunk) == IF chunk = NULL THEN freeChunk
                ELSE [freeChunk EXCEPT ![chunk[1]] = Append(@, chunk)]

-----------------------------------------------------------------------------
Init ==
  /\ ipc = "connect" /\ net = << >> /\ buf = << >> /\ part = << >> /\ len = 0
  /\ wp = 0 /\ used = 0 /\ data = [i \in Slots |-> NULL]
  /\ mem = [c \in Chunks |-> << >>] /\ freeChunk = [c \in Classes |-> << >>]
  /\ fresh = [c \in Classes |-> 0]
  /\ rpc = "get" /\ dumpInfo = 0
  /\ breaks = 0 /\ stale = FALSE /\ dangling = FALSE /\ shared = FALSE

\* connect() and rs_send_dumpcmd(): the master is to send what follows dump_info.
Connect ==
  /\ ipc = "connect"
  /\ ipc' = "set"
  /\ net' = << >>
  /\ stale' = (stale \/ buf # << >>)
  /\ UNCHANGED <<buf, part, len, ring, data, pool, rpc, dumpInfo, breaks,
                 dangling>>

NoFree_mut ==
  /\ ipc = "set" /\ used < Num
  /\ ipc' = "head"
  /\ UNCHANGED <<net, buf, part, len, ring, data, pool, rpc, dumpInfo, flags>>

\* rs_ringbuf_set() and rs_pfree() of the chunk of the last round.  The slot
\* still points at it.
Set ==
  /\ ipc = "set" /\ used < Num
  /\ ipc' = "head"
  /\ freeChunk' = Freed(data[wp])
  /\ UNCHANGED <<net, buf, part, len, ring, data, mem, fresh, shared, rpc,
                 dumpInfo, flags>>

\* The slot under wp gets a chunk.
Hold(chunk) ==
  /\ data' = [data EXCEPT ![wp] = chunk]
  /\ shared' = (shared \/ \E i \in Slots \ {wp} : data[i] = chunk /\ chunk # NULL)

PeekFree_mut(size) ==
  LET c == Class[size]
  IN  /\ len' = size /\ ipc' = "body"
      /\ IF freeChunk[c] # << >>
         THEN Hold(Last(freeChunk[c])) /\ UNCHANGED fresh
         ELSE /\ Hold(<<c, fresh[c] + 1>>)
              /\ fresh' = [fresh EXCEPT ![c] = @ + 1]
      /\ UNCHANGED freeChunk

(* rs_recv_tmpbuf().  After it the cells asked for are handled by Received.*)

\* rs_palloc(): a freed chunk of the class first, else the next of its slab.
Alloc(size) ==
  LET c == Class[size]
      chunk == IF freeChunk[c] # << >> THEN Last(freeChunk[c])
               ELSE IF fresh[c] <= Num THEN <<c, fresh[c] + 1>>
               ELSE NULL
  IN  /\ len' = size
      /\ Hold(chunk)
      /\ ipc' = IF chunk = NULL THEN "exit" ELSE "body"
      /\ IF freeChunk[c] # << >>
         THEN freeChunk' = [freeChunk EXCEPT ![c] = Front(@)] /\ UNCHANGED fresh
         ELSE /\ fresh' = IF chunk = NULL THEN fresh
                          ELSE [fresh EXCEPT ![c] = @ + 1]
              /\ UNCHANGED freeChunk

\* The length is taken from a header, or from whatever is in its place.
ReceivedHead(cell) ==
  /\ \E size \in (IF cell[2] = 0 THEN {Body[cell[1]]} ELSE 1 .. Size + 1) : Alloc(size)
  /\ UNCHANGED <<wp, used, mem>>

\* The record is complete: rs_ringbuf_set_advance().
ReceivedBody(cells) ==
  /\ mem' = [mem EXCEPT ![data[wp]] = cells]
  /\ wp' = SlotAfter(wp) /\ used' = used + 1
  /\ ipc' = "set"
  /\ UNCHANGED <<len, data, freeChunk, fresh, shared>>

Received(cells) ==
  IF ipc \in {"head", "readHead"} THEN ReceivedHead(cells[1])
                                  ELSE ReceivedBody(cells)

\* The buffer holds enough.
RecvBuffered ==
  /\ ipc \in {"head", "body"} /\ Len(buf) >= Wanted /\ Wanted <= Size
  /\ Received(SubSeq(buf, 1, Wanted))
  /\ buf' = SubSeq(buf, Wanted + 1, Len(buf))
  /\ UNCHANGED <<net, part, rpc, dumpInfo, flags>>

\* It does not: what is there is copied, the buffer is emptied and refilled.
RecvStart ==
  /\ ipc \in {"head", "body"} /\ Len(buf) < Wanted /\ Wanted <= Size
  /\ ipc' = IF ipc = "head" THEN "readHead" ELSE "readBody"
  /\ part' = buf /\ buf' = << >>
  /\ UNCHANGED <<net, len, ring, data, pool, rpc, dumpInfo, flags>>

DropRest_mut(n) ==
  /\ ipc \in {"readHead", "readBody"} /\ n <= Len(net)
  /\ net' = SubSeq(net, n + 1, Len(net))
  /\ LET b == buf \o SubSeq(net, 1, n)
         s == Wanted - Len(part)
     IN  IF Len(b) < s
         THEN /\ buf' = b
              /\ UNCHANGED <<ipc, part, len, ring, data, pool>>
         ELSE /\ Received(part \o SubSeq(b, 1, s))
              /\ buf' = << >> /\ part' = << >>
  /\ UNCHANGED <<rpc, dumpInfo, flags>>

\* rs_read() brings n cells, enough or not.
Read(n) ==
  /\ ipc \in {"readHead", "readBody"} /\ n <= Len(net)
  /\ net' = SubSeq(net, n + 1, Len(net))
  /\ LET b == buf \o SubSeq(net, 1, n)
         s == Wanted - Len(part)
     IN  IF Len(b) < s
         THEN /\ buf' = b
              /\ UNCHANGED <<ipc, part, len, ring, data, pool>>
         ELSE /\ Received(part \o SubSeq(b, 1, s))
              /\ buf' = SubSeq(b, s + 1, Len(b)) /\ part' = << >>
  /\ UNCHANGED <<rpc, dumpInfo, flags>>

\* More is asked for than the buffer can ever hold: close() and retry.
RecvTooBig ==
  /\ ipc = "body" /\ Wanted > Size
  /\ ipc' = "connect" /\ net' = << >>
  /\ UNCHANGED <<buf, part, len, ring, data, pool, rpc, dumpInfo, flags>>

\* rs_read() fails: close() and retry, buffer and slot stay as they are.
Break ==
  /\ ipc \in {"readHead", "readBody"} /\ breaks < MaxBreaks
  /\ ipc' = "connect" /\ net' = << >> /\ part' = << >>
  /\ breaks' = breaks + 1
  /\ dangling' = (dangling \/ (ipc = "readHead" /\ data[wp] # NULL))
  /\ UNCHANGED <<buf, len, ring, data, pool, rpc, dumpInfo, stale>>

-----------------------------------------------------------------------------
\* The redis thread gets a record and takes its position.  It leaves, and stops
\* the slave, if there is no position in the record.
Get ==
  /\ rpc = "get" /\ used > 0
  /\ LET rec == mem[data[rp]]
     IN  IF rec[1][2] = 1 THEN rpc' = "use" /\ dumpInfo' = rec[1][1]
                          ELSE rpc' = "exit" /\ UNCHANGED dumpInfo
  /\ UNCHANGED <<ipc, net, buf, part, len, ring, data, pool, flags>>

GetAdvance ==
  /\ rpc = "use"
  /\ rpc' = "get"
  /\ used' = used - 1
  /\ UNCHANGED <<ipc, net, buf, part, len, wp, data, pool, dumpInfo, flags>>

Receive == Set \/ RecvBuffered \/ RecvStart \/ \E n \in 1 .. Size : Read(n)

RedisThread == Get \/ GetAdvance

-----------------------------------------------------------------------------
(* Types; a record is as long as the buffer allows, the ring never holds   *)
(* more than Num, and its pointer stays inside.                            *)
TypeOK ==
  /\ ipc \in {"connect", "set", "head", "readHead", "body", "readBody", "exit",
              "stopped"}
  /\ wp \in Slots /\ used \in 0 .. Num /\ len \in 0 .. Size + 1
  /\ data \in [Slots -> Chunks \cup {NULL}] /\ fresh \in [Classes -> 0 .. Num + 1]
  /\ freeChunk \in [Classes -> Seq(Chunks)]
  /\ rpc \in {"get", "use", "exit"} /\ dumpInfo \in 0 .. NRec
  /\ breaks \in 0 .. MaxBreaks /\ {stale, dangling, shared} \subseteq BOOLEAN

IsFrame(cells) == \E r \in Records : cells = Frame(r)

(* However the stream is cut into reads, what is published is a record the *)
(* master sent, whole.                                                     *)
FramesIntact == \A i \in Published : IsFrame(mem[data[i]])

(* ... as long as no connection started on cells left of the last one and  *)
(* no chunk, freed twice, was given to two slots.                          *)
Clean == ~stale /\ ~shared

FramesIntactIfClean == Clean => FramesIntact

(* A chunk belongs to one slot, or to the free stack, once.  The slot under*)
(* wp owns nothing between Set and Alloc.                                  *)
Owners == {i \in Slots : data[i] # NULL /\ ~(i = wp /\ ipc \in {"head", "readHead", "stopped"})}

ChunkExclusive ==
  /\ \A i, j \in Owners : data[i] = data[j] => i = j
  /\ \A i \in Owners : \A c \in Classes : data[i] \notin ToSet(freeChunk[c])
  /\ \A c \in Classes : IsInjective(freeChunk[c])

(* ... until a connection breaks between rs_pfree() of a slot's chunk and  *)
(* the rs_palloc() that follows.  Only then can two slots get one chunk.   *)
ChunkExclusiveIfClean == ~dangling => ChunkExclusive /\ ~shared

(* Broken connections leak no chunk: one for each slot is enough in every  *)
(* class.                                                                  *)
NoLeak == \A c \in Classes : fresh[c] <= Num

-----------------------------------------------------------------------------
(* Two stronger properties, which TLC refutes (README.md).                 *)

(* Two records waiting to be read never share their memory: a chunk freed  *)
(* by rs_pfree() is not freed again when the connection broke in between.  *)
NoSharedChunk ==
  \A i, j \in Published : data[i] = data[j] => i = j

(* A read never brings more than the receive buffer has room for, although *)
(* rs_recv_tmpbuf() appends to what a short read has left.                 *)
ReadFits == Len(buf) <= Size
=============================================================================
