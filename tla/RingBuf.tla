------------------------------ MODULE RingBuf ------------------------------
(***************************************************************************)
(* The single-producer single-consumer ring buffer of src/core/rs_buf.c.   *)
(*                                                                         *)
(* Master: the binlog io thread produces, the dump thread consumes.        *)
(* Slave: the io thread produces, the redis thread consumes.  No lock is   *)
(* held: each side moves its own pointer, then its own counter, and looks  *)
(* only at the difference of the counters.  One action is one access to    *)
(* the shared structure, in program order (rs_mem_barrier() keeps the      *)
(* compiler from reordering them, x86 keeps the order of the stores).      *)
(*                                                                         *)
(* The counters are unsigned and wrap: they live in 0 .. Width-1.          *)
(***************************************************************************)
EXTENDS Integers

CONSTANTS
  Num,    \* rb->num, the number of slots
  Width,  \* the counters wn and rn count modulo Width (2^64)
  Items,  \* what a slot can carry: a chunk filled by the producer
  Hole    \* a slot whose chunk was never set, was freed, or is half received

ASSUME NumAssumption   == Num \in Nat \ {0}
ASSUME WidthAssumption == Width \in Nat /\ Width > Num
ASSUME HoleAssumption  == Hole \notin Items

VARIABLES
  wn, rn,  \* records written and read so far, modulo Width
  wp, rp,  \* index of the slot to write and of the slot to read
  slot,    \* content of each slot
  ppc,     \* where the producer thread is
  cpc      \* where the consumer thread is

vars == <<wn, rn, wp, rp, slot, ppc, cpc>>

Slots == 0 .. Num - 1

-----------------------------------------------------------------------------
(* Pointer and counter arithmetic.                                         *)

NoWrap_mut(p) == p + 1

\* The pointer goes back to rb->start when it reaches rb->end.
NextSlot(p) == IF p + 1 = Num THEN 0 ELSE p + 1

PrevSlot(p) == IF p = 0 THEN Num - 1 ELSE p - 1

\* rb->wn++ and rb->rn++ on an unsigned counter.
Inc(n) == IF n + 1 = Width THEN 0 ELSE n + 1

Signed_mut(w, r) == IF w >= r THEN w - r ELSE 0

\* rb->wn - rb->rn on unsigned counters.
Diff(w, r) == IF w >= r THEN w - r ELSE w - r + Width

Full  == Diff(wn, rn) = Num

Empty_mut == FALSE

EmptyOff_mut == Diff(wn, rn) <= 1

Empty == Diff(wn, rn) = 0

-----------------------------------------------------------------------------
Init ==
  /\ wn = 0 /\ rn = 0
  /\ wp = 0 /\ rp = 0
  /\ slot = [i \in Slots |-> Hole]
  /\ ppc = "set" /\ cpc = "get"

(* The producer.  RS_FULL leaves everything as it is: the thread sleeps    *)
(* and asks again.                                                         *)

\* rs_ringbuf_set() returns the slot under wp.
SetOk ==
  /\ ppc = "set" /\ ~Full
  /\ ppc' = "free"
  /\ UNCHANGED <<wn, rn, wp, rp, slot, cpc>>

\* The chunk the slot still carries from its last round is freed.
FreeOld ==
  /\ ppc = "free"
  /\ slot' = [slot EXCEPT ![wp] = Hole]
  /\ ppc' = "fill"
  /\ UNCHANGED <<wn, rn, wp, rp, cpc>>

\* A new chunk is allocated and filled.
Fill(x) ==
  /\ ppc = "fill"
  /\ slot' = [slot EXCEPT ![wp] = x]
  /\ ppc' = "adv"
  /\ UNCHANGED <<wn, rn, wp, rp, cpc>>

\* The slave's io thread loses its connection before the record is complete:
\* it comes back to rs_ringbuf_set() without having advanced.
Abandon ==
  /\ ppc = "fill"
  /\ ppc' = "set"
  /\ UNCHANGED <<wn, rn, wp, rp, slot, cpc>>

PointerStays_mut ==
  /\ ppc = "adv"
  /\ ppc' = "cnt"
  /\ UNCHANGED <<wn, rn, wp, rp, slot, cpc>>

\* rs_ringbuf_set_advance(): first the pointer ...
SetAdvancePtr ==
  /\ ppc = "adv"
  /\ wp' = NextSlot(wp)
  /\ ppc' = "cnt"
  /\ UNCHANGED <<wn, rn, rp, slot, cpc>>

\* ... then the counter, which publishes the record.
SetAdvanceCnt ==
  /\ ppc = "cnt"
  /\ wn' = Inc(wn)
  /\ ppc' = "set"
  /\ UNCHANGED <<rn, wp, rp, slot, cpc>>

(* The consumer.  RS_EMPTY leaves everything as it is: the thread spins,   *)
(* sleeps and asks again.                                                  *)

\* rs_ringbuf_get(), also as called by rs_ringbuf_spin_wait(), returns the
\* slot under rp.
GetOk ==
  /\ cpc = "get" /\ ~Empty
  /\ cpc' = "use"
  /\ UNCHANGED <<wn, rn, wp, rp, slot, ppc>>

\* The record has been used; rs_ringbuf_get_advance(): first the pointer ...
GetAdvancePtr ==
  /\ cpc = "use"
  /\ rp' = NextSlot(rp)
  /\ cpc' = "cnt"
  /\ UNCHANGED <<wn, rn, wp, slot, ppc>>

\* ... then the counter, which gives the slot back to the producer.
GetAdvanceCnt ==
  /\ cpc = "cnt"
  /\ rn' = Inc(rn)
  /\ cpc' = "get"
  /\ UNCHANGED <<wn, wp, rp, slot, ppc>>

-----------------------------------------------------------------------------
Producer == \/ SetOk \/ FreeOld \/ Abandon \/ SetAdvancePtr \/ SetAdvanceCnt
            \/ \E x \in Items : Fill(x)

Consumer == GetOk \/ GetAdvancePtr \/ GetAdvanceCnt

Next == Producer \/ Consumer

Spec == Init /\ [][Next]_vars

\* The consumer polls for ever: spin wait, then a bounded sleep.
FairSpec == Spec /\ WF_vars(Consumer)

-----------------------------------------------------------------------------
(* The slot the counters speak of, while a pointer is ahead of its counter.*)
ReadBase  == IF cpc = "cnt" THEN PrevSlot(rp) ELSE rp
WriteBase == IF ppc = "cnt" THEN PrevSlot(wp) ELSE wp

Used == Diff(wn, rn)

\* The slot that holds the j-th record waiting to be read, counted from 0.
SlotOf(j) == IF ReadBase + j >= Num THEN ReadBase + j - Num ELSE ReadBase + j

(* Types; pointers stay in the array, counters in their width.             *)
TypeOK ==
  /\ wn \in 0 .. Width - 1 /\ rn \in 0 .. Width - 1
  /\ wp \in Slots /\ rp \in Slots
  /\ slot \in [Slots -> Items \cup {Hole}]
  /\ ppc \in {"set", "free", "fill", "adv", "cnt"}
  /\ cpc \in {"get", "use", "cnt"}

(* The counters never drift away from the pointers, whatever the moment at *)
(* which either thread is stopped.                                         *)
CountersMatchPointers ==
  /\ Used <= Num
  /\ WriteBase = SlotOf(Used)

(* The producer asked for its slot while it was free, and the consumer for *)
(* its slot while it was filled: neither answer goes stale.                *)
AnswersStayTrue ==
  /\ ppc # "set" => Used < Num
  /\ cpc # "get" => Used > 0

(* Every record between the counters is a filled chunk.                    *)
PublishedAreFilled ==
  /\ \A j \in 0 .. Used - 1 : slot[SlotOf(j)] \in Items
  /\ ppc \in {"adv", "cnt"} => slot[WriteBase] \in Items

RingInv == CountersMatchPointers /\ AnswersStayTrue /\ PublishedAreFilled

(* The two threads never hold the same slot: the chunk the redis or dump   *)
(* thread reads is never the one the io thread frees and refills.          *)
SlotExclusive ==
  ~(ppc \in {"free", "fill", "adv"} /\ cpc = "use" /\ wp = rp)

(* The record in the consumer's hands does not change until it advances.   *)
StableWhileRead ==
  [][cpc = "use" => slot[rp] \in Items /\ slot'[rp] = slot[rp]]_vars

(* The ring buffer is a bounded FIFO queue.                                *)
Queue == [j \in 1 .. Used |-> slot[SlotOf(j - 1)]]

Fifo == INSTANCE BoundedFifo WITH Cap <- Num, q <- Queue

ImplementsFifo == Fifo!Spec

(* A record that is waiting is eventually given back, in particular a full *)
(* ring does not stay full.                                                *)
WaitingIsRead == \A n \in 0 .. Width - 1 : (rn = n /\ Used > 0) ~> rn # n
=============================================================================
