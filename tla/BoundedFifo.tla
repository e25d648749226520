---------------------------- MODULE BoundedFifo ----------------------------
(***************************************************************************)
(* What a ring buffer of rs_buf.c promises its two threads: a queue of at  *)
(* most Cap records, filled at one end and emptied at the other.           *)
(***************************************************************************)
EXTENDS Naturals, Sequences

CONSTANTS Items,  \* the records passed from the producer to the consumer
          Cap     \* how many of them the queue holds

VARIABLE q

Init == q = << >>

\* rs_ringbuf_set_advance() makes one record visible to the consumer.
Put(x) == Len(q) < Cap /\ q' = Append(q, x)

\* rs_ringbuf_get_advance() gives one record back to the producer.
Take == q # << >> /\ q' = Tail(q)

Next == Take \/ \E x \in Items : Put(x)

Spec == Init /\ [][Next]_q
=============================================================================
