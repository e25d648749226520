----------------------------- MODULE MCRingBuf -----------------------------
(* Three slots, two kinds of record, counters that wrap after seven: the   *)
(* wrap of the pointers and of the counters fall apart.                    *)
EXTENDS RingBuf
=============================================================================
