----------------------------- MODULE MCTransfer -----------------------------
(* Bodies of one and of two cells, so that a read can end inside a record, *)
(* and the longest fills the send buffer; their order lets a chunk that    *)
(* was freed twice come into two slots of a ring of two.                   *)
EXTENDS Transfer

MCBody == [r \in 1 .. NRec |-> IF r = 2 THEN 1 ELSE 2]

MCClass == [n \in 1 .. Size + 1 |-> IF n = 1 THEN "small" ELSE "large"]
=============================================================================
