--------------------------- MODULE MCBinlogReader ---------------------------
(***************************************************************************)
(* A header of two units and a buffer of four: headers and bodies are torn *)
(* by what MySQL has written so far and by the end of the buffer, and a    *)
(* skipped body may lie inside the buffer or reach beyond it.              *)
(***************************************************************************)
EXTENDS BinlogReader

MCEvents == {[t |-> "read", dl |-> 3], [t |-> "skip", dl |-> 3],
             [t |-> "unknown", dl |-> 1], [t |-> "foreign", dl |-> 1],
             [t |-> "rotate", dl |-> 1]}
=============================================================================
