------------------------------ MODULE MCSlave ------------------------------
(* Five events on two keys: a position only, one of two commands, ...      *)
EXTENDS Slave

MCCmds == [e \in 1 .. N |-> CASE e = 2 -> 2 [] e = 3 -> 0 [] OTHER -> 1]
MCKeys == {"x", "y"}
MCKey  == [e \in 1 .. N |-> IF e = N THEN "y" ELSE "x"]
MCWidth == [p \in 0 .. N |-> IF p = 3 THEN 1 ELSE 2]  \* the first of a new file is short
=============================================================================
