------------------------------ MODULE MCPalloc ------------------------------
(* Classes of 2, 4, 6, 10 and 12 bytes, with 6, 3, 2, 1 and 1 chunks in a  *)
(* slab, as pool.factor 1.5 makes them.                                    *)
EXTENDS Palloc
=============================================================================
