---------------------------- MODULE MCRowDecode ----------------------------
(* Six tables: the test table of the repository, with a nullable column; a *)
(* short one for events of four images; types with metadata before one     *)
(* another; lengths of one, two and three bytes; columns that are not used;*)
(* the types that are misread, and one without a parse handle.             *)
EXTENDS RowDecode

C(type, m, pack, to) == [type |-> type, meta |-> m, pack |-> pack, to |-> to]

Long(v) == <<v, v, v, v>>

TestTable ==
  [cols |-> <<C("LONG", << >>, 0, "stack"), C("VARCHAR", <<64, 0>>, 1, "pool")>>,
   rows |-> {Long(1)} \X {<<5>>, <<6, 7>>, <<8, 8, 8>>, NULL}
            \cup {<<NULL, <<5>> >>, <<Long(2), << >> >>},
   used |-> {1 .. 2}, images |-> 2]

PairTable ==
  [cols |-> <<C("YEAR", << >>, 0, "stack"), C("VARCHAR", <<64, 0>>, 1, "pool")>>,
   rows |-> {<<1>>} \X {<<5>>, <<6, 7>>, <<8, 8, 8>>}, used |-> {1 .. 2}, images |-> 4]

MetaTable ==
  [cols |-> <<C("NEWDECIMAL", <<12, 2>>, 0, "skip"), C("STRING", <<238, 44>>, 2, "pool"),
              C("TINYINT", << >>, 0, "stack")>>,
   rows |-> {<<1, 2, 3, 4, 5, 6>>} \X {<<4>>, <<5, 6, 7>>, NULL} \X {<<3>>, NULL},
   used |-> {1 .. 3}, images |-> 2]

LengthTable ==
  [cols |-> <<C("VARCHAR", <<0, 1>>, 2, "pool"), C("BLOB", <<3>>, 3, "pool"),
              C("STRING", <<254, 255>>, 1, "pool")>>,
   rows |-> {<<1>>, <<2, 3>>} \X {<<4>>, NULL} \X {<<5, 5, 5>>, <<6>>},
   used |-> {1 .. 3}, images |-> 2]

UsedTable ==
  [cols |-> <<C("SHORT", << >>, 0, "stack"), C("FLOAT", <<4>>, 0, "skip"),
              C("VARSTRING", <<253, 1>>, 1, "stack")>>,
   rows |-> {<<2, 2>>} \X {Long(3), NULL} \X {<<4>>, << >>},
   used |-> {1 .. 3, {1, 3}, {2, 3}}, images |-> 2]

NoHandleTable ==
  [cols |-> <<C("TINYINT", << >>, 0, "stack"), C("BIT", <<1, 0>>, 0, "skip"),
              C("STRING", <<247, 1>>, 0, "skip"), C("DECIMAL", << >>, 0, "skip")>>,
   rows |-> {<<1>>} \X {<<1>>, NULL} \X {<<1>>, NULL} \X {<<1>>, NULL},
   used |-> {1 .. 4}, images |-> 2]

MCTables == {TestTable, PairTable, MetaTable, LengthTable, UsedTable, NoHandleTable}
=============================================================================
