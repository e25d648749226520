--------------------------- MODULE MCBinlogParse ---------------------------
(* Row-based binlogs of two units after the format description: DDL,       *)
(* transactions of one or two statements, ended by an xid or a COMMIT,     *)
(* statements split into several rows events, a rotation; and statements   *)
(* that change two tables at once.                                         *)
EXTENDS BinlogParse

E(type) == [t |-> type, tab |-> ""]
M(tb)   == [t |-> "map", tab |-> tb]
R(tb)   == [t |-> "rows", tab |-> tb]

\* "w" is in filter.tables, "v" too, "u" is not.
Statements == {<<M("w"), R("w")>>, <<M("w"), R("w"), R("w")>>,
               <<M("v"), R("v")>>, <<M("u"), R("u"), R("u")>>}

Trans == {<<E("begin")>> \o s \o <<E("xid")>> : s \in Statements}
         \cup {<<E("begin")>> \o s1 \o s2 \o <<E("commit")>> :
                 s1 \in Statements, s2 \in Statements}

Units == Trans \cup {<<E("query")>>, <<E("rotate"), E("other")>>}

MCPlain == {<<E("other")>> \o a \o b : a \in Units, b \in Units}

\* A statement that writes two tables has two table maps before its rows.
Joins == {<<E("begin"), M(a), M(b), R(a), R(b), E("xid"), E("query")>> :
            a \in {"w", "v", "u"}, b \in {"w", "v", "u"}}

MCLogs == MCPlain \cup Joins
=============================================================================
