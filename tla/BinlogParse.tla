---------------------------- MODULE BinlogParse ----------------------------
(***************************************************************************)
(* What the master's binlog io thread makes of the events of the binlog:   *)
(* rs_read_binlog(), the event handlers of rs_parse_binlog.c and           *)
(* rs_binlog_create_data() of rs_filter_binlog.c.                          *)
(*                                                                         *)
(* Positions are event numbers: dump_pos after event i is i, and the       *)
(* rotation to the next file goes on counting.  An event has a type t and, *)
(* for table maps and rows, the table tab.  A dump session ends at any     *)
(* time; the next one starts with fresh flags at the position of a record  *)
(* that was sent, which is what a slave has as its dump_info.              *)
(*                                                                         *)
(* mev, skip and sent of rs_binlog_info_t live for one event only and      *)
(* flush is never set; they are not variables.                             *)
(***************************************************************************)
EXTENDS Naturals, Sequences

CONSTANTS
  Logs,         \* the binlogs to read: sequences of events
  Wanted,       \* filter.tables
  SkipNum,      \* RS_SKIP_DATA_FLUSH_NUM
  MaxSessions   \* bound: dump sessions

Types == {"begin", "commit", "xid", "map", "rows", "query", "other", "rotate"}

\* Position p of binlog l lies between a BEGIN and the end of its transaction.
Inside(l, p) ==
  \E i \in 1 .. p : /\ l[i].t = "begin"
                   /\ \A j \in i .. p : l[j].t \notin {"commit", "xid"}

\* Event i of binlog l belongs to a statement that has announced more than one
\* table: the handlers know only the table map they have seen last.
JoinedIn(l, i) ==
  \E j \in 1 .. i - 2 : /\ l[j].t = "map" /\ l[j + 1].t = "map"
                        /\ \A k \in j + 2 .. i : l[k].t \in {"map", "rows"}

\* MySQL writes rows inside a transaction, right behind the map of their table
\* or behind other rows of it, unless their statement has several maps.
RowsFollowMap(l) ==
  \A i \in DOMAIN l : l[i].t = "rows" =>
    /\ i > 1 /\ Inside(l, i - 1)
    /\ l[i - 1].t \in {"map", "rows"}
    /\ l[i - 1].tab = l[i].tab \/ JoinedIn(l, i)

ASSUME BinlogAssumption ==
  /\ Logs \subseteq Seq([t : Types, tab : STRING])
  /\ \A l \in Logs : RowsFollowMap(l)
  /\ SkipNum \in Nat \ {0, 1} /\ MaxSessions \in Nat \ {0}

VARIABLES
  log,      \* the binlog
  at,       \* the event to read
  tran,     \* bi->tran: inside BEGIN ... COMMIT
  filter,   \* bi->filter: the rows that follow are not wanted
  table,    \* bi->db and bi->tb: the last table map, "" before the first
  skipN,    \* bi->skip_n
  points,   \* positions of the records sent: where the next session may start
  got,      \* rows sent up to there, with the table they are labelled with
  session,  \* bound
  midRows,  \* history: a session started right before a rows event
  midTran   \* history: a session started inside a transaction

flags == <<tran, filter, table, skipN>>
vars  == <<log, at, flags, points, got, session, midRows, midTran>>

Event == log[at]

InTransaction(p) == Inside(log, p)

-----------------------------------------------------------------------------
Init ==
  /\ log \in Logs /\ at = 1
  /\ tran = FALSE /\ filter = TRUE /\ table = "" /\ skipN = 0
  /\ points = {0} /\ got = {}
  /\ session = 1 /\ midRows = FALSE /\ midTran = FALSE

\* rs_binlog_create_data() with rows: the record carries the table of the last
\* table map and the position after the event.
SendRows ==
  /\ got' = got \cup {<<at, table>>}
  /\ points' = points \cup {at}
  /\ UNCHANGED skipN

\* The throttle of records that carry only a position.
Throttled == skipN % SkipNum # 0

NoReset_mut ==
  /\ skipN' = skipN + 1
  /\ IF Throttled
     THEN UNCHANGED points
     ELSE points' = points \cup {at}
  /\ UNCHANGED got

\* rs_binlog_create_data() without rows (mev = 0).
SendPosition ==
  /\ IF Throttled
     THEN skipN' = 1 /\ UNCHANGED points
     ELSE skipN' = skipN + 1 /\ points' = points \cup {at}
  /\ UNCHANGED got

SendNothing == UNCHANGED <<got, points, skipN>>

NoTran_mut(tr, fi) == ~fi

\* When a record of its own is due to carry the position.
PositionDue(tr, fi) == ~tr /\ ~fi

\* rs_binlog_finish_handler() after an event that sent no rows.
Finish(tr, fi) ==
  /\ tran' = tr /\ filter' = fi
  /\ IF PositionDue(tr, fi) THEN SendPosition ELSE SendNothing
  /\ at' = at + 1
  /\ UNCHANGED <<log, session, midRows, midTran>>

-----------------------------------------------------------------------------
More == at <= Len(log)

\* rs_binlog_query_handler(): BEGIN and COMMIT are queries like any other; one
\* that is too long is skipped.
Query ==
  /\ More /\ Event.t \in {"begin", "commit", "query"}
  /\ Finish((tran \/ Event.t = "begin") /\ Event.t # "commit", filter)
  /\ UNCHANGED table

Xid ==
  /\ More /\ Event.t = "xid"
  /\ Finish(FALSE, filter)
  /\ UNCHANGED table

KeepTable_mut ==
  /\ More /\ Event.t = "map"
  /\ table' = IF table = "" THEN Event.tab ELSE table
  /\ Finish(tran, Event.tab \notin Wanted)

\* The filter is that of the last table map.
TableMap ==
  /\ More /\ Event.t = "map"
  /\ table' = Event.tab
  /\ Finish(tran, Event.tab \notin Wanted)

\* rs_binlog_{write,update,delete}_rows_handler().  The table id in the event
\* is not looked at.
RowsFiltered ==
  /\ More /\ Event.t = "rows" /\ filter
  /\ Finish(tran, filter /\ tran)
  /\ UNCHANGED table

OneShot_mut ==
  /\ More /\ Event.t = "rows" /\ ~filter
  /\ SendRows
  /\ at' = at + 1 /\ filter' = TRUE
  /\ UNCHANGED <<log, tran, table, session, midRows, midTran>>

RowsSent ==
  /\ More /\ Event.t = "rows" /\ ~filter
  /\ SendRows
  /\ at' = at + 1
  /\ UNCHANGED <<log, tran, filter, table, session, midRows, midTran>>

\* rs_binlog_skip_handler(), also for the intvar events, which change nothing.
Other ==
  /\ More /\ Event.t = "other"
  /\ Finish(tran, filter)
  /\ UNCHANGED table

\* rs_binlog_stop_handler() waits for the next file; the finish handler is not
\* called and the flags stay.
Rotate ==
  /\ More /\ Event.t = "rotate"
  /\ at' = at + 1
  /\ UNCHANGED <<log, flags, points, got, session, midRows, midTran>>

\* The session ends and the slave asks again for what follows position p, the
\* last one it has seen: it has all the rows up to p that were sent.
Resume(p) ==
  /\ session < MaxSessions
  /\ at' = p + 1
  /\ tran' = FALSE /\ filter' = TRUE /\ table' = "" /\ skipN' = 0
  /\ points' = {p}
  /\ got' = {g \in got : g[1] <= p}
  /\ session' = session + 1
  /\ midRows' = (midRows \/ (p < Len(log) /\ log[p + 1].t = "rows"))
  /\ midTran' = (midTran \/ InTransaction(p))
  /\ UNCHANGED log

ReadEvent == Query \/ Xid \/ TableMap \/ RowsFiltered \/ RowsSent \/ Other \/ Rotate

Next == ReadEvent \/ \E p \in points : Resume(p)

Spec == Init /\ [][Next]_vars

-----------------------------------------------------------------------------
(* Types; the throttle's counter never passes 1, whatever SkipNum is.      *)
TypeOK ==
  /\ log \in Logs /\ at \in 1 .. Len(log) + 1
  /\ {tran, filter, midRows, midTran} \subseteq BOOLEAN
  /\ skipN \in 0 .. 1
  /\ points \subseteq 0 .. at - 1 /\ \A g \in got : g[1] \in 1 .. at - 1
  /\ session \in 1 .. MaxSessions

WantedRows == {i \in 1 .. Len(log) : log[i].t = "rows" /\ log[i].tab \in Wanted}

(* The rows of every wanted table before the event being read were sent:   *)
(* the position of a record is enough for a slave to resume from.          *)
RowsComplete == \A i \in WantedRows : i < at => \E g \in got : g[1] = i

Joined(i) == JoinedIn(log, i)

(* filter.tables: only rows of wanted tables are sent.                     *)
RowsWanted == \A g \in got : log[g[1]].tab \in Wanted \/ Joined(g[1])

(* The table that rows are labelled with is the one they belong to.        *)
RowsOwnTable == \A g \in got : g[2] = log[g[1]].tab \/ Joined(g[1])

(* A dump session loses rows only if one started right before a rows       *)
(* event, where the table map has been passed (fresh binlog_info_t), or if *)
(* the rows belong to a statement that changes several tables (Joined).    *)
CompleteFromBoundary ==
  ~midRows => \A i \in WantedRows : i < at => Joined(i) \/ \E g \in got : g[1] = i

(* Rows get to the wrong handler only if a session started inside a        *)
(* transaction, where tran is 0 and filtered rows reset the filter, or if  *)
(* their statement changes several tables (Joined).                        *)
OwnTableFromBoundary == ~midTran => RowsOwnTable /\ RowsWanted

(* As long as no session started in the middle of one, a transaction the   *)
(* slave has a position inside is one it has rows of: a transaction        *)
(* without wanted rows is never cut in two (tran in the finish handler).   *)
PointsAreCommitsOrRows ==
  ~midTran => \A p \in points : p = 0 \/ log[p].t = "rows" \/ ~InTransaction(p)

=============================================================================
