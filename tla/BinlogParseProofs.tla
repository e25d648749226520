------------------------- MODULE BinlogParseProofs -------------------------
(***************************************************************************)
(* Theorems about BinlogParse, for every set of binlogs that are written   *)
(* as MySQL writes them (RowsFollowMap), every choice of tables, and any   *)
(* number of sessions.                                                     *)
(*                                                                         *)
(* What the handlers know is compared with the binlog: tran with the       *)
(* transactions in it (TranRight), and, where rows come next, the filter   *)
(* and the table with those of the rows (FilterReady, TableReady).  A      *)
(* session begins with flags that know nothing, which does no harm where   *)
(* neither rows come next nor a transaction is open.                       *)
(***************************************************************************)
EXTENDS BinlogParse, SequenceTheorems, TLAPS

-----------------------------------------------------------------------------
(* The invariant.                                                          *)

\* Rows come next whose table only one map has announced.
RowsNext == at <= Len(log) /\ Event.t = "rows" /\ ~Joined(at)

TranRight   == ~midTran => (tran <=> InTransaction(at - 1))
FilterReady == ~midRows => (RowsNext /\ Event.tab \in Wanted => ~filter)
TableReady  == ~midTran => (RowsNext => table = Event.tab /\ (filter <=> table \notin Wanted))

IInv ==
  /\ TypeOK /\ TranRight /\ FilterReady /\ TableReady
  /\ CompleteFromBoundary /\ OwnTableFromBoundary /\ PointsAreCommitsOrRows

-----------------------------------------------------------------------------
(* The data.                                                               *)

\* A binlog is a sequence of typed events.
LEMMA LogFacts ==
  ASSUME NEW l \in Logs
  PROVE  /\ Len(l) \in Nat /\ DOMAIN l = 1 .. Len(l) /\ RowsFollowMap(l)
         /\ \A i \in 1 .. Len(l) : l[i].t \in Types
<1>1. l \in Seq([t : Types, tab : STRING]) /\ RowsFollowMap(l)
  BY BinlogAssumption
<1>2. Len(l) \in Nat /\ DOMAIN l = 1 .. Len(l)
  BY <1>1, LenProperties
<1>3. \A i \in 1 .. Len(l) : l[i].t \in Types
  <2> TAKE i \in 1 .. Len(l)
  <2>1. l[i] \in [t : Types, tab : STRING]
    BY <1>1, ElementOfSeq
  <2>2. QED
    BY <2>1
<1>4. QED
  BY <1>1, <1>2, <1>3

\* A transaction goes on until a commit, and begins with a BEGIN.
LEMMA InsideNext ==
  ASSUME NEW l, NEW p \in Nat
  PROVE  Inside(l, p + 1) <=> \/ l[p + 1].t = "begin"
                              \/ Inside(l, p) /\ l[p + 1].t \notin {"commit", "xid"}
<1>1. ASSUME Inside(l, p + 1), l[p + 1].t # "begin"
      PROVE  Inside(l, p) /\ l[p + 1].t \notin {"commit", "xid"}
  <2>1. PICK i \in 1 .. p + 1 : /\ l[i].t = "begin"
                                /\ \A j \in i .. p + 1 : l[j].t \notin {"commit", "xid"}
    BY <1>1 DEF Inside
  <2>2. i \in 1 .. p /\ p + 1 \in i .. p + 1 /\ \A j \in i .. p : j \in i .. p + 1
    BY <1>1, <2>1
  <2>3. QED
    BY <2>1, <2>2 DEF Inside
<1>2. ASSUME l[p + 1].t = "begin" PROVE Inside(l, p + 1)
  <2>1. p + 1 \in 1 .. p + 1 /\ \A j \in p + 1 .. p + 1 : j = p + 1
    OBVIOUS
  <2>2. QED
    BY <1>2, <2>1 DEF Inside
<1>3. ASSUME Inside(l, p), l[p + 1].t \notin {"commit", "xid"} PROVE Inside(l, p + 1)
  <2>1. PICK i \in 1 .. p : /\ l[i].t = "begin"
                            /\ \A j \in i .. p : l[j].t \notin {"commit", "xid"}
    BY <1>3 DEF Inside
  <2>2. i \in 1 .. p + 1 /\ \A j \in i .. p + 1 : j \in i .. p \/ j = p + 1
    BY <2>1
  <2>3. QED
    BY <1>3, <2>1, <2>2 DEF Inside
<1>4. QED
  BY <1>1, <1>2, <1>3

\* More rows of a statement with several maps.
LEMMA JoinedNext ==
  ASSUME NEW l, NEW i \in Nat, JoinedIn(l, i), l[i + 1].t = "rows"
  PROVE  JoinedIn(l, i + 1)
<1>1. PICK j \in 1 .. i - 2 : /\ l[j].t = "map" /\ l[j + 1].t = "map"
                              /\ \A k \in j + 2 .. i : l[k].t \in {"map", "rows"}
  BY DEF JoinedIn
<1>2. j \in 1 .. (i + 1) - 2 /\ \A k \in j + 2 .. i + 1 : k \in j + 2 .. i \/ k = i + 1
  BY <1>1
<1>3. QED
  BY <1>1, <1>2 DEF JoinedIn

\* Rows that come after rows belong to the same table, or to several maps.
LEMMA RowsBehind ==
  ASSUME NEW l \in Logs, NEW i \in Nat, i >= 1, i + 1 <= Len(l), l[i + 1].t = "rows"
  PROVE  /\ Inside(l, i) /\ l[i].t \in {"map", "rows"}
         /\ l[i].tab = l[i + 1].tab \/ JoinedIn(l, i + 1)
         /\ l[i].t = "rows" => Inside(l, i - 1) /\ (JoinedIn(l, i) => JoinedIn(l, i + 1))
<1>1. i + 1 \in DOMAIN l /\ i \in DOMAIN l /\ (i + 1) - 1 = i
  BY LogFacts
<1>2. RowsFollowMap(l)
  BY LogFacts
<1>3. /\ Inside(l, (i + 1) - 1) /\ l[(i + 1) - 1].t \in {"map", "rows"}
      /\ l[(i + 1) - 1].tab = l[i + 1].tab \/ JoinedIn(l, i + 1)
  BY <1>1, <1>2 DEF RowsFollowMap
<1>4. l[i].t = "rows" => Inside(l, i - 1)
  BY <1>1, <1>2 DEF RowsFollowMap
<1>5. QED
  BY <1>1, <1>3, <1>4, JoinedNext

-----------------------------------------------------------------------------
(* One event is read.                                                      *)

\* What every handler leaves alone, and what it may add.
LEMMA Reads ==
  ASSUME TypeOK, ReadEvent
  PROVE  /\ at \in Nat /\ at >= 1 /\ at <= Len(log) /\ at' = at + 1 /\ log' = log
         /\ UNCHANGED <<session, midRows, midTran>>
         /\ got \subseteq got' /\ got' \subseteq got \cup {<<at, table>>}
         /\ points' \subseteq points \cup {at}
         /\ Event.t \in Types
         /\ tran \in BOOLEAN /\ filter \in BOOLEAN
<1>1. /\ log \in Logs /\ at \in 1 .. Len(log) + 1 /\ Len(log) \in Nat
      /\ tran \in BOOLEAN /\ filter \in BOOLEAN
  BY LogFacts DEF TypeOK
<1>2. at <= Len(log)
  BY DEF ReadEvent, Query, Xid, TableMap, RowsFiltered, RowsSent, Other, Rotate, More
<1>3. Event.t \in Types
  BY <1>1, <1>2, LogFacts DEF Event
<1>4. /\ at' = at + 1 /\ log' = log /\ UNCHANGED <<session, midRows, midTran>>
      /\ got \subseteq got' /\ got' \subseteq got \cup {<<at, table>>}
      /\ points' \subseteq points \cup {at}
  BY DEF ReadEvent, Query, Xid, TableMap, RowsFiltered, RowsSent, Other, Rotate, Finish,
         SendRows, SendPosition, SendNothing, flags
<1>5. QED
  BY <1>1, <1>2, <1>3, <1>4

\* What each handler makes of the flags, by the type of the event.
LEMMA Flags ==
  ASSUME TypeOK, ReadEvent
  PROVE  /\ tran' = (Event.t = "begin" \/ (tran /\ Event.t \notin {"commit", "xid"}))
         /\ Event.t = "map" => table' = Event.tab /\ filter' = (Event.tab \notin Wanted)
         /\ Event.t = "rows" => table' = table /\ filter' = (filter /\ tran)
         /\ Event.t = "rows" /\ ~filter => got' = got \cup {<<at, table>>}
         /\ Event.t # "rows" \/ filter => got' = got
         /\ at \in points' => at \in points \/ Event.t = "rows" \/ ~tran'
<1> USE Reads DEF Finish, SendRows, SendPosition, SendNothing, PositionDue, flags, Types
<1>1. CASE Query
  BY <1>1 DEF Query
<1>2. CASE Xid
  BY <1>2 DEF Xid
<1>3. CASE TableMap
  BY <1>3 DEF TableMap
<1>4. CASE RowsFiltered
  BY <1>4 DEF RowsFiltered
<1>5. CASE RowsSent
  BY <1>5 DEF RowsSent
<1>6. CASE Other
  BY <1>6 DEF Other
<1>7. CASE Rotate
  BY <1>7 DEF Rotate
<1>8. QED
  BY <1>1, <1>2, <1>3, <1>4, <1>5, <1>6, <1>7 DEF ReadEvent

\* The throttle counts to one.
LEMMA Throttle ==
  ASSUME TypeOK, SendPosition
  PROVE  skipN' \in 0 .. 1
<1>1. skipN \in {0, 1} /\ SkipNum \in Nat /\ SkipNum > 1
  BY BinlogAssumption DEF TypeOK
<1>2. 1 % SkipNum = 1
  BY <1>1
<1>3. CASE Throttled
  BY <1>3 DEF SendPosition
<1>4. CASE ~Throttled
  <2>1. skipN = 0
    BY <1>1, <1>2, <1>4 DEF Throttled
  <2>2. QED
    BY <1>4, <2>1 DEF SendPosition
<1>5. QED
  BY <1>3, <1>4

LEMMA TypeRead == TypeOK /\ ReadEvent => TypeOK'
<1> SUFFICES ASSUME TypeOK, ReadEvent PROVE TypeOK'
  OBVIOUS
<1>1. at' \in 1 .. Len(log) + 1 /\ log' \in Logs /\ Len(log) \in Nat
  BY Reads, LogFacts DEF TypeOK
<1>2. points' \subseteq 0 .. at' - 1
  <2>1. points \subseteq 0 .. at - 1 /\ points' \subseteq points \cup {at} /\ at' = at + 1 /\ at \in Nat
    BY Reads DEF TypeOK
  <2>2. QED
    BY <2>1
<1>3. \A g \in got' : g[1] \in 1 .. at' - 1
  <2>1. \A g \in got : g[1] \in 1 .. at - 1
    BY DEF TypeOK
  <2>2. /\ got' \subseteq got \cup {<<at, table>>} /\ <<at, table>>[1] = at
        /\ at' = at + 1 /\ at \in Nat /\ at >= 1
    BY Reads
  <2>3. at \in 1 .. at' - 1 /\ \A k \in 1 .. at - 1 : k \in 1 .. at' - 1
    BY <2>2
  <2>4. QED
    BY <2>1, <2>2, <2>3
<1>4. skipN' \in 0 .. 1
  <2>1. SendPosition \/ skipN' = skipN
    BY DEF ReadEvent, Query, Xid, TableMap, RowsFiltered, RowsSent, Other, Rotate, Finish,
           SendRows, SendNothing, flags
  <2>2. QED
    BY <2>1, Throttle DEF TypeOK
<1>5. {tran', filter', midRows', midTran'} \subseteq BOOLEAN /\ session' \in 1 .. MaxSessions
  BY Reads DEF TypeOK, ReadEvent, Query, Xid, TableMap, RowsFiltered, RowsSent, Other, Rotate,
               Finish, flags
<1>6. QED
  BY <1>1, <1>2, <1>3, <1>4, <1>5, Reads DEF TypeOK

\* tran says whether the next event is inside a transaction.
LEMMA TranRead == TypeOK /\ TranRight /\ ReadEvent => TranRight'
<1> SUFFICES ASSUME TypeOK, TranRight, ReadEvent, ~midTran PROVE tran' <=> Inside(log, at)
  BY Reads DEF TranRight, InTransaction
<1>1. tran <=> Inside(log, at - 1)
  BY DEF TranRight, InTransaction
<1>2. Inside(log, (at - 1) + 1) <=> \/ log[(at - 1) + 1].t = "begin"
                                    \/ Inside(log, at - 1)
                                       /\ log[(at - 1) + 1].t \notin {"commit", "xid"}
  <2>1. at - 1 \in Nat
    BY Reads
  <2>2. QED
    BY <2>1, InsideNext
<1>3. (at - 1) + 1 = at
  BY Reads
<1>4. QED
  BY <1>1, <1>2, <1>3, Flags DEF Event

\* Where rows come next, the event read before is the map of their table or
\* other rows of it.
LEMMA RowsAhead ==
  ASSUME TypeOK, ReadEvent, RowsNext'
  PROVE  /\ Event.t \in {"map", "rows"} /\ Event.tab = Event'.tab
         /\ Event.t = "rows" => RowsNext /\ InTransaction(at - 1)
<1>1. /\ at \in Nat /\ at >= 1 /\ at + 1 <= Len(log) /\ log \in Logs
      /\ log[at + 1].t = "rows" /\ ~JoinedIn(log, at + 1) /\ Event' = log[at + 1]
  BY Reads DEF RowsNext, Event, Joined, TypeOK
<1>2. QED
  BY <1>1, RowsBehind, Reads DEF RowsNext, Event, Joined, InTransaction

LEMMA FilterRead == TypeOK /\ FilterReady /\ ReadEvent => FilterReady'
<1> SUFFICES ASSUME TypeOK, FilterReady, ReadEvent, ~midRows, RowsNext', Event'.tab \in Wanted
             PROVE  ~filter'
  BY Reads DEF FilterReady
<1>1. Event.t \in {"map", "rows"} /\ Event.tab \in Wanted /\ (Event.t = "rows" => RowsNext)
  BY RowsAhead
<1>2. QED
  BY <1>1, Flags DEF FilterReady

LEMMA TableRead == TypeOK /\ TranRight /\ TableReady /\ ReadEvent => TableReady'
<1> SUFFICES ASSUME TypeOK, TranRight, TableReady, ReadEvent, ~midTran, RowsNext'
             PROVE  table' = Event'.tab /\ (filter' <=> table' \notin Wanted)
  BY Reads DEF TableReady
<1>1. /\ Event.t \in {"map", "rows"} /\ Event.tab = Event'.tab
      /\ Event.t = "rows" => RowsNext /\ tran
  BY RowsAhead DEF TranRight
<1>2. CASE Event.t = "map"
  BY <1>1, <1>2, Flags
<1>3. CASE Event.t = "rows"
  BY <1>1, <1>3, Flags, Reads DEF TableReady
<1>4. QED
  BY <1>1, <1>2, <1>3

LEMMA CompleteRead ==
  TypeOK /\ FilterReady /\ CompleteFromBoundary /\ ReadEvent => CompleteFromBoundary'
<1> SUFFICES ASSUME TypeOK, FilterReady, CompleteFromBoundary, ReadEvent, ~midRows,
                    NEW i \in WantedRows, i < at + 1, ~Joined(i)
             PROVE  \E g \in got' : g[1] = i
  BY Reads DEF CompleteFromBoundary, WantedRows, Joined
<1>1. CASE i < at
  BY <1>1, Reads DEF CompleteFromBoundary
<1>2. CASE i = at
  <2>1. RowsNext /\ Event.tab \in Wanted
    BY <1>2, Reads DEF RowsNext, WantedRows, Event
  <2>2. <<at, table>> \in got' /\ <<at, table>>[1] = at
    BY <2>1, Flags DEF FilterReady, RowsNext
  <2>3. QED
    BY <1>2, <2>2
<1>3. QED
  <2>1. i \in Nat
    BY LogFacts DEF WantedRows, TypeOK
  <2>2. QED
    BY <1>1, <1>2, <2>1, Reads

LEMMA OwnTableRead ==
  TypeOK /\ TableReady /\ OwnTableFromBoundary /\ ReadEvent => OwnTableFromBoundary'
<1> SUFFICES ASSUME TypeOK, TableReady, OwnTableFromBoundary, ReadEvent, ~midTran,
                    NEW g \in got', ~Joined(g[1])
             PROVE  g[2] = log[g[1]].tab /\ log[g[1]].tab \in Wanted
  BY Reads DEF OwnTableFromBoundary, RowsOwnTable, RowsWanted, Joined
<1>1. CASE g \in got
  BY <1>1 DEF OwnTableFromBoundary, RowsOwnTable, RowsWanted
<1>2. CASE g \notin got
  <2>1. g = <<at, table>> /\ g[1] = at /\ g[2] = table /\ Event.t = "rows" /\ ~filter
    BY <1>2, Reads, Flags
  <2>2. RowsNext
    BY <2>1, Reads DEF RowsNext
  <2>3. QED
    BY <2>1, <2>2 DEF TableReady, Event
<1>3. QED
  BY <1>1, <1>2

LEMMA PointsRead ==
  TypeOK /\ TranRight /\ PointsAreCommitsOrRows /\ ReadEvent => PointsAreCommitsOrRows'
<1> SUFFICES ASSUME TypeOK, TranRight, PointsAreCommitsOrRows, ReadEvent, ~midTran,
                    NEW p \in points'
             PROVE  p = 0 \/ log[p].t = "rows" \/ ~Inside(log, p)
  BY Reads DEF PointsAreCommitsOrRows, InTransaction
<1>1. CASE p \in points
  BY <1>1 DEF PointsAreCommitsOrRows, InTransaction
<1>2. CASE p \notin points
  <2>1. p = at /\ (Event.t = "rows" \/ ~tran')
    BY <1>2, Reads, Flags
  <2>2. tran' <=> Inside(log, at)
    <3>1. TranRight'
      BY TranRead
    <3>2. (at + 1) - 1 = at
      BY Reads
    <3>3. QED
      BY <3>1, <3>2, Reads DEF TranRight, InTransaction
  <2>3. QED
    BY <2>1, <2>2 DEF Event
<1>3. QED
  BY <1>1, <1>2

-----------------------------------------------------------------------------
(* A session begins.                                                       *)

LEMMA Resumes ==
  ASSUME IInv, NEW p \in points, Resume(p)
  PROVE  IInv'
<1> USE DEF IInv
<1>0. /\ log \in Logs /\ Len(log) \in Nat /\ at \in 1 .. Len(log) + 1 /\ p \in 0 .. at - 1
      /\ midRows \in BOOLEAN /\ midTran \in BOOLEAN
  BY LogFacts DEF TypeOK
<1>1. /\ p \in Nat /\ p <= at - 1 /\ at \in Nat /\ at' = p + 1 /\ log' = log /\ log \in Logs
      /\ Len(log) \in Nat /\ at <= Len(log) + 1
      /\ tran' = FALSE /\ filter' = TRUE /\ skipN' = 0 /\ points' = {p}
      /\ got' = {g \in got : g[1] <= p} /\ session' = session + 1 /\ session < MaxSessions
      /\ midRows' = (midRows \/ (p < Len(log) /\ log[p + 1].t = "rows"))
      /\ midTran' = (midTran \/ Inside(log, p)) /\ (p + 1) - 1 = p
  <2>1. /\ p \in Nat /\ p <= at - 1 /\ at \in Nat /\ at <= Len(log) + 1 /\ (p + 1) - 1 = p
    BY <1>0
  <2>2. /\ at' = p + 1 /\ log' = log
        /\ tran' = FALSE /\ filter' = TRUE /\ skipN' = 0 /\ points' = {p}
        /\ got' = {g \in got : g[1] <= p} /\ session' = session + 1 /\ session < MaxSessions
        /\ midRows' = (midRows \/ (p < Len(log) /\ log[p + 1].t = "rows"))
        /\ midTran' = (midTran \/ Inside(log, p))
    BY Zenon DEF Resume, InTransaction
  <2>3. QED
    BY <1>0, <2>1, <2>2, Zenon
<1>2. TypeOK'
  <2>1. \A g \in got' : g[1] \in 1 .. p
    BY <1>1 DEF TypeOK
  <2>2. session' \in 1 .. MaxSessions
    BY <1>1, BinlogAssumption DEF TypeOK
  <2>3. {tran', filter', midRows', midTran'} \subseteq BOOLEAN
    <3>1. midRows' \in BOOLEAN /\ midTran' \in BOOLEAN
      BY <1>0, <1>1
    <3>2. QED
      BY <1>1, <3>1
  <2>4. at' \in 1 .. Len(log) + 1 /\ points' \subseteq 0 .. at' - 1 /\ at' - 1 = p
    BY <1>0, <1>1
  <2>5. QED
    BY <1>1, <2>1, <2>2, <2>3, <2>4 DEF TypeOK
<1>3. TranRight'
  BY <1>1 DEF TranRight, InTransaction
<1>4. ASSUME RowsNext' PROVE midRows' /\ midTran'
  <2>1. p < Len(log) /\ log[p + 1].t = "rows" /\ p + 1 \in DOMAIN log
    BY <1>1, <1>4, LogFacts DEF RowsNext, Event
  <2>2. Inside(log, (p + 1) - 1)
    BY <1>1, <2>1, LogFacts DEF RowsFollowMap
  <2>3. Inside(log, p)
    BY <1>1, <2>2
  <2>4. QED
    BY <1>1, <2>1, <2>3, Zenon
<1>5. FilterReady' /\ TableReady'
  BY <1>4 DEF FilterReady, TableReady
<1>6. CompleteFromBoundary'
  <2> SUFFICES ASSUME ~midRows', NEW i \in WantedRows, i < p + 1, ~Joined(i)
               PROVE  \E g \in got' : g[1] = i
    BY <1>1 DEF CompleteFromBoundary, WantedRows, Joined
  <2>1. i \in Nat /\ i < at /\ i <= p
    BY <1>1, LogFacts DEF WantedRows
  <2>2. PICK g \in got : g[1] = i
    BY <1>1, <2>1 DEF CompleteFromBoundary
  <2>3. QED
    BY <1>1, <2>1, <2>2
<1>7. OwnTableFromBoundary'
  BY <1>1 DEF OwnTableFromBoundary, RowsOwnTable, RowsWanted, Joined
<1>8. PointsAreCommitsOrRows'
  BY <1>1 DEF PointsAreCommitsOrRows, InTransaction
<1>9. QED
  BY <1>2, <1>3, <1>5, <1>6, <1>7, <1>8

-----------------------------------------------------------------------------
(* The theorems.                                                           *)

LEMMA InvInit == Init => IInv
<1> SUFFICES ASSUME Init PROVE IInv
  OBVIOUS
<1>1. /\ log \in Logs /\ Len(log) \in Nat /\ at = 1 /\ tran = FALSE /\ filter = TRUE
      /\ points = {0} /\ got = {} /\ skipN = 0 /\ session = 1
      /\ midRows = FALSE /\ midTran = FALSE
  BY LogFacts DEF Init
<1>2. TypeOK
  <2>1. {tran, filter, midRows, midTran} \subseteq BOOLEAN
    BY <1>1
  <2>2. 1 \in 1 .. Len(log) + 1 /\ 1 \in 1 .. MaxSessions /\ {0} \subseteq 0 .. 1 - 1
    BY <1>1, BinlogAssumption
  <2>3. QED
    BY <1>1, <2>1, <2>2 DEF TypeOK
<1>3. ~Inside(log, 1 - 1)
  BY DEF Inside
<1>4. ~RowsNext
  <2>1. ASSUME RowsNext PROVE FALSE
    <3>1. 1 \in DOMAIN log /\ log[1].t = "rows"
      BY <1>1, <2>1, LogFacts DEF RowsNext, Event
    <3>2. RowsFollowMap(log) /\ ~(1 > 1)
      BY <1>1, LogFacts
    <3>3. QED
      BY <3>1, <3>2 DEF RowsFollowMap
  <2>2. QED
    BY <2>1
<1>5. CompleteFromBoundary
  <2>1. \A i \in WantedRows : ~(i < at)
    BY <1>1 DEF WantedRows
  <2>2. QED
    BY <2>1 DEF CompleteFromBoundary
<1>6. QED
  BY <1>1, <1>2, <1>3, <1>4, <1>5
  DEF IInv, TranRight, InTransaction, FilterReady, TableReady, OwnTableFromBoundary,
      RowsOwnTable, RowsWanted, PointsAreCommitsOrRows

LEMMA InvStep == IInv /\ [Next]_vars => IInv'
<1> SUFFICES ASSUME IInv, [Next]_vars PROVE IInv'
  OBVIOUS
<1>1. CASE ReadEvent
  BY <1>1, TypeRead, TranRead, FilterRead, TableRead, CompleteRead, OwnTableRead, PointsRead
  DEF IInv
<1>2. ASSUME NEW p \in points, Resume(p) PROVE IInv'
  BY <1>2, Resumes
<1>3. CASE UNCHANGED vars
  BY <1>3 DEF vars, flags, IInv, TypeOK, TranRight, FilterReady, TableReady, RowsNext, Event,
     Joined, InTransaction, CompleteFromBoundary, WantedRows, OwnTableFromBoundary,
     RowsOwnTable, RowsWanted, PointsAreCommitsOrRows
<1>4. QED
  BY <1>1, <1>2, <1>3 DEF Next

LEMMA Invariant == Spec => []IInv
BY InvInit, InvStep, PTL DEF Spec

\* The variables keep their types, and the throttle's counter never passes one,
\* so that a session sends at most one position of its own (skip_n).
THEOREM TypeCorrect == Spec => []TypeOK
<1>1. IInv => TypeOK
  BY DEF IInv
<1>2. QED
  BY Invariant, <1>1, PTL

\* Unless a session started right before a rows event, every rows event of a
\* wanted table up to the current one has been sent, but for those of statements
\* that change several tables: the map before it has cleared the filter, and
\* nothing in between sets it again.
THEOREM RowsAreSent == Spec => []CompleteFromBoundary
<1>1. IInv => CompleteFromBoundary
  BY DEF IInv
<1>2. QED
  BY Invariant, <1>1, PTL

\* Unless a session started inside a transaction, the rows that were sent are
\* those of wanted tables, under the name of their own table, but for those of
\* statements that change several tables.
THEOREM RowsKeepTheirTable == Spec => []OwnTableFromBoundary
<1>1. IInv => OwnTableFromBoundary
  BY DEF IInv
<1>2. QED
  BY Invariant, <1>1, PTL

\* Unless a session started inside a transaction, the positions a slave can
\* resume from lie outside of transactions, or behind rows it has got.
THEOREM PositionsAreSafe == Spec => []PointsAreCommitsOrRows
<1>1. IInv => PointsAreCommitsOrRows
  BY DEF IInv
<1>2. QED
  BY Invariant, <1>1, PTL
=============================================================================
