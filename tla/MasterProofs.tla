---------------------------- MODULE MasterProofs ----------------------------
(***************************************************************************)
(* Theorems about Master, for every number of reloads and threads.  Those  *)
(* about the infos and their threads hold whatever the files say, and      *)
(* nothing in their proofs depends on what Parse computes.                 *)
(*                                                                         *)
(* Their invariant follows the main thread through rs_init_master_info():  *)
(* at each place it says which of the two infos has the pool, the socket   *)
(* and the accept thread (Resources, Acceptor), and, as long as nothing    *)
(* has failed, that one of them accepts slaves or is about to (Service).   *)
(*                                                                         *)
(* The second half is about the files: for every file whose lines are like *)
(* the examples, of any length, what Parse computes is Meaning.  It goes   *)
(* from the characters to the words, the lines and the files; Leads says   *)
(* what a text does to the parser, Followed what holds behind a line.      *)
(***************************************************************************)
EXTENDS Master, SequenceTheorems, FiniteSetTheorems, WellFoundedInduction, TLAPS

-----------------------------------------------------------------------------
(* The invariant.                                                          *)

Building == {"cancel", "join", "take", "listen", "dump", "create", "free", "freejoin"}

\* The infos by their places: a new one is that of this reload, the current
\* one is an older one.
Places ==
  /\ DOMAIN conf = Infos
  /\ acc \in [Infos -> 0 .. MaxThreads] /\ exited \in [Infos -> BOOLEAN]
  /\ DOMAIN sock = Infos /\ DOMAIN dump = Infos
  /\ mpc # "dead" => (new # NULL <=> mpc \in Building)
  /\ mpc \in {"start", "exit"} => cur = NULL
  /\ mpc \in {"wait", "sighup", "cancel", "join", "take", "free", "freejoin", "quit",
              "quitjoin"} => cur # NULL
  /\ cur # NULL => cur <= reloads
  /\ new # NULL => new = reloads /\ cur # new
  /\ mpc \in {"sighup", "init"} => cur # reloads

\* What is open, and what it belongs to.
Resources ==
  /\ pools = {cur, new} \ {NULL}
  /\ bound = {sock[g] : g \in Infos} \ {NULL}
  /\ \A g, h \in Infos : sock[g] # NULL /\ sock[g] = sock[h] => g = h
  /\ \A g \in Infos : sock[g] # NULL => g \in {cur, new}
  /\ mpc \in {"cancel", "join", "take", "listen"} => sock[new] = NULL
  /\ new # NULL => conf[new].addr # NULL

\* The pid file is where the configuration last read says.
PidFile ==
  /\ mpc = "start" => pidPath = NULL /\ pidFiles = {}
  /\ pidPath # NULL => /\ mpc \notin {"dead", "exit"} => pidFiles = {pidPath}
                       /\ mpc = "exit" => pidFiles = {}

\* The accept thread of an info, unless it has left; none other is there.
ServedBy(g) == acc[g] \in Threads /\ (exited[g] \/ thread[acc[g]] = g)
Only(g) == \A t \in Threads : thread[t] # NULL => t = acc[g] /\ thread[t] = g

\* Whose accept thread can be there, at each place of the main thread.
Acceptor ==
  /\ \A s, t \in Threads : thread[s] # NULL /\ thread[t] # NULL => s = t
  /\ cur # NULL => ServedBy(cur)
  /\ mpc \in {"free", "freejoin"} => ServedBy(new) /\ Only(new)
  /\ mpc \notin {"free", "freejoin", "dead"} =>
       \A t \in Threads : thread[t] # NULL => cur # NULL /\ t = acc[cur] /\ thread[t] = cur
  /\ mpc \in {"take", "listen", "dump", "create"} => \A t \in Threads : thread[t] = NULL

\* An info that accepts slaves.
Open(g) == sock[g] = conf[g].addr /\ sock[g] # NULL
Accepts(g) == thread[acc[g]] = g /\ acc[g] \notin cancelled

\* What is in use while nothing has failed.
Service ==
  ~broken =>
    /\ mpc \in {"wait", "sighup", "cancel", "join", "take"} => Open(cur)
    /\ mpc = "init" /\ cur # NULL => Open(cur) /\ Accepts(cur)
    /\ mpc \in {"wait", "sighup", "cancel"} => Accepts(cur)
    /\ mpc \in {"dump", "create", "free", "freejoin"} => Open(new)
    /\ mpc \in {"free", "freejoin"} => Accepts(new)

IInv == TypeOK /\ Places /\ Resources /\ PidFile /\ Acceptor /\ Service

\* NULL, infos and thread identifiers are told apart.
LEMMA Numbers ==
  /\ MaxReloads \in Nat /\ MaxThreads \in Nat \ {0} /\ 0 \in Infos /\ 0 \notin Threads
  /\ NULL \notin Infos /\ DefaultAddr # NULL
  /\ \A g \in Infos : g \in Nat /\ g <= MaxReloads
  /\ \A g \in 0 .. MaxReloads : g \in Infos
  /\ Threads \subseteq 0 .. MaxThreads
BY MasterAssumption DEF Infos, Threads

\* Nothing is there when the process starts.
LEMMA InvInit == Init => IInv
<1> SUFFICES ASSUME Init PROVE IInv
  OBVIOUS
<1>1. TypeOK
  <2>1. /\ thread \in [Threads -> Infos \cup {NULL}] /\ cancelled = {} /\ ended = {}
        /\ mpc = "start" /\ cur = NULL /\ new = NULL /\ pools = {} /\ reloads = 0
        /\ broken = FALSE
        /\ \A g \in Infos : acc[g] = 0 /\ exited[g] = FALSE /\ sock[g] = NULL /\ dump[g] = NULL
    BY DEF Init
  <2>2. /\ \A g \in Infos : /\ acc[g] \in 0 .. MaxThreads /\ exited[g] \in BOOLEAN
                            /\ sock[g] \in {NULL} \cup bound /\ dump[g] \in {NULL} \cup Infos
        /\ cur \in Infos \cup {NULL} /\ new \in Infos \cup {NULL} /\ pools \subseteq Infos
        /\ reloads \in 0 .. MaxReloads /\ broken \in BOOLEAN
    <3>1. 0 \in 0 .. MaxThreads /\ 0 \in 0 .. MaxReloads
      BY Numbers
    <3>2. \A g \in Infos : /\ acc[g] \in 0 .. MaxThreads /\ exited[g] \in BOOLEAN
                          /\ sock[g] \in {NULL} \cup bound /\ dump[g] \in {NULL} \cup Infos
      BY <2>1, <3>1
    <3>3. QED
      BY <2>1, <3>1, <3>2
  <2>3. cancelled \subseteq {t \in Threads : thread[t] # NULL} /\ \A t \in ended : thread[t] = NULL
    BY <2>1
  <2>4. QED
    BY <2>1, <2>2, <2>3 DEF TypeOK
<1>2. Places
  BY Numbers DEF Init, Places, Building
<1>3. Resources
  BY Numbers DEF Init, Resources
<1>4. PidFile /\ Acceptor /\ Service
  BY Numbers DEF Init, PidFile, Acceptor, Service
<1>5. QED
  BY <1>1, <1>2, <1>3, <1>4 DEF IInv

\* The types; the thread that is cancelled is one (Acceptor).
LEMMA TypeStep == TypeOK /\ Places /\ Resources /\ Acceptor /\ [Next]_vars => TypeOK'
<1> SUFFICES ASSUME TypeOK /\ Places /\ Resources /\ Acceptor, [Next]_vars PROVE TypeOK'
  OBVIOUS
<1> USE Numbers DEF TypeOK, Places, Resources, Building
<1>1. CASE CoreFails
  BY <1>1 DEF CoreFails, infos, threads, process
<1>2. CASE CoreReads
  BY <1>2 DEF CoreReads, infos, threads, process
<1>3. CASE MasterReads
  BY <1>3 DEF MasterReads, Info, infos, threads, process
<1>4. CASE MasterFails
  BY <1>4 DEF MasterFails, Leave, infos, threads, process
<1>5. CASE CancelOld
  <2>1. cancelled' \subseteq {t \in Threads : thread[t] # NULL}
    <3>1. acc[cur] \in Threads
      BY <1>5 DEF CancelOld, Acceptor, ServedBy
    <3>2. QED
      <4> HIDE DEF Places, Resources, Building
      <4>1. thread' = thread /\ cancelled \subseteq {t \in Threads : thread[t] # NULL}
        BY <1>5 DEF CancelOld
      <4>2. cancelled' \subseteq cancelled \cup {acc[cur]} /\ thread' = thread
            /\ (thread[acc[cur]] = NULL => cancelled' = cancelled)
        BY <1>5 DEF CancelOld, Cancel
      <4>3. QED
        BY <3>1, <4>1, <4>2
  <2>2. QED
    BY <1>5, <2>1 DEF CancelOld, infos, process
<1>6. CASE JoinOld
  BY <1>6 DEF JoinOld, Join, infos, threads, process
<1>7. CASE TakeOver
  BY <1>7 DEF TakeOver, SockTaken, NewListen, AfterListen, infos, threads, process
<1>8. CASE Listen
  BY <1>8 DEF Listen, AfterListen, infos, threads, process
<1>9. CASE CreateDump
  BY <1>9 DEF CreateDump, infos, threads, process
<1>10. CASE CreateThread
  BY <1>10 DEF CreateThread, infos, threads, process
<1>11. CASE InitFails
  BY <1>11 DEF InitFails, Destroyed, Leave, infos, threads, process
<1>12. CASE FreeCancels
  <2>1. cancelled' \subseteq {t \in Threads : thread[t] # NULL}
    <3>1. acc[cur] \in Threads
      BY <1>12 DEF FreeCancels, Acceptor, ServedBy
    <3>2. QED
      BY <1>12, <3>1 DEF FreeCancels, Cancel
  <2>2. mpc' \in {"freejoin", "quitjoin"}
    BY <1>12 DEF FreeCancels
  <2>3. QED
    BY <1>12, <2>1, <2>2 DEF FreeCancels, infos, process
<1>13. CASE FreeJoins
  BY <1>13 DEF FreeJoins, Join, Destroyed, Leave, infos, threads, process
<1>14. CASE SigHup
  BY <1>14 DEF SigHup, infos, threads, process
<1>15. CASE SigQuit
  BY <1>15 DEF SigQuit, infos, threads, process
<1>16. ASSUME NEW u \in Threads, ThreadCancelled(u) \/ ThreadFails(u) PROVE TypeOK'
  <2>1. /\ thread' = [thread EXCEPT ![u] = NULL] /\ cancelled' = cancelled \ {u}
        /\ ended' = ended \cup {u} /\ thread[u] \in Infos
        /\ exited' = [exited EXCEPT ![thread[u]] = TRUE] /\ broken' \in BOOLEAN
        /\ UNCHANGED <<mpc, conf, cur, new, acc, sock, dump, pools, bound, process>>
    BY <1>16 DEF ThreadCancelled, ThreadFails, Running, Ends
  <2>2. /\ thread' \in [Threads -> Infos \cup {NULL}]
        /\ cancelled' \subseteq {t \in Threads : thread'[t] # NULL}
        /\ \A t \in ended' : thread'[t] = NULL
    BY <2>1
  <2>3. \A g \in Infos : exited'[g] \in BOOLEAN
    BY <2>1
  <2>4. QED
    BY <2>1, <2>2, <2>3 DEF process
<1>17. ASSUME NEW u \in Threads, NoReqdump(u) PROVE TypeOK'
  BY <1>17 DEF NoReqdump, Running, infos, threads, process
<1>18. CASE UNCHANGED vars
  BY <1>18 DEF vars, infos, threads, process
<1>19. QED
  BY <1>1, <1>2, <1>3, <1>4, <1>5, <1>6, <1>7, <1>8, <1>9, <1>10, <1>11, <1>12, <1>13, <1>14, <1>15, <1>16, <1>17, <1>18 DEF Next

\* The infos go from new to current, and never twice.
LEMMA PlacesStep == TypeOK /\ Places /\ [Next]_vars => Places'
<1> SUFFICES ASSUME TypeOK /\ Places, [Next]_vars PROVE Places'
  OBVIOUS
<1> USE Numbers DEF TypeOK, Places, Building
<1>1. CASE CoreFails
  BY <1>1 DEF CoreFails, infos, threads, process
<1>2. CASE CoreReads
  BY <1>2 DEF CoreReads, infos, threads, process
<1>3. CASE MasterReads
  BY <1>3 DEF MasterReads, Info, infos, threads, process
<1>4. CASE MasterFails
  BY <1>4 DEF MasterFails, Leave, infos, threads, process
<1>5. CASE CancelOld
  BY <1>5 DEF CancelOld, Cancel, infos, threads, process
<1>6. CASE JoinOld
  BY <1>6 DEF JoinOld, Join, infos, threads, process
<1>7. CASE TakeOver
  BY <1>7 DEF TakeOver, SockTaken, NewListen, AfterListen, infos, threads, process
<1>8. CASE Listen
  BY <1>8 DEF Listen, AfterListen, infos, threads, process
<1>9. CASE CreateDump
  BY <1>9 DEF CreateDump, infos, threads, process
<1>10. CASE CreateThread
  BY <1>10 DEF CreateThread, infos, threads, process
<1>11. CASE InitFails
  BY <1>11 DEF InitFails, Destroyed, Leave, infos, threads, process
<1>12. CASE FreeCancels
  BY <1>12 DEF FreeCancels, Cancel, infos, threads, process
<1>13. CASE FreeJoins
  BY <1>13 DEF FreeJoins, Join, Destroyed, Leave, infos, threads, process
<1>14. CASE SigHup
  BY <1>14 DEF SigHup, infos, threads, process
<1>15. CASE SigQuit
  BY <1>15 DEF SigQuit, infos, threads, process
<1>16. ASSUME NEW u \in Threads, ThreadCancelled(u) \/ ThreadFails(u) PROVE Places'
  BY <1>16 DEF ThreadCancelled, ThreadFails, Running, Ends, process
<1>17. ASSUME NEW u \in Threads, NoReqdump(u) PROVE Places'
  BY <1>17 DEF NoReqdump, Running, infos, threads, process
<1>18. CASE UNCHANGED vars
  BY <1>18 DEF vars, infos, threads, process
<1>19. QED
  BY <1>1, <1>2, <1>3, <1>4, <1>5, <1>6, <1>7, <1>8, <1>9, <1>10, <1>11, <1>12, <1>13, <1>14, <1>15, <1>16, <1>17, <1>18 DEF Next

\* A socket changes hands or is closed, and one info never has that of another.
LEMMA ResourcesStep == TypeOK /\ Places /\ Resources /\ [Next]_vars => Resources'
<1> SUFFICES ASSUME TypeOK /\ Places /\ Resources, [Next]_vars PROVE Resources'
  OBVIOUS
<1> USE Numbers DEF TypeOK, Places, Resources, Building
<1>1. CASE CoreFails
  BY <1>1 DEF CoreFails, infos, threads, process
<1>2. CASE CoreReads
  BY <1>2 DEF CoreReads, infos, threads, process
<1>3. CASE MasterReads
  BY <1>3 DEF MasterReads, Info, infos, threads, process
<1>4. CASE MasterFails
  BY <1>4 DEF MasterFails, Leave, infos, threads, process
<1>5. CASE CancelOld
  BY <1>5 DEF CancelOld, Cancel, infos, threads, process
<1>6. CASE JoinOld
  BY <1>6 DEF JoinOld, Join, infos, threads, process
<1>7. CASE TakeOver
  BY <1>7 DEF TakeOver, SockTaken, NewListen, AfterListen, infos, threads, process
<1>8. CASE Listen
  BY <1>8 DEF Listen, AfterListen, infos, threads, process
<1>9. CASE CreateDump
  BY <1>9 DEF CreateDump, infos, threads, process
<1>10. CASE CreateThread
  BY <1>10 DEF CreateThread, infos, threads, process
<1>11. CASE InitFails
  BY <1>11 DEF InitFails, Destroyed, Leave, infos, threads, process
<1>12. CASE FreeCancels
  BY <1>12 DEF FreeCancels, Cancel, infos, threads, process
<1>13. CASE FreeJoins
  BY <1>13 DEF FreeJoins, Join, Destroyed, Leave, infos, threads, process
<1>14. CASE SigHup
  BY <1>14 DEF SigHup, infos, threads, process
<1>15. CASE SigQuit
  BY <1>15 DEF SigQuit, infos, threads, process
<1>16. ASSUME NEW u \in Threads, ThreadCancelled(u) \/ ThreadFails(u) PROVE Resources'
  BY <1>16 DEF ThreadCancelled, ThreadFails, Running, Ends, process
<1>17. ASSUME NEW u \in Threads, NoReqdump(u) PROVE Resources'
  BY <1>17 DEF NoReqdump, Running, infos, threads, process
<1>18. CASE UNCHANGED vars
  BY <1>18 DEF vars, infos, threads, process
<1>19. QED
  BY <1>1, <1>2, <1>3, <1>4, <1>5, <1>6, <1>7, <1>8, <1>9, <1>10, <1>11, <1>12, <1>13, <1>14, <1>15, <1>16, <1>17, <1>18 DEF Next

\* The old pid file goes when the new one comes.
LEMMA PidFileStep == Places /\ PidFile /\ [Next]_vars => PidFile'
<1> SUFFICES ASSUME Places /\ PidFile, [Next]_vars PROVE PidFile'
  OBVIOUS
<1> USE Numbers DEF PidFile, Places
<1>1. CASE CoreFails
  BY <1>1 DEF CoreFails, infos, threads, process
<1>2. CASE CoreReads
  BY <1>2 DEF CoreReads, infos, threads, process
<1>3. CASE MasterReads
  BY <1>3 DEF MasterReads, Info, infos, threads, process
<1>4. CASE MasterFails
  BY <1>4 DEF MasterFails, Leave, infos, threads, process
<1>5. CASE CancelOld
  BY <1>5 DEF CancelOld, Cancel, infos, threads, process
<1>6. CASE JoinOld
  BY <1>6 DEF JoinOld, Join, infos, threads, process
<1>7. CASE TakeOver
  BY <1>7 DEF TakeOver, SockTaken, NewListen, AfterListen, infos, threads, process
<1>8. CASE Listen
  BY <1>8 DEF Listen, AfterListen, infos, threads, process
<1>9. CASE CreateDump
  BY <1>9 DEF CreateDump, infos, threads, process
<1>10. CASE CreateThread
  BY <1>10 DEF CreateThread, infos, threads, process
<1>11. CASE InitFails
  BY <1>11 DEF InitFails, Destroyed, Leave, infos, threads, process
<1>12. CASE FreeCancels
  BY <1>12 DEF FreeCancels, Cancel, infos, threads, process
<1>13. CASE FreeJoins
  BY <1>13 DEF FreeJoins, Join, Destroyed, Leave, infos, threads, process
<1>14. CASE SigHup
  BY <1>14 DEF SigHup, infos, threads, process
<1>15. CASE SigQuit
  BY <1>15 DEF SigQuit, infos, threads, process
<1>16. ASSUME NEW u \in Threads, ThreadCancelled(u) \/ ThreadFails(u) PROVE PidFile'
  BY <1>16 DEF ThreadCancelled, ThreadFails, Running, Ends, process
<1>17. ASSUME NEW u \in Threads, NoReqdump(u) PROVE PidFile'
  BY <1>17 DEF NoReqdump, Running, infos, threads, process
<1>18. CASE UNCHANGED vars
  BY <1>18 DEF vars, infos, threads, process
<1>19. QED
  BY <1>1, <1>2, <1>3, <1>4, <1>5, <1>6, <1>7, <1>8, <1>9, <1>10, <1>11, <1>12, <1>13, <1>14, <1>15, <1>16, <1>17, <1>18 DEF Next

\* A second accept thread starts only when the first was joined.
LEMMA AcceptorStep == TypeOK /\ Places /\ Acceptor /\ [Next]_vars => Acceptor'
<1> SUFFICES ASSUME TypeOK /\ Places /\ Acceptor, [Next]_vars PROVE Acceptor'
  OBVIOUS
<1> USE Numbers DEF TypeOK, Places, Building, Acceptor, ServedBy, Only
<1>1. CASE CoreFails
  BY <1>1 DEF CoreFails, infos, threads, process
<1>2. CASE CoreReads
  BY <1>2 DEF CoreReads, infos, threads, process
<1>3. CASE MasterReads
  BY <1>3 DEF MasterReads, Info, infos, threads, process
<1>4. CASE MasterFails
  BY <1>4 DEF MasterFails, Leave, infos, threads, process
<1>5. CASE CancelOld
  BY <1>5 DEF CancelOld, Cancel, infos, threads, process
<1>6. CASE JoinOld
  BY <1>6 DEF JoinOld, Join, infos, threads, process
<1>7. CASE TakeOver
  BY <1>7 DEF TakeOver, SockTaken, NewListen, AfterListen, infos, threads, process
<1>8. CASE Listen
  BY <1>8 DEF Listen, AfterListen, infos, threads, process
<1>9. CASE CreateDump
  BY <1>9 DEF CreateDump, infos, threads, process
<1>10. CASE CreateThread
  BY <1>10 DEF CreateThread, infos, threads, process
<1>11. CASE InitFails
  BY <1>11 DEF InitFails, Destroyed, Leave, infos, threads, process
<1>12. CASE FreeCancels
  BY <1>12 DEF FreeCancels, Cancel, infos, threads, process
<1>13. CASE FreeJoins
  BY <1>13 DEF FreeJoins, Join, Destroyed, Leave, infos, threads, process
<1>14. CASE SigHup
  BY <1>14 DEF SigHup, infos, threads, process
<1>15. CASE SigQuit
  BY <1>15 DEF SigQuit, infos, threads, process
<1>16. ASSUME NEW u \in Threads, ThreadCancelled(u) \/ ThreadFails(u) PROVE Acceptor'
  BY <1>16 DEF ThreadCancelled, ThreadFails, Running, Ends, process
<1>17. ASSUME NEW u \in Threads, NoReqdump(u) PROVE Acceptor'
  BY <1>17 DEF NoReqdump, Running, infos, threads, process
<1>18. CASE UNCHANGED vars
  BY <1>18 DEF vars, infos, threads, process
<1>19. QED
  BY <1>1, <1>2, <1>3, <1>4, <1>5, <1>6, <1>7, <1>8, <1>9, <1>10, <1>11, <1>12, <1>13, <1>14, <1>15, <1>16, <1>17, <1>18 DEF Next

\* Until something fails, a step keeps the socket that is served and its thread.
LEMMA ServiceStep == TypeOK /\ Places /\ Resources /\ Acceptor /\ Service /\ [Next]_vars => Service'
<1> SUFFICES ASSUME TypeOK /\ Places /\ Resources /\ Acceptor /\ Service, [Next]_vars PROVE Service'
  OBVIOUS
<1> USE Numbers DEF TypeOK, Places, Resources, Building, Acceptor, ServedBy, Only, Service, Open, Accepts
<1>1. CASE CoreFails
  BY <1>1 DEF CoreFails, infos, threads, process
<1>2. CASE CoreReads
  BY <1>2 DEF CoreReads, infos, threads, process
<1>3. CASE MasterReads
  BY <1>3 DEF MasterReads, Info, infos, threads, process
<1>4. CASE MasterFails
  BY <1>4 DEF MasterFails, Leave, infos, threads, process
<1>5. CASE CancelOld
  BY <1>5 DEF CancelOld, Cancel, infos, threads, process
<1>6. CASE JoinOld
  BY <1>6 DEF JoinOld, Join, infos, threads, process
<1>7. CASE TakeOver
  BY <1>7 DEF TakeOver, SockTaken, NewListen, AfterListen, infos, threads, process
<1>8. CASE Listen
  BY <1>8 DEF Listen, AfterListen, infos, threads, process
<1>9. CASE CreateDump
  BY <1>9 DEF CreateDump, infos, threads, process
<1>10. CASE CreateThread
  BY <1>10 DEF CreateThread, infos, threads, process
<1>11. CASE InitFails
  BY <1>11 DEF InitFails, Destroyed, Leave, infos, threads, process
<1>12. CASE FreeCancels
  BY <1>12 DEF FreeCancels, Cancel, infos, threads, process
<1>13. CASE FreeJoins
  BY <1>13 DEF FreeJoins, Join, Destroyed, Leave, infos, threads, process
<1>14. CASE SigHup
  BY <1>14 DEF SigHup, infos, threads, process
<1>15. CASE SigQuit
  BY <1>15 DEF SigQuit, infos, threads, process
<1>16. ASSUME NEW u \in Threads, ThreadCancelled(u) \/ ThreadFails(u) PROVE Service'
  BY <1>16 DEF ThreadCancelled, ThreadFails, Running, Ends, process
<1>17. ASSUME NEW u \in Threads, NoReqdump(u) PROVE Service'
  BY <1>17 DEF NoReqdump, Running, infos, threads, process
<1>18. CASE UNCHANGED vars
  BY <1>18 DEF vars, infos, threads, process
<1>19. QED
  BY <1>1, <1>2, <1>3, <1>4, <1>5, <1>6, <1>7, <1>8, <1>9, <1>10, <1>11, <1>12, <1>13, <1>14, <1>15, <1>16, <1>17, <1>18 DEF Next

-----------------------------------------------------------------------------
(* The theorems.                                                           *)

LEMMA Invariant == Spec => []IInv
<1>1. IInv /\ [Next]_vars => IInv'
  BY TypeStep, PlacesStep, ResourcesStep, PidFileStep, AcceptorStep, ServiceStep DEF IInv
<1>2. QED
  BY InvInit, <1>1, PTL DEF Spec

\* There is at most one accept thread at any moment of a start, a reload or an
\* end, whatever has failed.
THEOREM AtMostOneAcceptor == Spec => []OneAcceptor
<1>1. IInv => OneAcceptor
  <2> SUFFICES ASSUME IInv PROVE OneAcceptor
    OBVIOUS
  <2> DEFINE here == {t \in Threads : thread[t] # NULL}
  <2>1. \A s, t \in here : s = t
    BY DEF IInv, Acceptor
  <2>2. Cardinality(here) <= 1
    <3>1. CASE here = {}
      BY <3>1, FS_EmptySet
    <3>2. CASE here # {}
      <4>1. PICK t : t \in here
        BY <3>2
      <4>2. here = {t}
        BY <2>1, <4>1
      <4> HIDE DEF here
      <4>3. Cardinality({t}) = 1
        BY FS_Singleton
      <4>4. QED
        BY <4>2, <4>3
    <3>3. QED
      BY <3>1, <3>2
  <2>3. QED
    BY <2>2 DEF OneAcceptor, IInv
<1>2. QED
  BY Invariant, <1>1, PTL

\* A master that waits has closed and freed everything of its older infos, and
\* one that has left has freed everything.
THEOREM NothingIsLeft == Spec => []NothingLeft
<1>1. IInv => NothingLeft
  <2> SUFFICES ASSUME IInv PROVE NothingLeft
    OBVIOUS
  <2>1. CASE mpc = "wait"
    <3>1. new = NULL /\ cur \in Infos /\ pools = {cur}
      BY <2>1 DEF IInv, TypeOK, Places, Building, Resources
    <3>2. bound = {sock[cur]} \ {NULL}
      BY <3>1, Numbers DEF IInv, Resources
    <3>3. QED
      BY <2>1, <3>1, <3>2 DEF NothingLeft, IInv, PidFile
  <2>2. CASE mpc = "exit"
    <3>1. new = NULL /\ cur = NULL
      BY <2>2 DEF IInv, TypeOK, Places, Building
    <3>2. pools = {} /\ bound = {}
      BY <3>1, Numbers DEF IInv, Resources
    <3>3. QED
      BY <2>2, <3>2 DEF NothingLeft, IInv, PidFile
  <2>3. QED
    BY <2>1, <2>2 DEF NothingLeft
<1>2. QED
  BY Invariant, <1>1, PTL

\* A master that waits listens at the address of its configuration and has an
\* accept thread there, as long as no accept thread has failed of itself and no
\* reload after the old one was stopped.
THEOREM AddressIsServed == Spec => []ServesAddress
<1>1. IInv => ServesAddress
  BY Numbers DEF IInv, ServesAddress, Service, Open, Accepts, Places, Resources, TypeOK
<1>2. QED
  BY Invariant, <1>1, PTL

-----------------------------------------------------------------------------
(* Numbers.                                                                *)

\* A set of numbers that is not empty has a least element: the intervals from 0
\* to its elements are finite sets, which strict inclusion orders well.
LEMMA LeastElement ==
  ASSUME NEW T, T \subseteq Nat, T # {}
  PROVE  \E m \in T : \A n \in T : m <= n
<1> DEFINE R == StrictSubsetOrdering(Nat)
           I == {0 .. n : n \in T}
<1>1. IsWellFoundedOn(R, FiniteSubsetsOf(Nat))
  BY FS_StrictSubsetOrderingWellFounded
<1>2. \A n \in T : IsFiniteSet(0 .. n) /\ 0 .. n \subseteq Nat
  BY FS_Interval
<1>3. I \subseteq FiniteSubsetsOf(Nat) /\ I # {}
  BY <1>2 DEF FiniteSubsetsOf
<1> HIDE DEF R
<1>4. \E x \in I : \A y \in I : ~ (<<y, x>> \in R)
  <2> HIDE DEF I
  <2>1. QED
    BY <1>1, <1>3, WFMin
<1>5. PICK m \in T : \A n \in T : ~ (<<0 .. n, 0 .. m>> \in R)
  BY <1>4
<1>6. ASSUME NEW n \in T, ~ (m <= n) PROVE FALSE
  <2>1. n \in Nat /\ m \in Nat /\ n < m
    BY <1>6
  <2>2. 0 .. n \subseteq 0 .. m /\ m \in 0 .. m /\ m \notin 0 .. n
    BY <2>1
  <2>3. <<0 .. n, 0 .. m>> \in R
    BY <2>1, <2>2 DEF R, StrictSubsetOrdering
  <2>4. QED
    BY <2>3, <1>5, <1>6
<1>7. QED
  BY <1>5, <1>6

\* Induction, stated for a set in place of a predicate.
LEMMA SetInduction ==
  ASSUME NEW S, 0 \in S, \A n \in Nat : n \in S => n + 1 \in S
  PROVE  Nat \subseteq S
<1>1. SUFFICES ASSUME Nat \ S # {} PROVE FALSE
  OBVIOUS
<1>2. PICK m \in Nat \ S : \A n \in Nat \ S : m <= n
  BY <1>1, LeastElement
<1>3. m # 0 /\ m - 1 \in Nat /\ ~ (m <= m - 1) /\ (m - 1) + 1 = m
  BY <1>2
<1>4. QED
  BY <1>2, <1>3

\* A bounded one has a greatest, at the least distance from the bound.
LEMMA GreatestElement ==
  ASSUME NEW b \in Nat, NEW T, T \subseteq 0 .. b, T # {}
  PROVE  \E m \in T : \A n \in T : n <= m
<1> DEFINE D == {b - n : n \in T}
<1>1. D \subseteq Nat /\ D # {}
  <2>1. \A n \in T : b - n \in Nat
    OBVIOUS
  <2>2. QED
    BY <2>1
<1>2. PICK d \in D : \A e \in D : d <= e
  BY <1>1, LeastElement
<1>3. PICK m \in T : d = b - m
  BY <1>2
<1>4. ASSUME NEW n \in T PROVE n <= m
  <2>1. b - m <= b - n
    BY <1>2, <1>3
  <2>2. QED
    BY <2>1
<1>5. QED
  BY <1>4

\* Min and Max of the community modules.
LEMMA MinOfSet ==
  ASSUME NEW T, T \subseteq Nat, T # {}
  PROVE  Min(T) \in T /\ \A n \in T : Min(T) <= n
BY LeastElement DEF Min

LEMMA MaxOfSet ==
  ASSUME NEW b \in Nat, NEW T, T \subseteq 0 .. b, T # {}
  PROVE  Max(T) \in T /\ \A n \in T : n <= Max(T)
<1>1. \E m \in T : \A n \in T : m >= n
  <2>1. PICK m \in T : \A n \in T : n <= m
    BY GreatestElement
  <2>2. QED
    BY <2>1
<1>2. Max(T) \in T /\ \A n \in T : Max(T) >= n
  BY <1>1, Zenon DEF Max
<1>3. QED
  BY <1>2

LEMMA LastOfSet ==
  ASSUME NEW b \in Nat, NEW T, T \subseteq 0 .. b, b \in T
  PROVE  Max(T) = b
<1>1. Max(T) \in T /\ b <= Max(T)
  BY MaxOfSet
<1> DEFINE m == Max(T)
<1>2. m \in 0 .. b /\ b <= m
  BY <1>1
<1> HIDE DEF m
<1>3. m = b
  BY <1>2
<1>4. QED
  BY <1>3 DEF m

-----------------------------------------------------------------------------
(* The recursions of the parser have solutions.                            *)

\* The state behind i characters, in terms of the one before.
NextState(h, name, text, f, i) ==
  IF i = 0 THEN Start ELSE Step(h, name, f[i - 1], text[i])

LEMMA RunIs ==
  ASSUME NEW h, NEW name, NEW text, Len(text) \in Nat
  PROVE  \E st : /\ st = [i \in 0 .. Len(text) |-> NextState(h, name, text, st, i)]
                 /\ Run(h, name, text) = st[Len(text)]
<1> DEFINE L == Len(text)
           Good(g, n) == \A i \in 0 .. L : i < n => g[i] = NextState(h, name, text, g, i)
           P == {n \in Nat : \E g : Good(g, n)}
<1>0. L \in Nat
  OBVIOUS
<1> HIDE DEF L
<1>1. 0 \in P
  OBVIOUS
<1>2. ASSUME NEW n \in Nat, n \in P PROVE n + 1 \in P
  <2>1. PICK g : Good(g, n)
    BY <1>2
  <2> DEFINE f == [i \in 0 .. L |-> NextState(h, name, text, g, i)]
  <2>2. \A i \in 0 .. L : i < n => f[i] = g[i]
    BY <2>1
  <2>3. ASSUME NEW i \in 0 .. L, i < n + 1 PROVE f[i] = NextState(h, name, text, f, i)
    <3>1. i = 0 \/ (i - 1 \in 0 .. L /\ i - 1 < n)
      BY <1>0, <2>3
    <3>2. i = 0 \/ f[i - 1] = g[i - 1]
      BY <3>1, <2>2
    <3>3. f[i] = NextState(h, name, text, g, i)
      OBVIOUS
    <3> HIDE DEF f
    <3>4. QED
      BY <3>2, <3>3, Zenon DEF NextState
  <2> HIDE DEF f
  <2>4. Good(f, n + 1)
    BY <2>3
  <2>5. QED
    BY <2>4
<1>3. L + 1 \in P
  <2> HIDE DEF P
  <2>1. QED
    BY <1>0, <1>1, <1>2, SetInduction
<1>4. PICK g : Good(g, L + 1)
  BY <1>3
<1> DEFINE f == [i \in 0 .. L |-> NextState(h, name, text, g, i)]
<1>5. \A i \in 0 .. L : f[i] = g[i]
  BY <1>0, <1>4
<1>6. ASSUME NEW i \in 0 .. L PROVE NextState(h, name, text, g, i) = NextState(h, name, text, f, i)
  <2>1. i = 0 \/ i - 1 \in 0 .. L
    BY <1>0
  <2>2. i = 0 \/ f[i - 1] = g[i - 1]
    BY <1>5, <2>1
  <2> HIDE DEF f
  <2>3. QED
    BY <2>2, Zenon DEF NextState
<1>7. f = [i \in 0 .. L |-> NextState(h, name, text, f, i)]
  BY <1>6, Zenon
<1>8. \E s : s = [i \in 0 .. L |-> NextState(h, name, text, s, i)]
  BY <1>7, Zenon
<1>9. Run(h, name, text) =
        (CHOOSE s : s = [i \in 0 .. L |-> NextState(h, name, text, s, i)])[L]
  BY Zenon DEF Run, NextState, L
<1>10. QED
  BY <1>8, <1>9, Zenon DEF L


\* The text of the first j lines.
TextUpTo(lines, f, j) == IF j = 0 THEN << >> ELSE f[j - 1] \o LineText(lines[j])

LEMMA TextIs ==
  ASSUME NEW lines, Len(lines) \in Nat
  PROVE  \E text : /\ text = [j \in 0 .. Len(lines) |-> TextUpTo(lines, text, j)]
                   /\ Text(lines) = text[Len(lines)]
<1> DEFINE L == Len(lines)
           Good(g, n) == \A i \in 0 .. L : i < n => g[i] = TextUpTo(lines, g, i)
           P == {n \in Nat : \E g : Good(g, n)}
<1>0. L \in Nat
  OBVIOUS
<1> HIDE DEF L
<1>1. 0 \in P
  OBVIOUS
<1>2. ASSUME NEW n \in Nat, n \in P PROVE n + 1 \in P
  <2>1. PICK g : Good(g, n)
    BY <1>2
  <2> DEFINE f == [i \in 0 .. L |-> TextUpTo(lines, g, i)]
  <2>2. \A i \in 0 .. L : i < n => f[i] = g[i]
    BY <2>1
  <2>3. ASSUME NEW i \in 0 .. L, i < n + 1 PROVE f[i] = TextUpTo(lines, f, i)
    <3>1. i = 0 \/ (i - 1 \in 0 .. L /\ i - 1 < n)
      BY <1>0, <2>3
    <3>2. i = 0 \/ f[i - 1] = g[i - 1]
      BY <3>1, <2>2
    <3>3. f[i] = TextUpTo(lines, g, i)
      OBVIOUS
    <3> HIDE DEF f
    <3>4. QED
      BY <3>2, <3>3, Zenon DEF TextUpTo
  <2> HIDE DEF f
  <2>4. Good(f, n + 1)
    BY <2>3
  <2>5. QED
    BY <2>4
<1>3. L + 1 \in P
  <2> HIDE DEF P
  <2>1. QED
    BY <1>0, <1>1, <1>2, SetInduction
<1>4. PICK g : Good(g, L + 1)
  BY <1>3
<1> DEFINE f == [i \in 0 .. L |-> TextUpTo(lines, g, i)]
<1>5. \A i \in 0 .. L : f[i] = g[i]
  BY <1>0, <1>4
<1>6. ASSUME NEW i \in 0 .. L PROVE TextUpTo(lines, g, i) = TextUpTo(lines, f, i)
  <2>1. i = 0 \/ i - 1 \in 0 .. L
    BY <1>0
  <2>2. i = 0 \/ f[i - 1] = g[i - 1]
    BY <1>5, <2>1
  <2> HIDE DEF f
  <2>3. QED
    BY <2>2, Zenon DEF TextUpTo
<1>7. f = [i \in 0 .. L |-> TextUpTo(lines, f, i)]
  BY <1>6, Zenon
<1>8. \E s : s = [i \in 0 .. L |-> TextUpTo(lines, s, i)]
  BY <1>7, Zenon
<1>9. Text(lines) = (CHOOSE s : s = [i \in 0 .. L |-> TextUpTo(lines, s, i)])[L]
  BY Zenon DEF Text, TextUpTo, L
<1>10. QED
  BY <1>8, <1>9, Zenon DEF L

\* The hash with the first i keys.
HashUpTo(keys, num, f, i) ==
  IF i = 0 THEN [b \in 1 .. num |-> << >>] ELSE AddNext(f[i - 1], keys[i])

LEMMA RegisterIs ==
  ASSUME NEW keys, Len(keys) \in Nat, NEW num
  PROVE  \E h : /\ h = [i \in 0 .. Len(keys) |-> HashUpTo(keys, num, h, i)]
                /\ Register(keys, num) = h[Len(keys)]
<1> DEFINE L == Len(keys)
           Good(g, n) == \A i \in 0 .. L : i < n => g[i] = HashUpTo(keys, num, g, i)
           P == {n \in Nat : \E g : Good(g, n)}
<1>0. L \in Nat
  OBVIOUS
<1> HIDE DEF L
<1>1. 0 \in P
  OBVIOUS
<1>2. ASSUME NEW n \in Nat, n \in P PROVE n + 1 \in P
  <2>1. PICK g : Good(g, n)
    BY <1>2
  <2> DEFINE f == [i \in 0 .. L |-> HashUpTo(keys, num, g, i)]
  <2>2. \A i \in 0 .. L : i < n => f[i] = g[i]
    BY <2>1
  <2>3. ASSUME NEW i \in 0 .. L, i < n + 1 PROVE f[i] = HashUpTo(keys, num, f, i)
    <3>1. i = 0 \/ (i - 1 \in 0 .. L /\ i - 1 < n)
      BY <1>0, <2>3
    <3>2. i = 0 \/ f[i - 1] = g[i - 1]
      BY <3>1, <2>2
    <3>3. f[i] = HashUpTo(keys, num, g, i)
      OBVIOUS
    <3> HIDE DEF f
    <3>4. QED
      BY <3>2, <3>3, Zenon DEF HashUpTo
  <2> HIDE DEF f
  <2>4. Good(f, n + 1)
    BY <2>3
  <2>5. QED
    BY <2>4
<1>3. L + 1 \in P
  <2> HIDE DEF P
  <2>1. QED
    BY <1>0, <1>1, <1>2, SetInduction
<1>4. PICK g : Good(g, L + 1)
  BY <1>3
<1> DEFINE f == [i \in 0 .. L |-> HashUpTo(keys, num, g, i)]
<1>5. \A i \in 0 .. L : f[i] = g[i]
  BY <1>0, <1>4
<1>6. ASSUME NEW i \in 0 .. L PROVE HashUpTo(keys, num, g, i) = HashUpTo(keys, num, f, i)
  <2>1. i = 0 \/ i - 1 \in 0 .. L
    BY <1>0
  <2>2. i = 0 \/ f[i - 1] = g[i - 1]
    BY <1>5, <2>1
  <2> HIDE DEF f
  <2>3. QED
    BY <2>2, Zenon DEF HashUpTo
<1>7. f = [i \in 0 .. L |-> HashUpTo(keys, num, f, i)]
  BY <1>6, Zenon
<1>8. \E s : s = [i \in 0 .. L |-> HashUpTo(keys, num, s, i)]
  BY <1>7, Zenon
<1>9. Register(keys, num) = (CHOOSE s : s = [i \in 0 .. L |-> HashUpTo(keys, num, s, i)])[L]
  BY Zenon DEF Register, HashUpTo, L
<1>10. QED
  BY <1>8, <1>9, Zenon DEF L


-----------------------------------------------------------------------------
(* The parser, character by character.                                     *)

LEMMA AppendBehind ==
  ASSUME NEW S, NEW t \in Seq(S), NEW u \in Seq(S), NEW c \in S
  PROVE  t \o Append(u, c) = Append(t \o u, c) /\ t \o u \in Seq(S)
<1>1. t \o u \in Seq(S) /\ <<c>> \in Seq(S)
  BY ConcatProperties
<1>2. Append(u, c) = u \o <<c>> /\ Append(t \o u, c) = (t \o u) \o <<c>>
  BY <1>1, AppendIsConcat
<1>3. t \o (u \o <<c>>) = (t \o u) \o <<c>>
  BY <1>1, ConcatAssociative
<1>4. QED
  BY <1>1, <1>2, <1>3

States(h, name, text, f) == f = [i \in 0 .. Len(text) |-> NextState(h, name, text, f, i)]

LEMMA RunStates ==
  ASSUME NEW h, NEW name, NEW text, Len(text) \in Nat
  PROVE  \E f : States(h, name, text, f) /\ Run(h, name, text) = f[Len(text)]
BY RunIs DEF States

LEMMA RunStart ==
  ASSUME NEW h, NEW name
  PROVE  Run(h, name, << >>) = Start
<1>1. Len(<< >>) = 0
  OBVIOUS
<1>2. PICK st : /\ st = [i \in 0 .. Len(<< >>) |-> NextState(h, name, << >>, st, i)]
                /\ Run(h, name, << >>) = st[Len(<< >>)]
  BY <1>1, RunIs
<1>3. st[0] = NextState(h, name, << >>, st, 0)
  <2>1. 0 \in 0 .. Len(<< >>)
    BY <1>1
  <2>2. QED
    BY <1>2, <2>1, Zenon
<1>4. QED
  BY <1>1, <1>2, <1>3, Zenon DEF NextState

LEMMA RunNext ==
  ASSUME NEW S, NEW h, NEW name, NEW text \in Seq(S), NEW c \in S
  PROVE  Run(h, name, Append(text, c)) = Step(h, name, Run(h, name, text), c)
<1>0. PICK more : more = Append(text, c)
  OBVIOUS
<1> DEFINE L == Len(text)
<1>1. /\ L \in Nat /\ Len(more) = L + 1 /\ more[L + 1] = c
      /\ \A i \in 1 .. L : more[i] = text[i]
  <2>1. /\ L \in Nat /\ Len(more) = L + 1 /\ more[L + 1] = c
    BY <1>0, AppendProperties
  <2>2. \A i \in 1 .. L : more[i] = text[i]
    BY <1>0, AppendProperties
  <2>3. QED
    BY <2>1, <2>2
<1> HIDE DEF L
<1>2. PICK f : /\ f = [i \in 0 .. L |-> NextState(h, name, text, f, i)]
               /\ Run(h, name, text) = f[L]
  <2>1. Len(text) \in Nat
    BY <1>1 DEF L
  <2>2. \E f : States(h, name, text, f) /\ Run(h, name, text) = f[Len(text)]
    BY <2>1, RunStates, Zenon
  <2>3. QED
    BY <2>2 DEF L, States
<1>3. PICK g : /\ g = [i \in 0 .. L + 1 |-> NextState(h, name, more, g, i)]
               /\ Run(h, name, more) = g[L + 1]
  <2>1. Len(more) \in Nat
    BY <1>1
  <2>2. \E g : States(h, name, more, g) /\ Run(h, name, more) = g[Len(more)]
    BY <2>1, RunStates, Zenon
  <2>3. QED
    BY <1>1, <2>2 DEF States
<1>4. \A i \in 0 .. L : f[i] = NextState(h, name, text, f, i)
  BY <1>2, Zenon
<1>5. \A i \in 0 .. L + 1 : g[i] = NextState(h, name, more, g, i)
  BY <1>3, Zenon
<1> DEFINE P == {n \in Nat : n <= L => g[n] = f[n]}
<1>6. 0 \in P
  <2>1. 0 \in 0 .. L /\ 0 \in 0 .. L + 1
    BY <1>1
  <2>2. f[0] = Start /\ g[0] = Start
    BY <1>4, <1>5, <2>1, Zenon DEF NextState
  <2>3. QED
    BY <2>2
<1>7. ASSUME NEW n \in Nat, n \in P PROVE n + 1 \in P
  <2>1. SUFFICES ASSUME n + 1 <= L PROVE g[n + 1] = f[n + 1]
    OBVIOUS
  <2>2. n + 1 \in 0 .. L /\ n + 1 \in 0 .. L + 1 /\ n + 1 \in 1 .. L /\ n + 1 # 0
        /\ (n + 1) - 1 = n /\ n <= L
    BY <1>1, <2>1
  <2>3. g[n] = f[n]
    BY <1>7, <2>2
  <2>4. f[n + 1] = Step(h, name, f[n], text[n + 1])
    BY <1>4, <2>2, Zenon DEF NextState
  <2>5. g[n + 1] = Step(h, name, g[n], more[n + 1])
    BY <1>5, <2>2, Zenon DEF NextState
  <2>6. more[n + 1] = text[n + 1]
    BY <1>1, <2>2
  <2>7. QED
    BY <2>3, <2>4, <2>5, <2>6, Zenon
<1>8. g[L] = f[L]
  <2> HIDE DEF P
  <2>1. L \in P
    BY <1>1, <1>6, <1>7, SetInduction
  <2>2. QED
    BY <1>1, <2>1 DEF P
<1>9. g[L + 1] = Step(h, name, g[L], more[L + 1])
  <2>1. L + 1 \in 0 .. L + 1 /\ L + 1 # 0 /\ (L + 1) - 1 = L
    BY <1>1
  <2>2. QED
    BY <1>5, <2>1, Zenon DEF NextState
<1>10. QED
  BY <1>0, <1>1, <1>2, <1>3, <1>8, <1>9, Zenon

\* A word: F[n] is the state behind n characters of it.
LEMMA RunWord ==
  ASSUME NEW S, NEW h, NEW name, NEW t \in Seq(S), NEW w \in Seq(S), NEW F,
         F[0] = Run(h, name, t),
         \A n \in 1 .. Len(w) : F[n] = Step(h, name, F[n - 1], w[n])
  PROVE  Run(h, name, t \o w) = F[Len(w)]
<1> DEFINE U(n) == SubSeq(w, 1, n)
           P == {n \in Nat : n <= Len(w) => Run(h, name, t \o U(n)) = F[n]}
<1>1. 0 \in P
  <2>1. U(0) = << >> /\ t \o << >> = t
    OBVIOUS
  <2>2. QED
    BY <2>1
<1>2. ASSUME NEW n \in Nat, n \in P PROVE n + 1 \in P
  <2>1. SUFFICES ASSUME n + 1 <= Len(w) PROVE Run(h, name, t \o U(n + 1)) = F[n + 1]
    OBVIOUS
  <2>2. n + 1 \in 1 .. Len(w) /\ n <= Len(w) /\ (n + 1) - 1 = n
    BY <2>1
  <2>3. Run(h, name, t \o U(n)) = F[n]
    BY <1>2, <2>2
  <2>4. U(n) \in Seq(S) /\ w[n + 1] \in S
    BY <2>2
  <2>5. U(n + 1) = Append(U(n), w[n + 1])
    BY <2>2
  <2> DEFINE u == U(n)
             c == w[n + 1]
  <2>6. t \o Append(u, c) = Append(t \o u, c) /\ t \o u \in Seq(S)
    <3>1. u \in Seq(S) /\ c \in S
      BY <2>4
    <3> HIDE DEF u, c
    <3>2. QED
      BY <3>1, AppendBehind
  <2>7. Run(h, name, Append(t \o u, c)) = Step(h, name, Run(h, name, t \o u), c)
    <3> DEFINE z == t \o u
    <3>1. z \in Seq(S) /\ c \in S
      BY <2>4, <2>6
    <3> HIDE DEF u, c, z
    <3>2. Run(h, name, Append(z, c)) = Step(h, name, Run(h, name, z), c)
      BY <3>1, RunNext
    <3>3. QED
      BY <3>2 DEF z
  <2>8. F[n + 1] = Step(h, name, F[n], w[n + 1])
    BY <2>2
  <2>9. QED
    BY <2>3, <2>5, <2>6, <2>7, <2>8
<1>3. Len(w) \in P
  <2>1. Len(w) \in Nat
    OBVIOUS
  <2> HIDE DEF P
  <2>2. QED
    BY <1>1, <1>2, <2>1, SetInduction
<1>4. U(Len(w)) = w
  OBVIOUS
<1>5. Len(w) \in Nat /\ Len(w) <= Len(w)
  OBVIOUS
<1> HIDE DEF U
<1>6. QED
  BY <1>3, <1>4, <1>5


\* A state in which nothing has failed, outside of and in a comment.
State(in, n, m, k, v, data) ==
  [in |-> in, comment |-> FALSE, n |-> n, m |-> m, k |-> k, v |-> v, data |-> data,
   ok |-> TRUE]
Commented(in, n, m, k, v, data) ==
  [in |-> in, comment |-> TRUE, n |-> n, m |-> m, k |-> k, v |-> v, data |-> data,
   ok |-> TRUE]

LEMMA SpaceIsItself == Space # "#" /\ Space # "[" /\ Space # "]" /\ Space # "\n"
BY Zenon DEF Space

LEMMA StepFailed ==
  ASSUME NEW h, NEW name, NEW st, NEW c, ~st.ok
  PROVE  Step(h, name, st, c) = st
BY Zenon DEF Step

LEMMA StepComment ==
  ASSUME NEW h, NEW name, NEW c, NEW in, NEW n, NEW m, NEW k, NEW v, NEW data
  PROVE  /\ Step(h, name, State(in, n, m, k, v, data), "#")
              = Commented(in, n, m, k, v, data)
         /\ c # "\n" => Step(h, name, Commented(in, n, m, k, v, data), c)
                          = Commented(in, n, m, k, v, data)
         /\ Step(h, name, Commented(in, n, m, k, v, data), "\n")
              = State(in, n, m, k, v, data)
BY DEF Step, State, Commented

LEMMA ModuleOpens ==
  ASSUME NEW h, NEW name, NEW in, NEW n, NEW m, NEW k, NEW v, NEW data
  PROVE  Step(h, name, State(in, n, m, k, v, data), "[")
           = State("module", 0, << >>, k, v, data)
BY DEF Step, State

LEMMA ModuleChar ==
  ASSUME NEW h, NEW name, NEW c, NEW n \in Nat, NEW m, NEW k, NEW v, NEW data,
         c # "#" /\ c # "[" /\ c # "]" /\ c # "\n", ~ (n > ModuleMax)
  PROVE  Step(h, name, State("module", n, m, k, v, data), c)
           = State("module", n + 1, Append(m, c), k, v, data)
BY DEF Step, State, Module, Put, Fail

LEMMA ModuleEnds ==
  ASSUME NEW h, NEW name, NEW n \in Nat, NEW m, NEW k, NEW v, NEW data
  PROVE  ~ (n > ModuleMax) =>
           Step(h, name, State("module", n, m, k, v, data), "]")
             = IF IsPrefix(name, m) THEN State("key", 0, m, << >>, v, data)
               ELSE State("none", n, m, k, v, data)
<1>1. ~ (n > ModuleMax) /\ IsPrefix(name, m) =>
        Step(h, name, State("module", n, m, k, v, data), "]")
          = State("key", 0, m, << >>, v, data)
  BY DEF Step, State, Module, Fail
<1>2. ~ (n > ModuleMax) /\ ~ IsPrefix(name, m) =>
        Step(h, name, State("module", n, m, k, v, data), "]")
          = State("none", n, m, k, v, data)
  BY DEF Step, State, Module, Fail
<1>3. QED
  BY <1>1, <1>2

LEMMA ModuleBroken ==
  ASSUME NEW h, NEW name, NEW n, NEW m, NEW k, NEW v, NEW data
  PROVE  ~ Step(h, name, State("module", n, m, k, v, data), "\n").ok
BY DEF Step, State, Module, Fail

LEMMA StepNone ==
  ASSUME NEW h, NEW name, NEW c, c \notin {"#", "["},
         NEW n, NEW m, NEW k, NEW v, NEW data
  PROVE  Step(h, name, State("none", n, m, k, v, data), c)
           = State("none", n, m, k, v, data)
BY DEF Step, State

LEMMA KeyBlank ==
  ASSUME NEW h, NEW name, NEW c \in Blank, NEW n, NEW m, NEW v, NEW data
  PROVE  Step(h, name, State("key", n, m, << >>, v, data), c)
           = State("key", n, m, << >>, v, data)
BY SpaceIsItself DEF Step, State, Key, Blank

LEMMA KeyChar ==
  ASSUME NEW h, NEW name, NEW c, NEW n \in Nat, NEW m, NEW k, NEW v, NEW data,
         c # "#" /\ c # "[" /\ c # "\n" /\ c # Space, ~ (n > KeyMax)
  PROVE  Step(h, name, State("key", n, m, k, v, data), c)
           = State("key", n + 1, m, Append(k, c), v, data)
BY DEF Step, State, Key, Put, Fail, Blank

LEMMA KeyEnds ==
  ASSUME NEW h, NEW name, NEW n \in Nat, NEW m, NEW k, NEW v, NEW data,
         k # << >>, ~ (n > KeyMax)
  PROVE  Step(h, name, State("key", n, m, k, v, data), Space)
           = State("value", n, m, k, << >>, data)
BY SpaceIsItself DEF Step, State, Key, Fail, Blank

LEMMA KeyBroken ==
  ASSUME NEW h, NEW name, NEW n, NEW m, NEW k, NEW v, NEW data, k # << >>
  PROVE  ~ Step(h, name, State("key", n, m, k, v, data), "\n").ok
BY DEF Step, State, Key, Fail

LEMMA ValueBlank ==
  ASSUME NEW h, NEW name, NEW c \in Blank, NEW n, NEW m, NEW k, NEW data
  PROVE  Step(h, name, State("value", n, m, k, << >>, data), c)
           = State("value", n, m, k, << >>, data)
BY SpaceIsItself DEF Step, State, Value, Blank

LEMMA ValueChar ==
  ASSUME NEW h, NEW name, NEW c, NEW n \in Nat, NEW m, NEW k, NEW v, NEW data,
         c # "#" /\ c # "[" /\ c # "\n", ~ (n > ValueMax), v # << >> \/ c # Space
  PROVE  Step(h, name, State("value", n, m, k, v, data), c)
           = State("value", n + 1, m, k, Append(v, c), data)
BY DEF Step, State, Value, Put, Fail, Blank

LEMMA ValueUnknown ==
  ASSUME NEW h, NEW name, NEW n \in Nat, NEW m, NEW k, NEW v, NEW data,
         v # << >>, ~ (n > ValueMax), Lookup(h, k) = NULL
  PROVE  ~ Step(h, name, State("value", n, m, k, v, data), "\n").ok
BY DEF Step, State, Value, Apply, Fail

LEMMA ValueApplied ==
  ASSUME NEW h, NEW name, NEW n \in Nat, NEW m, NEW k, NEW v, NEW data,
         v # << >>, ~ (n > ValueMax), Lookup(h, k) # NULL
  PROVE  Step(h, name, State("value", n, m, k, v, data), "\n")
           = State("key", 0, m, << >>, v, Append(data, <<Lookup(h, k), v>>))
BY DEF Step, State, Value, Apply, Fail

-----------------------------------------------------------------------------
(* Words: Leads(w, a, b) says that w takes the parser from a to b.         *)

Chars == STRING \cup {"#", "[", "]"} \cup Blank

Leads(h, name, w, a, b) ==
  \A t \in Seq(Chars) : Run(h, name, t) = a => Run(h, name, t \o w) = b

LEMMA LeadsOn ==
  ASSUME NEW h, NEW name, NEW a, NEW b, NEW c, NEW u \in Seq(Chars), NEW w \in Seq(Chars),
         Leads(h, name, u, a, b), Leads(h, name, w, b, c)
  PROVE  Leads(h, name, u \o w, a, c)
<1> SUFFICES ASSUME NEW t \in Seq(Chars), Run(h, name, t) = a
             PROVE  Run(h, name, t \o (u \o w)) = c
  BY DEF Leads
<1>1. t \o u \in Seq(Chars) /\ (t \o u) \o w = t \o (u \o w)
  BY ConcatProperties, ConcatAssociative
<1>2. Run(h, name, t \o u) = b
  BY DEF Leads
<1>3. Run(h, name, (t \o u) \o w) = c
  BY <1>1, <1>2, Zenon DEF Leads
<1>4. QED
  BY <1>1, <1>3

LEMMA LeadsChar ==
  ASSUME NEW h, NEW name, NEW a, NEW b, NEW c \in Chars, Step(h, name, a, c) = b
  PROVE  Leads(h, name, <<c>>, a, b)
<1> SUFFICES ASSUME NEW t \in Seq(Chars), Run(h, name, t) = a
             PROVE  Run(h, name, t \o <<c>>) = b
  BY DEF Leads
<1>1. t \o <<c>> = Append(t, c)
  BY AppendIsConcat
<1>2. Run(h, name, Append(t, c)) = Step(h, name, Run(h, name, t), c)
  BY RunNext
<1>3. QED
  BY <1>1, <1>2

\* F[n] is the state behind n characters of the word.
LEMMA LeadsWord ==
  ASSUME NEW h, NEW name, NEW a, NEW b, NEW w \in Seq(Chars), NEW F,
         F[0] = a, F[Len(w)] = b,
         \A n \in 1 .. Len(w) : F[n] = Step(h, name, F[n - 1], w[n])
  PROVE  Leads(h, name, w, a, b)
<1> SUFFICES ASSUME NEW t \in Seq(Chars), Run(h, name, t) = a
             PROVE  Run(h, name, t \o w) = b
  BY DEF Leads
<1>1. F[0] = Run(h, name, t)
  OBVIOUS
<1>2. Run(h, name, t \o w) = F[Len(w)]
  BY <1>1, RunWord
<1>3. QED
  BY <1>2

\* A word that every character of it leaves alone.
LEMMA WordIdle ==
  ASSUME NEW h, NEW name, NEW a, NEW w \in Seq(Chars),
         \A n \in 1 .. Len(w) : Step(h, name, a, w[n]) = a
  PROVE  Leads(h, name, w, a, a)
<1> DEFINE F == [n \in 0 .. Len(w) |-> a]
<1>1. F[0] = a /\ F[Len(w)] = a
  OBVIOUS
<1>2. ASSUME NEW n \in 1 .. Len(w) PROVE F[n] = Step(h, name, F[n - 1], w[n])
  <2>1. n \in 0 .. Len(w) /\ n - 1 \in 0 .. Len(w)
    OBVIOUS
  <2>2. F[n] = a /\ F[n - 1] = a
    BY <2>1
  <2> HIDE DEF F
  <2>3. QED
    BY <2>2
<1> HIDE DEF F
<1>3. QED
  BY <1>1, <1>2, LeadsWord

\* The characters of a word, one after the other.
LEMMA WholeWord ==
  ASSUME NEW w \in Seq(Chars)
  PROVE  SubSeq(w, 1, 0) = << >> /\ SubSeq(w, 1, Len(w)) = w /\ Len(w) \in Nat
<1>1. SubSeq(w, 1, 0) = << >> /\ Len(w) \in Nat
  OBVIOUS
<1>2. SubSeq(w, 1, Len(w)) = w
  BY SubSeqFull
<1>3. QED
  BY <1>1, <1>2

LEMMA NextPrefix ==
  ASSUME NEW w \in Seq(Chars), NEW n \in 1 .. Len(w)
  PROVE  /\ n \in Nat /\ n - 1 \in Nat /\ (n - 1) + 1 = n
         /\ n \in 0 .. Len(w) /\ n - 1 \in 0 .. Len(w)
         /\ w[n] \in Range(w)
         /\ Append(SubSeq(w, 1, n - 1), w[n]) = SubSeq(w, 1, n)
         /\ n = 1 \/ SubSeq(w, 1, n - 1) # << >>
<1>1. n \in Nat /\ n - 1 \in Nat /\ (n - 1) + 1 = n /\ n \in 0 .. Len(w) /\ n - 1 \in 0 .. Len(w)
  OBVIOUS
<1>2. w[n] \in Range(w)
  BY DEF Range
<1>3. Append(SubSeq(w, 1, n - 1), w[n]) = SubSeq(w, 1, n)
  OBVIOUS
<1>4. n = 1 \/ SubSeq(w, 1, n - 1) # << >>
  <2>1. n = 1 \/ Len(SubSeq(w, 1, n - 1)) > 0
    OBVIOUS
  <2>2. QED
    BY <2>1
<1>5. QED
  BY <1>1, <1>2, <1>3, <1>4

\* Words without the characters that end them or begin something else.
SectionWord(w) == Range(w) \cap {"#", "[", "]", "\n"} = {}
KeyWord(w)     == Range(w) \cap {"#", "[", "\n", Space} = {}
ValueWord(w)   == Range(w) \cap {"#", "[", "\n"} = {} /\ w # << >> /\ w[1] # Space

LEMMA Limits == ModuleMax \in Nat /\ KeyMax \in Nat /\ ValueMax \in Nat
BY ConfAssumption

LEMMA WordModule ==
  ASSUME NEW h, NEW name, NEW w \in Seq(Chars), NEW k, NEW v, NEW data,
         SectionWord(w), Len(w) <= ModuleMax
  PROVE  Leads(h, name, w, State("module", 0, << >>, k, v, data),
                           State("module", Len(w), w, k, v, data))
<1> DEFINE S(n, u) == State("module", n, u, k, v, data)
<1> HIDE DEF S
<1> DEFINE F == [n \in 0 .. Len(w) |-> S(n, SubSeq(w, 1, n))]
<1>3. \A n \in 0 .. Len(w) : F[n] = S(n, SubSeq(w, 1, n))
  OBVIOUS
<1> HIDE DEF F
<1>2. F[0] = S(0, << >>) /\ F[Len(w)] = S(Len(w), w)
  <2>1. 0 \in 0 .. Len(w) /\ Len(w) \in 0 .. Len(w)
    BY WholeWord
  <2>2. QED
    BY <1>3, <2>1, WholeWord, Zenon
<1>4. ASSUME NEW n \in 1 .. Len(w) PROVE F[n] = Step(h, name, F[n - 1], w[n])
  <2>1. n \in 0 .. Len(w) /\ n - 1 \in 0 .. Len(w) /\ n - 1 \in Nat /\ (n - 1) + 1 = n
        /\ w[n] \in Range(w) /\ Append(SubSeq(w, 1, n - 1), w[n]) = SubSeq(w, 1, n)
    BY NextPrefix
  <2>2. F[n] = S(n, SubSeq(w, 1, n)) /\ F[n - 1] = S(n - 1, SubSeq(w, 1, n - 1))
    BY <1>3, <2>1
  <2>3. w[n] # "#" /\ w[n] # "[" /\ w[n] # "]" /\ w[n] # "\n"
    BY <2>1 DEF SectionWord
  <2>4. ~ (n - 1 > ModuleMax)
    BY Limits
  <2>5. Step(h, name, S(n - 1, SubSeq(w, 1, n - 1)), w[n])
          = S((n - 1) + 1, Append(SubSeq(w, 1, n - 1), w[n]))
    <3> DEFINE p == n - 1
               u == SubSeq(w, 1, n - 1)
               c == w[n]
    <3>1. p \in Nat /\ ~ (p > ModuleMax)
      BY <2>1, <2>4
    <3>2. c # "#" /\ c # "[" /\ c # "]" /\ c # "\n"
      BY <2>3
    <3> HIDE DEF p, u, c
    <3>3. Step(h, name, State("module", p, u, k, v, data), c)
            = State("module", p + 1, Append(u, c), k, v, data)
      BY <3>1, <3>2, ModuleChar
    <3>4. QED
      BY <3>3 DEF S, p, u, c
  <2>6. QED
    BY <2>1, <2>2, <2>5, Zenon
<1>5. QED
  BY <1>2, <1>4, LeadsWord DEF S

LEMMA WordKey ==
  ASSUME NEW h, NEW name, NEW w \in Seq(Chars), NEW m, NEW v, NEW data,
         KeyWord(w), Len(w) <= KeyMax
  PROVE  Leads(h, name, w, State("key", 0, m, << >>, v, data),
                           State("key", Len(w), m, w, v, data))
<1> DEFINE S(n, u) == State("key", n, m, u, v, data)
<1> HIDE DEF S
<1> DEFINE F == [n \in 0 .. Len(w) |-> S(n, SubSeq(w, 1, n))]
<1>3. \A n \in 0 .. Len(w) : F[n] = S(n, SubSeq(w, 1, n))
  OBVIOUS
<1> HIDE DEF F
<1>2. F[0] = S(0, << >>) /\ F[Len(w)] = S(Len(w), w)
  <2>1. 0 \in 0 .. Len(w) /\ Len(w) \in 0 .. Len(w)
    BY WholeWord
  <2>2. QED
    BY <1>3, <2>1, WholeWord, Zenon
<1>4. ASSUME NEW n \in 1 .. Len(w) PROVE F[n] = Step(h, name, F[n - 1], w[n])
  <2>1. n \in 0 .. Len(w) /\ n - 1 \in 0 .. Len(w) /\ n - 1 \in Nat /\ (n - 1) + 1 = n
        /\ w[n] \in Range(w) /\ Append(SubSeq(w, 1, n - 1), w[n]) = SubSeq(w, 1, n)
    BY NextPrefix
  <2>2. F[n] = S(n, SubSeq(w, 1, n)) /\ F[n - 1] = S(n - 1, SubSeq(w, 1, n - 1))
    BY <1>3, <2>1
  <2>3. w[n] # "#" /\ w[n] # "[" /\ w[n] # "\n" /\ w[n] # Space
    BY <2>1 DEF KeyWord
  <2>4. ~ (n - 1 > KeyMax)
    BY Limits
  <2>5. Step(h, name, S(n - 1, SubSeq(w, 1, n - 1)), w[n])
          = S((n - 1) + 1, Append(SubSeq(w, 1, n - 1), w[n]))
    <3> DEFINE p == n - 1
               u == SubSeq(w, 1, n - 1)
               c == w[n]
    <3>1. p \in Nat /\ ~ (p > KeyMax)
      BY <2>1, <2>4
    <3>2. c # "#" /\ c # "[" /\ c # "\n" /\ c # Space
      BY <2>3
    <3> HIDE DEF p, u, c
    <3>3. Step(h, name, State("key", p, m, u, v, data), c)
            = State("key", p + 1, m, Append(u, c), v, data)
      BY <3>1, <3>2, KeyChar
    <3>4. QED
      BY <3>3 DEF S, p, u, c
  <2>6. QED
    BY <2>1, <2>2, <2>5, Zenon
<1>5. QED
  BY <1>2, <1>4, LeadsWord DEF S

\* The length of a value is counted from that of its key.
LEMMA WordValue ==
  ASSUME NEW h, NEW name, NEW w \in Seq(Chars), NEW o \in Nat, NEW m, NEW k, NEW data,
         ValueWord(w), o + Len(w) <= ValueMax
  PROVE  Leads(h, name, w, State("value", o, m, k, << >>, data),
                           State("value", o + Len(w), m, k, w, data))
<1> DEFINE S(n, u) == State("value", n, m, k, u, data)
<1> HIDE DEF S
<1> DEFINE F == [n \in 0 .. Len(w) |-> S(o + n, SubSeq(w, 1, n))]
<1>3. \A n \in 0 .. Len(w) : F[n] = S(o + n, SubSeq(w, 1, n))
  OBVIOUS
<1> HIDE DEF F
<1>2. F[0] = S(o, << >>) /\ F[Len(w)] = S(o + Len(w), w)
  <2>1. 0 \in 0 .. Len(w) /\ Len(w) \in 0 .. Len(w) /\ o + 0 = o
    BY WholeWord
  <2>2. QED
    BY <1>3, <2>1, WholeWord, Zenon
<1>4. ASSUME NEW n \in 1 .. Len(w) PROVE F[n] = Step(h, name, F[n - 1], w[n])
  <2>1. n \in 0 .. Len(w) /\ n - 1 \in 0 .. Len(w) /\ n \in Nat
        /\ w[n] \in Range(w) /\ Append(SubSeq(w, 1, n - 1), w[n]) = SubSeq(w, 1, n)
        /\ (n = 1 \/ SubSeq(w, 1, n - 1) # << >>)
    BY NextPrefix
  <2>2. F[n] = S(o + n, SubSeq(w, 1, n)) /\ F[n - 1] = S(o + (n - 1), SubSeq(w, 1, n - 1))
    BY <1>3, <2>1
  <2>3. w[n] # "#" /\ w[n] # "[" /\ w[n] # "\n" /\ (SubSeq(w, 1, n - 1) # << >> \/ w[n] # Space)
    BY <2>1 DEF ValueWord
  <2>4. ~ (o + (n - 1) > ValueMax) /\ o + (n - 1) \in Nat /\ (o + (n - 1)) + 1 = o + n
    BY <2>1, Limits
  <2>5. Step(h, name, S(o + (n - 1), SubSeq(w, 1, n - 1)), w[n])
          = S((o + (n - 1)) + 1, Append(SubSeq(w, 1, n - 1), w[n]))
    <3> DEFINE p == o + (n - 1)
               u == SubSeq(w, 1, n - 1)
               c == w[n]
    <3>1. p \in Nat /\ ~ (p > ValueMax)
      BY <2>1, <2>4
    <3>2. c # "#" /\ c # "[" /\ c # "\n" /\ (u # << >> \/ c # Space)
      BY <2>3
    <3> HIDE DEF p, u, c
    <3>3. Step(h, name, State("value", p, m, k, u, data), c)
            = State("value", p + 1, m, k, Append(u, c), data)
      BY <3>1, <3>2, ValueChar
    <3>4. QED
      BY <3>3 DEF S, p, u, c
  <2>6. QED
    BY <2>1, <2>2, <2>4, <2>5, Zenon
<1>5. QED
  BY <1>2, <1>4, LeadsWord DEF S


-----------------------------------------------------------------------------
(* Lines.                                                                  *)

\* Between two lines: the section is the one looked for, or none.
Between(own, st, data) ==
  IF own THEN \E m, v : st = State("key", 0, m, << >>, v, data)
  ELSE \E n, m, k, v : st = State("none", n, m, k, v, data)

LEMMA CharsOf == "#" \in Chars /\ "[" \in Chars /\ "]" \in Chars /\ "\n" \in Chars /\ Space \in Chars
BY DEF Chars, Blank

LEMMA Pair ==
  ASSUME NEW S, NEW c \in S, NEW d \in S
  PROVE  <<c>> \in Seq(S) /\ <<d>> \in Seq(S) /\ <<c>> \o <<d>> = <<c, d>>
<1>1. <<c>> \in Seq(S) /\ <<d>> \in Seq(S)
  OBVIOUS
<1>2. <<c, d>> \in Seq(S) /\ <<c>> \o <<d>> \in Seq(S) /\ Len(<<c, d>>) = 2
  OBVIOUS
<1>3. Len(<<c>> \o <<d>>) = 2 /\ (<<c>> \o <<d>>)[1] = c /\ (<<c>> \o <<d>>)[2] = d
  OBVIOUS
<1>4. \A i \in 1 .. 2 : (<<c>> \o <<d>>)[i] = <<c, d>>[i]
  BY <1>3
<1>5. <<c>> \o <<d>> = <<c, d>>
  BY <1>2, <1>3, <1>4, SeqEqual
<1>6. QED
  BY <1>1, <1>5

LEMMA LeadsTwo ==
  ASSUME NEW h, NEW name, NEW a, NEW b, NEW e, NEW c \in Chars, NEW d \in Chars,
         Step(h, name, a, c) = b, Step(h, name, b, d) = e
  PROVE  Leads(h, name, <<c, d>>, a, e)
<1>1. Leads(h, name, <<c>>, a, b) /\ Leads(h, name, <<d>>, b, e)
  BY LeadsChar
<1>2. <<c>> \in Seq(Chars) /\ <<d>> \in Seq(Chars) /\ <<c>> \o <<d>> = <<c, d>>
  BY Pair
<1>3. Leads(h, name, <<c>> \o <<d>>, a, e)
  BY <1>1, <1>2, LeadsOn
<1>4. QED
  BY <1>2, <1>3

\* A text of three words, the first and the last of them one character.
LEMMA LeadsThree ==
  ASSUME NEW h, NEW name, NEW a, NEW b, NEW c, NEW d, NEW x \in Chars,
         NEW w \in Seq(Chars), NEW y \in Seq(Chars),
         Step(h, name, a, x) = b, Leads(h, name, w, b, c), Leads(h, name, y, c, d)
  PROVE  Leads(h, name, <<x>> \o w \o y, a, d)
<1>1. <<x>> \in Seq(Chars) /\ Leads(h, name, <<x>>, a, b)
  BY LeadsChar
<1>2. Leads(h, name, <<x>> \o w, a, c) /\ <<x>> \o w \in Seq(Chars)
  BY <1>1, LeadsOn, ConcatProperties
<1> DEFINE u == <<x>> \o w
<1> HIDE DEF u
<1>3. u \in Seq(Chars) /\ Leads(h, name, u, a, c)
  BY <1>2 DEF u
<1>4. Leads(h, name, u \o y, a, d)
  BY <1>3, LeadsOn
<1>5. QED
  BY <1>4 DEF u

LEMMA LineBlank ==
  ASSUME NEW h, NEW name, NEW own \in BOOLEAN, NEW st, NEW data, Between(own, st, data)
  PROVE  Leads(h, name, <<"\n">>, st, st)
<1>1. Step(h, name, st, "\n") = st
  <2>1. CASE own
    <3>1. PICK m, v : st = State("key", 0, m, << >>, v, data)
      BY <2>1 DEF Between
    <3>2. "\n" \in Blank
      BY DEF Blank
    <3>3. QED
      BY <3>1, <3>2, KeyBlank
  <2>2. CASE ~ own
    <3>1. PICK n, m, k, v : st = State("none", n, m, k, v, data)
      BY <2>2 DEF Between
    <3>2. "\n" \notin {"#", "["}
      OBVIOUS
    <3>3. QED
      BY <3>1, <3>2, StepNone
  <2>3. QED
    BY <2>1, <2>2
<1>2. QED
  BY <1>1, CharsOf, LeadsChar

LEMMA LineComment ==
  ASSUME NEW h, NEW name, NEW own \in BOOLEAN, NEW st, NEW data, Between(own, st, data),
         NEW w \in Seq(Chars), "\n" \notin Range(w)
  PROVE  Leads(h, name, <<"#">> \o w \o <<"\n">>, st, st)
<1>1. PICK in, n, m, k, v : st = State(in, n, m, k, v, data)
  BY DEF Between
<1> DEFINE c == Commented(in, n, m, k, v, data)
<1>2. Step(h, name, st, "#") = c /\ Step(h, name, c, "\n") = st
  BY <1>1, StepComment
<1>3. \A i \in 1 .. Len(w) : Step(h, name, c, w[i]) = c
  <2>1. SUFFICES ASSUME NEW i \in 1 .. Len(w) PROVE Step(h, name, c, w[i]) = c
    OBVIOUS
  <2>2. w[i] # "\n"
    BY NextPrefix
  <2>3. QED
    BY <2>2, StepComment
<1> HIDE DEF c
<1>4. Leads(h, name, w, c, c)
  BY <1>3, WordIdle
<1>5. Leads(h, name, <<"\n">>, c, st) /\ <<"\n">> \in Seq(Chars)
  BY <1>2, CharsOf, LeadsChar
<1>6. QED
  BY <1>2, <1>4, <1>5, CharsOf, LeadsThree


LEMMA LineHeader ==
  ASSUME NEW h, NEW name, NEW own \in BOOLEAN, NEW st, NEW data, Between(own, st, data),
         NEW w \in Seq(Chars), SectionWord(w), Len(w) <= ModuleMax
  PROVE  /\ \E e : /\ Leads(h, name, <<"[">> \o w \o <<"]", "\n">>, st, e)
                   /\ Between(IsPrefix(name, w), e, data)
         /\ \E e : Leads(h, name, <<"[">> \o w \o <<"\n">>, st, e) /\ ~ e.ok
<1>1. PICK in, n, m, k, v : st = State(in, n, m, k, v, data)
  BY DEF Between
<1> DEFINE b == State("module", 0, << >>, k, v, data)
           c == State("module", Len(w), w, k, v, data)
           d == IF IsPrefix(name, w) THEN State("key", 0, w, << >>, v, data)
                ELSE State("none", Len(w), w, k, v, data)
           f == Step(h, name, c, "\n")
<1>2. Step(h, name, st, "[") = b
  BY <1>1, ModuleOpens
<1>3. Leads(h, name, w, b, c)
  BY WordModule
<1>4. Step(h, name, c, "]") = d
  <2>1. Len(w) \in Nat /\ ~ (Len(w) > ModuleMax)
    BY Limits
  <2>2. QED
    BY <2>1, ModuleEnds
<1>5. Between(IsPrefix(name, w), d, data)
  <2>1. CASE IsPrefix(name, w)
    <3>1. d = State("key", 0, w, << >>, v, data)
      BY <2>1
    <3> HIDE DEF d
    <3>2. QED
      BY <2>1, <3>1 DEF Between
  <2>2. CASE ~ IsPrefix(name, w)
    <3>1. d = State("none", Len(w), w, k, v, data)
      BY <2>2
    <3> HIDE DEF d
    <3>2. QED
      BY <2>2, <3>1 DEF Between
  <2>3. QED
    BY <2>1, <2>2
<1>6. ~ f.ok
  BY ModuleBroken
<1> HIDE DEF b, c, d, f
<1>7. Leads(h, name, <<"[">> \o w \o <<"]", "\n">>, st, d)
  <2>1. IsPrefix(name, w) \in BOOLEAN
    BY DEF IsPrefix
  <2>2. Leads(h, name, <<"\n">>, d, d)
    BY <1>5, <2>1, LineBlank
  <2>3. Leads(h, name, <<"]">>, c, d)
    BY <1>4, CharsOf, LeadsChar
  <2>4. /\ <<"]">> \in Seq(Chars) /\ <<"\n">> \in Seq(Chars)
        /\ <<"]">> \o <<"\n">> = <<"]", "\n">>
    BY CharsOf, Pair
  <2>5. Leads(h, name, <<"]">> \o <<"\n">>, c, d) /\ <<"]">> \o <<"\n">> \in Seq(Chars)
    BY <2>2, <2>3, <2>4, LeadsOn, ConcatProperties
  <2> DEFINE y == <<"]", "\n">>
  <2> HIDE DEF y
  <2>6. Leads(h, name, y, c, d) /\ y \in Seq(Chars)
    BY <2>4, <2>5 DEF y
  <2>7. Leads(h, name, <<"[">> \o w \o y, st, d)
    BY <1>2, <1>3, <2>6, CharsOf, LeadsThree
  <2>8. QED
    BY <2>7 DEF y
<1>8. Leads(h, name, <<"[">> \o w \o <<"\n">>, st, f)
  <2>1. Leads(h, name, <<"\n">>, c, f) /\ <<"\n">> \in Seq(Chars)
    BY CharsOf, LeadsChar DEF f
  <2>2. QED
    BY <1>2, <1>3, <2>1, CharsOf, LeadsThree
<1>9. QED
  BY <1>5, <1>6, <1>7, <1>8

\* Outside of the section a line without "#" and "[" means nothing.
LEMMA LineIgnored ==
  ASSUME NEW h, NEW name, NEW st, NEW data, Between(FALSE, st, data),
         NEW w \in Seq(Chars), "#" \notin Range(w), "[" \notin Range(w)
  PROVE  Leads(h, name, w, st, st)
<1>1. PICK n, m, k, v : st = State("none", n, m, k, v, data)
  BY DEF Between
<1>2. ASSUME NEW i \in 1 .. Len(w) PROVE Step(h, name, st, w[i]) = st
  <2>1. w[i] \notin {"#", "["}
    BY NextPrefix
  <2>2. QED
    BY <1>1, <2>1, StepNone
<1>3. QED
  BY <1>2, WordIdle

LEMMA LineBare ==
  ASSUME NEW h, NEW name, NEW st, NEW data, Between(TRUE, st, data),
         NEW w \in Seq(Chars), KeyWord(w), w # << >>, Len(w) <= KeyMax
  PROVE  \E e : Leads(h, name, w \o <<"\n">>, st, e) /\ ~ e.ok
<1>1. PICK m, v : st = State("key", 0, m, << >>, v, data)
  BY DEF Between
<1> DEFINE c == State("key", Len(w), m, w, v, data)
           f == Step(h, name, c, "\n")
<1>2. Leads(h, name, w, st, c)
  BY <1>1, WordKey
<1>3. ~ f.ok
  BY KeyBroken
<1> HIDE DEF c, f
<1>4. Leads(h, name, <<"\n">>, c, f) /\ <<"\n">> \in Seq(Chars)
  BY CharsOf, LeadsChar DEF f
<1>5. Leads(h, name, w \o <<"\n">>, st, f)
  BY <1>2, <1>4, LeadsOn
<1>6. QED
  BY <1>3, <1>5

EntryText(w, x) == <<Space>> \o w \o <<Space, Space>> \o x \o <<"\n">>

LEMMA LineEntry ==
  ASSUME NEW h, NEW name, NEW st, NEW data, Between(TRUE, st, data),
         NEW w \in Seq(Chars), KeyWord(w), w # << >>, Len(w) <= KeyMax,
         NEW x \in Seq(Chars), ValueWord(x), Len(w) + Len(x) <= ValueMax
  PROVE  \E e : /\ Leads(h, name, EntryText(w, x), st, e)
                /\ IF Lookup(h, w) = NULL THEN ~ e.ok
                   ELSE Between(TRUE, e, Append(data, <<Lookup(h, w), x>>))
<1>1. PICK m, v : st = State("key", 0, m, << >>, v, data)
  BY DEF Between
<1>2. Len(w) \in Nat /\ Len(x) \in Nat /\ Len(w) + Len(x) \in Nat
      /\ ~ (Len(w) > KeyMax) /\ ~ (Len(w) + Len(x) > ValueMax) /\ x # << >>
  BY Limits DEF ValueWord
<1> DEFINE b == State("key", Len(w), m, w, v, data)
           c == State("value", Len(w), m, w, << >>, data)
           d == State("value", Len(w) + Len(x), m, w, x, data)
           e == Step(h, name, d, "\n")
<1>3. Step(h, name, st, Space) = st
  <2>1. Space \in Blank
    BY DEF Blank
  <2>2. QED
    BY <1>1, <2>1, KeyBlank
<1>4. Leads(h, name, w, st, b)
  BY <1>1, WordKey
<1>5. Step(h, name, b, Space) = c
  BY <1>2, KeyEnds
<1>6. Step(h, name, c, Space) = c
  <2>1. Space \in Blank
    BY DEF Blank
  <2>2. QED
    BY <2>1, ValueBlank
<1>7. Leads(h, name, x, c, d)
  BY <1>2, WordValue
<1>8. IF Lookup(h, w) = NULL THEN ~ e.ok
      ELSE Between(TRUE, e, Append(data, <<Lookup(h, w), x>>))
  <2>1. CASE Lookup(h, w) = NULL
    BY <1>2, <2>1, ValueUnknown
  <2>2. CASE Lookup(h, w) # NULL
    <3>1. e = State("key", 0, m, << >>, x, Append(data, <<Lookup(h, w), x>>))
      BY <1>2, <2>2, ValueApplied
    <3> HIDE DEF e
    <3>2. Between(TRUE, e, Append(data, <<Lookup(h, w), x>>))
      BY <3>1 DEF Between
    <3>3. QED
      BY <2>2, <3>2
  <2>3. QED
    BY <2>1, <2>2
<1> HIDE DEF b, c, d, e
<1>9. Leads(h, name, EntryText(w, x), st, e)
  <2> DEFINE y == <<Space, Space>>
             u == <<Space>> \o w \o y
             z == u \o x
  <2>1. Leads(h, name, y, b, c) /\ y \in Seq(Chars)
    BY <1>5, <1>6, CharsOf, LeadsTwo
  <2> HIDE DEF y
  <2>2. Leads(h, name, u, st, c)
    BY <1>3, <1>4, <2>1, CharsOf, LeadsThree
  <2>3. u \in Seq(Chars)
    <3>1. <<Space>> \in Seq(Chars)
      BY CharsOf, Pair
    <3>2. <<Space>> \o w \in Seq(Chars)
      BY <3>1, ConcatProperties
    <3> QED
      BY <2>1, <3>2, ConcatProperties
  <2> HIDE DEF u
  <2>4. Leads(h, name, z, st, d) /\ z \in Seq(Chars)
    BY <1>7, <2>2, <2>3, LeadsOn, ConcatProperties
  <2>5. Leads(h, name, <<"\n">>, d, e) /\ <<"\n">> \in Seq(Chars)
    BY CharsOf, LeadsChar DEF e
  <2> HIDE DEF z
  <2>6. Leads(h, name, z \o <<"\n">>, st, e)
    BY <2>4, <2>5, LeadsOn
  <2>7. QED
    BY <2>6 DEF EntryText, y, u, z
<1>10. QED
  BY <1>8, <1>9


-----------------------------------------------------------------------------
(* The hash.                                                               *)

\* The first n keys are in their chains, and no key of a chain is the beginning of
\* an earlier one.
Hashed(keys, num, f, n) ==
  /\ f \in [1 .. num -> Seq(Range(keys))]
  /\ \A b \in 1 .. num : \A i, j \in DOMAIN f[b] : i < j => ~ IsPrefix(f[b][j], f[b][i])
  /\ \A i \in 1 .. n : \E j \in DOMAIN f[Hash(keys[i], num) + 1] :
                          f[Hash(keys[i], num) + 1][j] = keys[i]

LEMMA AddKeeps ==
  ASSUME NEW S, NEW keys \in Seq(S), NEW num \in Nat, NEW n \in Nat, n + 1 <= Len(keys),
         \A i \in 1 .. Len(keys) : Hash(keys[i], num) \in 0 .. num - 1,
         NEW f, Hashed(keys, num, f, n)
  PROVE  Add(f, keys[n + 1]) = NULL \/ Hashed(keys, num, Add(f, keys[n + 1]), n + 1)
<1> DEFINE key == keys[n + 1]
           K == Range(keys)
           B(i) == Hash(keys[i], num) + 1
           b == B(n + 1)
           g == [f EXCEPT ![b] = Append(@, key)]
<1>1. n + 1 \in 1 .. Len(keys) /\ \A i \in 1 .. n : i \in 1 .. Len(keys)
  OBVIOUS
<1>2. key \in K
  BY <1>1 DEF Range
<1>3. \A i \in 1 .. Len(keys) : B(i) \in 1 .. num
  OBVIOUS
<1>4. b \in 1 .. num /\ f \in [1 .. num -> Seq(K)]
  BY <1>1, <1>3 DEF Hashed
<1>5. Len(f) = num
  BY <1>4
<1>6. Add(f, key) = NULL \/ (Add(f, key) = g /\ ~ Exists(f, b, key))
  BY <1>5, Zenon DEF Add
<1>7. SUFFICES ASSUME ~ Exists(f, b, key) PROVE Hashed(keys, num, g, n + 1)
  BY <1>6
<1>8. \A i, j \in DOMAIN f[b] : i < j => ~ IsPrefix(f[b][j], f[b][i])
  BY <1>4 DEF Hashed
<1>9. \A i \in DOMAIN f[b] : ~ IsPrefix(key, f[b][i])
  BY <1>7, Zenon DEF Exists
<1>10. \A i \in 1 .. n : \E j \in DOMAIN f[B(i)] : f[B(i)][j] = keys[i]
  BY DEF Hashed
<1>11. \A c \in 1 .. num : g[c] = IF c = b THEN Append(f[b], key) ELSE f[c]
  BY <1>4
<1>12. \A c \in 1 .. num : \A i, j \in DOMAIN f[c] : i < j => ~ IsPrefix(f[c][j], f[c][i])
  BY DEF Hashed
<1> HIDE DEF key, K, g, B, b
<1> DEFINE s == f[b]
<1>13. s \in Seq(K) /\ Append(s, key) \in Seq(K)
       /\ Len(s) \in Nat /\ DOMAIN s = 1 .. Len(s) /\ Len(Append(s, key)) = Len(s) + 1
       /\ DOMAIN Append(s, key) = 1 .. Len(s) + 1
       /\ Append(s, key)[Len(s) + 1] = key
       /\ \A i \in 1 .. Len(s) : Append(s, key)[i] = s[i]
  <2>1. s \in Seq(K)
    BY <1>4
  <2> HIDE DEF s
  <2>2. QED
    BY <1>2, <2>1, AppendProperties
<1> HIDE DEF s
<1>14. g \in [1 .. num -> Seq(K)]
  <2>1. g = [f EXCEPT ![b] = Append(s, key)]
    BY <1>4 DEF g, s
  <2>2. QED
    BY <1>4, <1>13, <2>1
<1>15. ASSUME NEW c \in 1 .. num, NEW i \in DOMAIN g[c], NEW j \in DOMAIN g[c], i < j
       PROVE  ~ IsPrefix(g[c][j], g[c][i])
  <2>1. CASE c # b
    <3>1. g[c] = f[c]
      BY <1>11, <2>1
    <3>2. QED
      BY <1>12, <1>15, <3>1
  <2>2. CASE c = b
    <3>1. g[c] = Append(s, key)
      BY <1>11, <2>2 DEF s
    <3>2. i \in 1 .. Len(s) + 1 /\ j \in 1 .. Len(s) + 1
      BY <1>13, <1>15, <3>1
    <3>3. i \in 1 .. Len(s) /\ g[c][i] = s[i]
      BY <1>13, <1>15, <3>1, <3>2
    <3>4. CASE j = Len(s) + 1
      <4>1. g[c][j] = key
        BY <1>13, <3>1, <3>4
      <4>2. ~ IsPrefix(key, s[i])
        BY <1>9, <1>13, <3>3 DEF s
      <4>3. QED
        BY <3>3, <4>1, <4>2
    <3>5. CASE j \in 1 .. Len(s)
      <4>1. g[c][j] = s[j]
        BY <1>13, <3>1, <3>5
      <4>2. ~ IsPrefix(s[j], s[i])
        BY <1>8, <1>13, <1>15, <3>3, <3>5 DEF s
      <4>3. QED
        BY <3>3, <4>1, <4>2
    <3>6. QED
      BY <1>13, <3>2, <3>4, <3>5
  <2>3. QED
    BY <2>1, <2>2
<1>16. ASSUME NEW i \in 1 .. n + 1 PROVE \E j \in DOMAIN g[B(i)] : g[B(i)][j] = keys[i]
  <2>0. B(i) \in 1 .. num
    BY <1>1, <1>3, <1>16
  <2>1. CASE i = n + 1
    <3>1. g[B(i)] = Append(s, key) /\ keys[i] = key
      BY <1>11, <2>0, <2>1 DEF s, b, key
    <3>2. Len(s) + 1 \in DOMAIN Append(s, key) /\ Append(s, key)[Len(s) + 1] = key
      BY <1>13
    <3>3. QED
      BY <3>1, <3>2
  <2>2. CASE i \in 1 .. n
    <3>1. PICK j \in DOMAIN f[B(i)] : f[B(i)][j] = keys[i]
      BY <1>10, <2>2
    <3>2. CASE B(i) # b
      <4>1. g[B(i)] = f[B(i)]
        BY <1>11, <2>0, <3>2
      <4>2. QED
        BY <3>1, <4>1
    <3>3. CASE B(i) = b
      <4>1. g[B(i)] = Append(s, key) /\ f[B(i)] = s
        BY <1>11, <2>0, <3>3 DEF s
      <4>2. j \in DOMAIN Append(s, key) /\ Append(s, key)[j] = keys[i]
        BY <1>13, <3>1, <4>1
      <4>3. QED
        BY <4>1, <4>2
    <3>4. QED
      BY <3>2, <3>3
  <2>3. QED
    BY <1>16, <2>1, <2>2
<1>17. QED
  BY <1>14, <1>15, <1>16, Zenon DEF Hashed, B, K


LEMMA RegisterHashes ==
  ASSUME NEW S, NEW keys \in Seq(S), NEW num \in Nat,
         \A i \in 1 .. Len(keys) : Hash(keys[i], num) \in 0 .. num - 1
  PROVE  Register(keys, num) = NULL \/ Hashed(keys, num, Register(keys, num), Len(keys))
<1> DEFINE L == Len(keys)
<1>1. L \in Nat
  OBVIOUS
<1>2. PICK h : /\ h = [i \in 0 .. Len(keys) |-> HashUpTo(keys, num, h, i)]
               /\ Register(keys, num) = h[Len(keys)]
  BY <1>1, RegisterIs
<1>3. \A i \in 0 .. L : h[i] = HashUpTo(keys, num, h, i)
  BY <1>2, Zenon
<1> HIDE DEF L
<1> DEFINE P == {n \in Nat : n <= L => h[n] = NULL \/ Hashed(keys, num, h[n], n)}
<1>4. 0 \in P
  <2> DEFINE f == [b \in 1 .. num |-> << >>]
  <2>1. h[0] = f
    <3>1. 0 \in 0 .. L
      BY <1>1
    <3>2. QED
      BY <1>3, <3>1, Zenon DEF HashUpTo
  <2>2. f \in [1 .. num -> Seq(Range(keys))]
    OBVIOUS
  <2>3. \A b \in 1 .. num : DOMAIN f[b] = {}
    OBVIOUS
  <2> HIDE DEF f
  <2>4. Hashed(keys, num, f, 0)
    BY <2>2, <2>3 DEF Hashed
  <2>5. QED
    BY <2>1, <2>4
<1>5. ASSUME NEW n \in Nat, n \in P PROVE n + 1 \in P
  <2>1. SUFFICES ASSUME n + 1 <= L
                 PROVE  h[n + 1] = NULL \/ Hashed(keys, num, h[n + 1], n + 1)
    OBVIOUS
  <2>2. n + 1 \in 0 .. L /\ n + 1 # 0 /\ (n + 1) - 1 = n /\ n <= L
    BY <1>1, <2>1
  <2>3. h[n + 1] = AddNext(h[n], keys[n + 1])
    BY <1>3, <2>2, Zenon DEF HashUpTo
  <2>4. CASE h[n] = NULL
    BY <2>3, <2>4, Zenon DEF AddNext
  <2>5. CASE h[n] # NULL
    <3>1. h[n + 1] = Add(h[n], keys[n + 1])
      BY <2>3, <2>5, Zenon DEF AddNext
    <3>2. Hashed(keys, num, h[n], n)
      BY <1>5, <2>2, <2>5
    <3>3. n + 1 <= Len(keys)
      BY <2>1 DEF L
    <3>4. Add(h[n], keys[n + 1]) = NULL \/ Hashed(keys, num, Add(h[n], keys[n + 1]), n + 1)
      BY <3>2, <3>3, AddKeeps
    <3>5. QED
      BY <3>1, <3>4
  <2>6. QED
    BY <2>4, <2>5
<1>6. L \in P
  <2> HIDE DEF P
  <2>1. QED
    BY <1>1, <1>4, <1>5, SetInduction
<1>7. h[L] = NULL \/ Hashed(keys, num, h[L], L)
  BY <1>1, <1>6
<1>8. QED
  BY <1>2, <1>7 DEF L

\* A key that is registered is found; what no registered key begins with is not.
LEMMA LookupIs ==
  ASSUME NEW keys \in Seq(Seq(STRING)), NEW num \in Nat, Register(keys, num) # NULL,
         \A i \in 1 .. Len(keys) : Hash(keys[i], num) \in 0 .. num - 1,
         NEW w, Hash(w, num) \in 0 .. num - 1
  PROVE  /\ w \in ToSet(keys) => Lookup(Register(keys, num), w) = w
         /\ (\A key \in ToSet(keys) : ~ IsPrefix(w, key)) => Lookup(Register(keys, num), w) = NULL
<1> DEFINE h == Register(keys, num)
           b == Hash(w, num) + 1
           s == h[b]
           hit == {j \in DOMAIN s : IsPrefix(w, s[j])}
<1>1. Hashed(keys, num, h, Len(keys))
  BY RegisterHashes
<1> HIDE DEF h
<1>2. b \in 1 .. num /\ h \in [1 .. num -> Seq(Range(keys))]
  BY <1>1 DEF Hashed
<1>3. Len(h) = num
  BY <1>2
<1>4. Lookup(h, w) = IF hit = {} THEN NULL ELSE s[Min(hit)]
  BY <1>3, Zenon DEF Lookup
<1>5. \A i, j \in DOMAIN s : i < j => ~ IsPrefix(s[j], s[i])
  BY <1>1, <1>2 DEF Hashed
<1>6. s \in Seq(Range(keys))
  BY <1>2
<1>7. Range(keys) = ToSet(keys)
  BY DEF Range, ToSet
<1>8. \A i \in 1 .. Len(keys) : \E j \in DOMAIN h[Hash(keys[i], num) + 1] :
         h[Hash(keys[i], num) + 1][j] = keys[i]
  BY <1>1 DEF Hashed
<1> HIDE DEF b, s
<1>9. ASSUME w \in ToSet(keys) PROVE Lookup(h, w) = w
  <2>1. PICK i \in 1 .. Len(keys) : keys[i] = w
    BY <1>9 DEF ToSet
  <2>2. PICK j \in DOMAIN s : s[j] = w
    BY <1>8, <2>1 DEF b, s
  <2>3. w \in Seq(STRING)
    BY <2>1
  <2>4. IsPrefix(w, w)
    <3>1. Len(w) <= Len(w)
      BY <2>3
    <3>2. QED
      BY <3>1 DEF IsPrefix
  <2>5. j \in hit
    BY <2>2, <2>4
  <2>6. hit \subseteq Nat /\ hit # {}
    BY <1>6, <2>5
  <2>7. Min(hit) \in hit /\ \A n \in hit : Min(hit) <= n
    <3> HIDE DEF hit
    <3>1. QED
      BY <2>6, MinOfSet
  <2>8. Min(hit) \in DOMAIN s /\ IsPrefix(w, s[Min(hit)])
    BY <2>7
  <2>9. Min(hit) \in Nat /\ j \in Nat /\ Min(hit) <= j
    BY <2>5, <2>6, <2>7
  <2> HIDE DEF hit
  <2>10. Min(hit) = j
    <3>1. SUFFICES ASSUME Min(hit) < j PROVE FALSE
      BY <2>9
    <3>2. ~ IsPrefix(s[j], s[Min(hit)])
      BY <1>5, <2>2, <2>8, <3>1
    <3>3. QED
      BY <2>2, <2>8, <3>2
  <2>11. hit # {}
    BY <2>5
  <2>12. QED
    BY <1>4, <2>2, <2>10, <2>11
<1>10. ASSUME \A key \in ToSet(keys) : ~ IsPrefix(w, key) PROVE Lookup(h, w) = NULL
  <2>1. \A j \in DOMAIN s : s[j] \in ToSet(keys)
    BY <1>6, <1>7
  <2>2. hit = {}
    BY <1>10, <2>1
  <2>3. QED
    BY <1>4, <2>2
<1>11. QED
  BY <1>9, <1>10 DEF h


-----------------------------------------------------------------------------
(* What each kind of line does.                                            *)

LEMMA MoreChars ==
  ASSUME NEW w \in Seq(STRING)
  PROVE  w \in Seq(Chars)
<1>1. STRING \subseteq Chars
  BY Zenon DEF Chars
<1> DEFINE S == STRING
<1> HIDE DEF S
<1>2. w \in Seq(S) /\ S \subseteq Chars
  BY <1>1 DEF S
<1>3. QED
  BY <1>2

LEMMA PrefixOfItself ==
  ASSUME NEW w \in Seq(STRING)
  PROVE  IsPrefix(w, w)
<1>1. Len(w) <= Len(w)
  OBVIOUS
<1>2. QED
  BY <1>1 DEF IsPrefix

LEMMA LineTextType ==
  ASSUME NEW l, NEW sections, NEW keyLists, WellWritten(l, sections, keyLists)
  PROVE  LineText(l) \in Seq(Chars)
<1> DEFINE w == l.name
           x == l.value
<1>1. w \in Seq(Chars) /\ x \in Seq(Chars)
  <2>1. l.name \in Seq(STRING) /\ l.value \in Seq(STRING)
    BY Zenon DEF WellWritten
  <2>2. QED
    BY <2>1, MoreChars
<1>2. l.kind \in {"blank", "comment", "header", "broken", "entry", "bare"}
  BY Zenon DEF WellWritten
<1> DEFINE k == l.kind
<1>3. LineText(l) =
        (CASE k = "blank"   -> <<"\n">>
           [] k = "comment" -> <<"#">> \o x \o <<"\n">>
           [] k = "header"  -> <<"[">> \o w \o <<"]", "\n">>
           [] k = "broken"  -> <<"[">> \o w \o <<"\n">>
           [] k = "entry"   -> EntryText(w, x)
           [] k = "bare"    -> w \o <<"\n">>)
  BY Zenon DEF LineText, EntryText
<1> HIDE DEF w, x, k
<1>4. /\ <<"\n">> \in Seq(Chars) /\ <<"#">> \in Seq(Chars) /\ <<"[">> \in Seq(Chars)
      /\ <<Space>> \in Seq(Chars)
  BY CharsOf, Pair
<1>5. <<"]", "\n">> \in Seq(Chars) /\ <<Space, Space>> \in Seq(Chars)
  BY CharsOf
<1>6. /\ <<"#">> \o x \o <<"\n">> \in Seq(Chars) /\ <<"[">> \o w \o <<"]", "\n">> \in Seq(Chars)
      /\ <<"[">> \o w \o <<"\n">> \in Seq(Chars) /\ w \o <<"\n">> \in Seq(Chars)
  BY <1>1, <1>4, <1>5, ConcatProperties
<1>7. EntryText(w, x) \in Seq(Chars)
  <2>1. <<Space>> \o w \in Seq(Chars)
    BY <1>1, <1>4, ConcatProperties
  <2>2. <<Space>> \o w \o <<Space, Space>> \in Seq(Chars)
    BY <1>5, <2>1, ConcatProperties
  <2>3. <<Space>> \o w \o <<Space, Space>> \o x \in Seq(Chars)
    BY <1>1, <2>2, ConcatProperties
  <2>4. <<Space>> \o w \o <<Space, Space>> \o x \o <<"\n">> \in Seq(Chars)
    BY <1>4, <2>3, ConcatProperties
  <2>5. QED
    BY <2>4 DEF EntryText
<1>8. QED
  BY <1>2, <1>3, <1>4, <1>6, <1>7 DEF k

LEMMA LineTextIs ==
  ASSUME NEW l
  PROVE  /\ l.kind = "blank"   => LineText(l) = <<"\n">>
         /\ l.kind = "comment" => LineText(l) = <<"#">> \o l.value \o <<"\n">>
         /\ l.kind = "header"  => LineText(l) = <<"[">> \o l.name \o <<"]", "\n">>
         /\ l.kind = "broken"  => LineText(l) = <<"[">> \o l.name \o <<"\n">>
         /\ l.kind = "entry"   => LineText(l) = EntryText(l.name, l.value)
         /\ l.kind = "bare"    => LineText(l) = l.name \o <<"\n">>
BY DEF LineText, EntryText


\* What a line does to the state between two lines.
Effect(keys, name, l, own, st, data, e) ==
  /\ l.kind \in {"blank", "comment"} => e = st
  /\ l.kind = "header" => Between(l.name = name, e, data)
  /\ l.kind = "broken" => ~ e.ok
  /\ l.kind = "bare"   => IF own THEN ~ e.ok ELSE e = st
  /\ l.kind = "entry"  =>
       IF ~ own THEN e = st
       ELSE IF l.name \in ToSet(keys) THEN Between(TRUE, e, Append(data, <<l.name, l.value>>))
       ELSE ~ e.ok

LEMMA IgnoredLine ==
  ASSUME NEW h, NEW name, NEW l, NEW sections, NEW keyLists, NEW st, NEW data,
         WellWritten(l, sections, keyLists), l.kind \in {"entry", "bare"},
         Between(FALSE, st, data)
  PROVE  Leads(h, name, LineText(l), st, st)
<1> DEFINE w == l.name
           x == l.value
<1>1. w \in Seq(Chars) /\ x \in Seq(Chars)
  <2>1. l.name \in Seq(STRING) /\ l.value \in Seq(STRING)
    BY Zenon DEF WellWritten
  <2>2. QED
    BY <2>1, MoreChars
<1>2. Range(w) \cap {"#", "[", "\n", Space} = {}
  BY DEF WellWritten
<1>3. l.kind = "entry" => Range(x) \cap {"#", "[", "\n"} = {}
  BY DEF WellWritten
<1>4. LineText(l) \in Seq(Chars)
  BY LineTextType
<1>5. LineText(l) = EntryText(w, x) \/ LineText(l) = w \o <<"\n">>
  BY LineTextIs
<1>6. l.kind = "entry" => LineText(l) = EntryText(w, x)
  BY LineTextIs
<1>7. l.kind = "bare" => LineText(l) = w \o <<"\n">>
  BY LineTextIs
<1>8. Leads(h, name, w, st, st)
  <2>1. "#" \notin Range(w) /\ "[" \notin Range(w)
    BY <1>2
  <2> HIDE DEF w
  <2>2. QED
    BY <1>1, <2>1, LineIgnored
<1>9. Leads(h, name, <<"\n">>, st, st)
  BY LineBlank
<1>10. <<"\n">> \in Seq(Chars)
  BY CharsOf, Pair
<1>11. CASE l.kind = "bare"
  <2> HIDE DEF w
  <2>1. Leads(h, name, w \o <<"\n">>, st, st)
    BY <1>1, <1>8, <1>9, <1>10, LeadsOn
  <2>2. QED
    BY <1>7, <1>11, <2>1
<1>12. CASE l.kind = "entry"
  <2>1. "#" \notin Range(x) /\ "[" \notin Range(x)
    BY <1>3, <1>12
  <2> HIDE DEF w, x
  <2>2. Leads(h, name, x, st, st)
    BY <1>1, <2>1, LineIgnored
  <2>3. PICK n, m, k, v : st = State("none", n, m, k, v, data)
    BY DEF Between
  <2>4. Step(h, name, st, Space) = st
    <3>1. Space \notin {"#", "["}
      BY SpaceIsItself
    <3>2. QED
      BY <2>3, <3>1, StepNone
  <2> DEFINE y == <<Space, Space>>
             u == <<Space>> \o w \o y
             z == u \o x
  <2>5. Leads(h, name, y, st, st) /\ y \in Seq(Chars)
    BY <2>4, CharsOf, LeadsTwo
  <2> HIDE DEF y
  <2>6. Leads(h, name, u, st, st)
    BY <1>1, <1>8, <2>4, <2>5, CharsOf, LeadsThree
  <2>7. u \in Seq(Chars)
    <3>1. <<Space>> \in Seq(Chars)
      BY CharsOf, Pair
    <3>2. <<Space>> \o w \in Seq(Chars)
      BY <1>1, <3>1, ConcatProperties
    <3> QED
      BY <2>5, <3>2, ConcatProperties
  <2> HIDE DEF u
  <2>8. Leads(h, name, z, st, st) /\ z \in Seq(Chars)
    BY <1>1, <2>2, <2>6, <2>7, LeadsOn, ConcatProperties
  <2> HIDE DEF z
  <2>9. Leads(h, name, z \o <<"\n">>, st, st)
    BY <1>9, <1>10, <2>8, LeadsOn
  <2>10. z \o <<"\n">> = EntryText(w, x)
    BY DEF EntryText, y, u, z
  <2>11. QED
    BY <1>6, <1>12, <2>9, <2>10
<1>13. QED
  BY <1>11, <1>12

LEMMA LineLeads ==
  ASSUME NEW keys \in Seq(Seq(STRING)), NEW num \in Nat, Register(keys, num) # NULL,
         NULL \notin ToSet(keys),
         \A i \in 1 .. Len(keys) : Hash(keys[i], num) \in 0 .. num - 1,
         NEW sections, NEW name \in sections, NEW keyLists, keys \in keyLists,
         NEW l, WellWritten(l, sections, keyLists), Hash(l.name, num) \in 0 .. num - 1,
         NEW own \in BOOLEAN, NEW st, NEW data, Between(own, st, data)
  PROVE  \E e : /\ Leads(Register(keys, num), name, LineText(l), st, e)
                /\ Effect(keys, name, l, own, st, data, e)
<1> DEFINE h == Register(keys, num)
           w == l.name
           x == l.value
<1> HIDE DEF h
<1>0. l.kind \in {"blank", "comment", "header", "broken", "entry", "bare"}
  BY Zenon DEF WellWritten
<1>1. w \in Seq(Chars) /\ x \in Seq(Chars) /\ w \in Seq(STRING)
  <2>1. l.name \in Seq(STRING) /\ l.value \in Seq(STRING)
    BY Zenon DEF WellWritten
  <2>2. QED
    BY <2>1, MoreChars
<1>2. CASE l.kind = "blank"
  <2>1. LineText(l) = <<"\n">>
    BY <1>2, LineTextIs
  <2>2. Leads(h, name, <<"\n">>, st, st)
    BY LineBlank
  <2>3. Effect(keys, name, l, own, st, data, st)
    BY <1>2 DEF Effect
  <2>4. QED
    BY <2>1, <2>2, <2>3 DEF h
<1>3. CASE l.kind = "comment"
  <2>1. LineText(l) = <<"#">> \o x \o <<"\n">>
    BY <1>3, LineTextIs
  <2>2. "\n" \notin Range(x)
    BY <1>3, Zenon DEF WellWritten
  <2>3. Effect(keys, name, l, own, st, data, st)
    BY <1>3 DEF Effect
  <2> HIDE DEF x
  <2>4. Leads(h, name, <<"#">> \o x \o <<"\n">>, st, st)
    BY <1>1, <2>2, LineComment
  <2>5. QED
    BY <2>1, <2>3, <2>4 DEF h
<1>4. CASE l.kind \in {"header", "broken"}
  <2>1. SectionWord(w) /\ Len(w) <= ModuleMax
    BY <1>4 DEF WellWritten, SectionWord
  <2>2. l.kind = "header" => LineText(l) = <<"[">> \o w \o <<"]", "\n">>
    BY LineTextIs
  <2>3. l.kind = "broken" => LineText(l) = <<"[">> \o w \o <<"\n">>
    BY LineTextIs
  <2>4. CASE l.kind = "header"
    <3>1. IsPrefix(name, w) => w = name
      BY <2>4, Zenon DEF WellWritten
    <3>2. w = name => IsPrefix(name, w)
      BY <1>1, PrefixOfItself
    <3>3. IsPrefix(name, w) = (w = name)
      BY <3>1, <3>2 DEF IsPrefix
    <3>4. PICK e : /\ Leads(h, name, <<"[">> \o w \o <<"]", "\n">>, st, e)
                   /\ Between(IsPrefix(name, w), e, data)
      <4> HIDE DEF w
      <4>1. QED
        BY <1>1, <2>1, LineHeader
    <3>5. Effect(keys, name, l, own, st, data, e)
      BY <2>4, <3>3, <3>4 DEF Effect
    <3>6. QED
      BY <2>2, <2>4, <3>4, <3>5 DEF h
  <2>5. CASE l.kind = "broken"
    <3>1. PICK e : Leads(h, name, <<"[">> \o w \o <<"\n">>, st, e) /\ ~ e.ok
      <4> HIDE DEF w
      <4>1. QED
        BY <1>1, <2>1, LineHeader
    <3>2. Effect(keys, name, l, own, st, data, e)
      BY <2>5, <3>1 DEF Effect
    <3>3. QED
      BY <2>3, <2>5, <3>1, <3>2 DEF h
  <2>6. QED
    BY <1>4, <2>4, <2>5
<1>5. CASE l.kind \in {"entry", "bare"} /\ ~ own
  <2>1. Leads(h, name, LineText(l), st, st)
    BY <1>5, IgnoredLine
  <2>2. Effect(keys, name, l, own, st, data, st)
    BY <1>5 DEF Effect
  <2>3. QED
    BY <2>1, <2>2 DEF h
<1>6. CASE l.kind = "bare" /\ own
  <2>1. KeyWord(w) /\ Len(w) <= KeyMax /\ w # << >>
    BY <1>6 DEF WellWritten, KeyWord
  <2>2. LineText(l) = w \o <<"\n">>
    BY <1>6, LineTextIs
  <2>3. PICK e : Leads(h, name, w \o <<"\n">>, st, e) /\ ~ e.ok
    <3> HIDE DEF w
    <3>1. Between(TRUE, st, data)
      BY <1>6
    <3>2. QED
      BY <1>1, <2>1, <3>1, LineBare
  <2>4. Effect(keys, name, l, own, st, data, e)
    BY <1>6, <2>3 DEF Effect
  <2>5. QED
    BY <2>2, <2>3, <2>4 DEF h
<1>7. CASE l.kind = "entry" /\ own
  <2>1. KeyWord(w) /\ Len(w) <= KeyMax /\ w # << >>
    BY <1>7 DEF WellWritten, KeyWord
  <2>2. ValueWord(x) /\ Len(w) + Len(x) <= ValueMax
    BY <1>7 DEF WellWritten, ValueWord
  <2>3. LineText(l) = EntryText(w, x)
    BY <1>7, LineTextIs
  <2>4. PICK e : /\ Leads(h, name, EntryText(w, x), st, e)
                 /\ IF Lookup(h, w) = NULL THEN ~ e.ok
                    ELSE Between(TRUE, e, Append(data, <<Lookup(h, w), x>>))
    <3>1. Between(TRUE, st, data)
      BY <1>7
    <3> HIDE DEF w, x
    <3>2. QED
      BY <1>1, <2>1, <2>2, <3>1, LineEntry
  <2>5. w \in ToSet(keys) => Lookup(h, w) = w /\ Lookup(h, w) # NULL
    <3> HIDE DEF w
    <3>1. w \in ToSet(keys) => Lookup(h, w) = w
      BY LookupIs DEF h, w
    <3>2. QED
      BY <3>1
  <2>6. w \notin ToSet(keys) => Lookup(h, w) = NULL
    <3>1. w \in ToSet(keys) \/ \A key \in ToSet(keys) : ~ IsPrefix(w, key)
      BY <1>7, Zenon DEF WellWritten
    <3>2. (\A key \in ToSet(keys) : ~ IsPrefix(w, key)) => Lookup(h, w) = NULL
      BY LookupIs DEF h
    <3>3. QED
      BY <3>1, <3>2
  <2>7. Effect(keys, name, l, own, st, data, e)
    BY <1>7, <2>4, <2>5, <2>6 DEF Effect
  <2>8. QED
    BY <2>3, <2>4, <2>7 DEF h
<1>8. QED
  BY <1>0, <1>2, <1>3, <1>4, <1>5, <1>6, <1>7


-----------------------------------------------------------------------------
(* Files: the parser and Meaning, line by line.                            *)

Heads(lines, j) == {i \in 1 .. j : lines[i].kind = "header"}
Own(lines, name, j) ==
  Heads(lines, j) # {} /\ lines[Max(Heads(lines, j))].name = name

\* A line that makes the file an error.
Wrong(lines, name, keys, j) ==
  \/ lines[j].kind = "broken"
  \/ /\ j \in Section(lines, name)
     /\ \/ lines[j].kind = "bare"
        \/ lines[j].kind = "entry" /\ lines[j].name \notin ToSet(keys)

\* The entries of a key among the first j lines, and those the parser has stored.
SetsUpTo(lines, name, key, j) ==
  {i \in Section(lines, name) : i <= j /\ lines[i].kind = "entry" /\ lines[i].name = key}
Mine(data, key) == {i \in DOMAIN data : data[i][1] = key}

Agrees(lines, name, data, key, j) ==
  IF SetsUpTo(lines, name, key, j) = {} THEN Mine(data, key) = {}
  ELSE /\ Mine(data, key) # {}
       /\ data[Max(Mine(data, key))][2] = lines[Max(SetsUpTo(lines, name, key, j))].value

Pairs(lines, keys) == ToSet(keys) \X {l.value : l \in Range(lines)}

\* Behind j lines: it has failed, or it has stored what they say.
Followed(lines, name, keys, st, j) ==
  IF \E i \in 1 .. j : Wrong(lines, name, keys, i) THEN ~ st.ok
  ELSE \E data \in Seq(Pairs(lines, keys)) :
         /\ Between(Own(lines, name, j), st, data)
         /\ \A key \in ToSet(keys) : Agrees(lines, name, data, key, j)

LEMMA SectionIs ==
  ASSUME NEW S, NEW lines \in Seq(S), NEW name, NEW j \in 1 .. Len(lines)
  PROVE  j \in Section(lines, name) <=> Own(lines, name, j) /\ lines[j].kind # "header"
<1>1. j \in DOMAIN lines /\ j \in 1 .. j
  OBVIOUS
<1>2. j \in Heads(lines, j) <=> lines[j].kind = "header"
  BY <1>1 DEF Heads
<1>3. j \in Section(lines, name) <=> Own(lines, name, j) /\ j \notin Heads(lines, j)
  BY <1>1, Zenon DEF Section, Own, Heads
<1>4. QED
  BY <1>2, <1>3

LEMMA OwnNext ==
  ASSUME NEW lines, NEW name, NEW n \in Nat
  PROVE  Own(lines, name, n + 1) <=> IF lines[n + 1].kind = "header" THEN lines[n + 1].name = name
                                     ELSE Own(lines, name, n)
<1>1. CASE lines[n + 1].kind = "header"
  <2> DEFINE T == Heads(lines, n + 1)
  <2>1. T \subseteq 0 .. n + 1 /\ n + 1 \in T /\ T # {} /\ n + 1 \in Nat
    BY <1>1 DEF Heads
  <2> HIDE DEF T
  <2>2. Max(T) = n + 1
    BY <2>1, LastOfSet
  <2>3. QED
    BY <1>1, <2>1, <2>2 DEF Own, T
<1>2. CASE lines[n + 1].kind # "header"
  <2>1. Heads(lines, n + 1) = Heads(lines, n)
    BY <1>2 DEF Heads
  <2>2. QED
    BY <1>2, <2>1 DEF Own
<1>3. QED
  BY <1>1, <1>2

LEMMA SetsNext ==
  ASSUME NEW S, NEW lines \in Seq(S), NEW name, NEW key, NEW n \in Nat
  PROVE  ~ (n + 1 \in Section(lines, name) /\ lines[n + 1].kind = "entry" /\ lines[n + 1].name = key) =>
           SetsUpTo(lines, name, key, n + 1) = SetsUpTo(lines, name, key, n)
<1>1. \A i \in Section(lines, name) : i \in Nat
  BY DEF Section
<1>2. \A i \in Section(lines, name) : i <= n + 1 <=> i <= n \/ i = n + 1
  BY <1>1
<1>3. QED
  BY <1>2 DEF SetsUpTo

LEMMA AgreesStays ==
  ASSUME NEW S, NEW lines \in Seq(S), NEW name, NEW key, NEW n \in Nat, NEW data,
         Agrees(lines, name, data, key, n),
         ~ (n + 1 \in Section(lines, name) /\ lines[n + 1].kind = "entry" /\ lines[n + 1].name = key)
  PROVE  Agrees(lines, name, data, key, n + 1)
<1>1. SetsUpTo(lines, name, key, n + 1) = SetsUpTo(lines, name, key, n)
  BY SetsNext
<1>2. QED
  BY <1>1, Zenon DEF Agrees

LEMMA AgreesAppend ==
  ASSUME NEW S, NEW lines \in Seq(S), NEW name, NEW key, NEW n \in Nat,
         NEW X, NEW data \in Seq(X), NEW v, <<lines[n + 1].name, v>> \in X,
         Agrees(lines, name, data, key, n), v = lines[n + 1].value,
         n + 1 \in Section(lines, name), lines[n + 1].kind = "entry"
  PROVE  Agrees(lines, name, Append(data, <<lines[n + 1].name, v>>), key, n + 1)
<1> DEFINE d == <<lines[n + 1].name, v>>
           more == Append(data, d)
           L == Len(data)
           M == Mine(more, key)
           T == SetsUpTo(lines, name, key, n + 1)
<1>1. d[1] = lines[n + 1].name /\ d[2] = v /\ d \in X
  OBVIOUS
<1> HIDE DEF d
<1>2. /\ L \in Nat /\ DOMAIN data = 1 .. L /\ DOMAIN more = 1 .. L + 1 /\ more[L + 1] = d
      /\ \A i \in 1 .. L : more[i] = data[i]
  <2>1. /\ L \in Nat /\ DOMAIN data = 1 .. L /\ DOMAIN more = 1 .. L + 1 /\ more[L + 1] = d
    BY <1>1, AppendProperties
  <2>2. \A i \in 1 .. L : more[i] = data[i]
    BY <1>1, AppendProperties
  <2>3. QED
    BY <2>1, <2>2
<1> HIDE DEF more, L
<1>3. CASE lines[n + 1].name = key
  <2>1. M \subseteq 0 .. L + 1 /\ L + 1 \in M /\ L + 1 \in Nat
    BY <1>1, <1>2, <1>3 DEF Mine
  <2>2. n + 1 \in T /\ T \subseteq 0 .. n + 1 /\ n + 1 \in Nat
    <3>1. \A i \in Section(lines, name) : i \in Nat
      BY DEF Section
    <3>2. QED
      BY <1>3, <3>1 DEF SetsUpTo
  <2> HIDE DEF M, T
  <2>3. Max(M) = L + 1
    BY <2>1, LastOfSet
  <2>4. Max(T) = n + 1
    BY <2>2, LastOfSet
  <2>5. T # {} /\ M # {} /\ more[Max(M)][2] = lines[Max(T)].value
    BY <1>1, <1>2, <2>1, <2>2, <2>3, <2>4
  <2>6. QED
    BY <2>5, Zenon DEF Agrees, M, T, more, d
<1>4. CASE lines[n + 1].name # key
  <2>1. T = SetsUpTo(lines, name, key, n)
    BY <1>4, SetsNext
  <2>2. M = Mine(data, key)
    BY <1>1, <1>2, <1>4 DEF Mine
  <2>3. M \subseteq 1 .. L
    BY <1>2, <2>2 DEF Mine
  <2> HIDE DEF M, T
  <2>4. M # {} => more[Max(M)] = data[Max(M)]
    <3>1. SUFFICES ASSUME M # {} PROVE more[Max(M)] = data[Max(M)]
      OBVIOUS
    <3>2. M \subseteq 0 .. L
      BY <1>2, <2>3
    <3>3. Max(M) \in M
      BY <1>2, <3>1, <3>2, MaxOfSet
    <3>4. QED
      BY <1>2, <2>3, <3>3
  <2>5. Agrees(lines, name, more, key, n + 1)
    BY <2>1, <2>2, <2>4, Zenon DEF Agrees, M, T
  <2>6. QED
    BY <2>5 DEF more, d
<1>5. QED
  BY <1>3, <1>4

\* A parser that has failed stays as it is.
LEMMA StaysFailed ==
  ASSUME NEW h, NEW name, NEW w \in Seq(Chars), NEW st, ~ st.ok
  PROVE  Leads(h, name, w, st, st)
<1>1. \A n \in 1 .. Len(w) : Step(h, name, st, w[n]) = st
  BY StepFailed
<1>2. QED
  BY <1>1, WordIdle

LEMMA FailedNext ==
  ASSUME NEW lines, NEW name, NEW keys, NEW n \in Nat, NEW i \in 1 .. n + 1,
         Wrong(lines, name, keys, i), NEW e, ~ e.ok
  PROVE  Followed(lines, name, keys, e, n + 1)
BY Zenon DEF Followed

LEMMA StoredNext ==
  ASSUME NEW lines, NEW name, NEW keys, NEW n \in Nat,
         \A i \in 1 .. n : ~ Wrong(lines, name, keys, i), ~ Wrong(lines, name, keys, n + 1),
         NEW e, NEW data \in Seq(Pairs(lines, keys)), Between(Own(lines, name, n + 1), e, data),
         \A key \in ToSet(keys) : Agrees(lines, name, data, key, n + 1)
  PROVE  Followed(lines, name, keys, e, n + 1)
<1>1. \A i \in 1 .. n + 1 : i \in 1 .. n \/ i = n + 1
  OBVIOUS
<1>2. \A i \in 1 .. n + 1 : ~ Wrong(lines, name, keys, i)
  BY <1>1, Zenon
<1>3. QED
  BY <1>2, Zenon DEF Followed

LEMMA WrongIs ==
  ASSUME NEW lines, NEW name, NEW keys, NEW j
  PROVE  Wrong(lines, name, keys, j) <=>
           \/ lines[j].kind = "broken"
           \/ /\ j \in Section(lines, name)
              /\ \/ lines[j].kind = "bare"
                 \/ lines[j].kind = "entry" /\ lines[j].name \notin ToSet(keys)
BY Zenon DEF Wrong

\* The next line, from a parser that has stored what the first n say.
LEMMA LineFollowed ==
  ASSUME NEW S, NEW lines \in Seq(S), NEW name, NEW keys, NEW n \in Nat, n + 1 \in 1 .. Len(lines),
         NEW st, NEW e, NEW data \in Seq(Pairs(lines, keys)),
         lines[n + 1].kind \in {"blank", "comment", "header", "broken", "entry", "bare"},
         \A i \in 1 .. n : ~ Wrong(lines, name, keys, i),
         Between(Own(lines, name, n), st, data),
         \A key \in ToSet(keys) : Agrees(lines, name, data, key, n),
         Effect(keys, name, lines[n + 1], Own(lines, name, n), st, data, e)
  PROVE  Followed(lines, name, keys, e, n + 1)
<1> DEFINE l == lines[n + 1]
           own == Own(lines, name, n)
           here == n + 1 \in Section(lines, name)
<1>1. here <=> own /\ l.kind # "header"
  <2>1. here <=> Own(lines, name, n + 1) /\ l.kind # "header"
    BY SectionIs
  <2>2. l.kind # "header" => (Own(lines, name, n + 1) <=> own)
    BY OwnNext
  <2>3. QED
    BY <2>1, <2>2
<1>2. Wrong(lines, name, keys, n + 1) <=>
        \/ l.kind = "broken"
        \/ here /\ (l.kind = "bare" \/ (l.kind = "entry" /\ l.name \notin ToSet(keys)))
  BY WrongIs
<1>3. CASE \/ l.kind \in {"blank", "comment", "header"}
           \/ ~ own /\ l.kind \in {"bare", "entry"}
  <2>1. ~ Wrong(lines, name, keys, n + 1)
    BY <1>1, <1>2, <1>3
  <2>2. \A key \in ToSet(keys) : Agrees(lines, name, data, key, n + 1)
    <3>1. SUFFICES ASSUME NEW key \in ToSet(keys)
                   PROVE  Agrees(lines, name, data, key, n + 1)
      OBVIOUS
    <3>2. ~ (n + 1 \in Section(lines, name) /\ lines[n + 1].kind = "entry" /\ lines[n + 1].name = key)
      BY <1>1, <1>3
    <3>3. QED
      BY <3>2, AgreesStays
  <2>3. Between(Own(lines, name, n + 1), e, data)
    <3>1. CASE l.kind = "header"
      <4>1. Between(l.name = name, e, data)
        BY <3>1, Zenon DEF Effect
      <4>2. Own(lines, name, n + 1) <=> l.name = name
        BY <3>1, OwnNext
      <4>3. QED
        BY <4>1, <4>2 DEF Between, Own
    <3>2. CASE l.kind # "header"
      <4>1. e = st
        BY <1>3, <3>2 DEF Effect
      <4>2. Own(lines, name, n + 1) <=> own
        BY <3>2, OwnNext
      <4>3. QED
        BY <4>1, <4>2 DEF Between, Own
    <3>3. QED
      BY <3>1, <3>2
  <2>4. QED
    BY <2>1, <2>2, <2>3, StoredNext
<1>4. CASE \/ l.kind = "broken"
           \/ own /\ l.kind = "bare"
           \/ own /\ l.kind = "entry" /\ l.name \notin ToSet(keys)
  <2>1. Wrong(lines, name, keys, n + 1)
    BY <1>1, <1>2, <1>4
  <2>2. ~ e.ok
    BY <1>4 DEF Effect
  <2>3. n + 1 \in 1 .. n + 1
    OBVIOUS
  <2>4. QED
    BY <2>1, <2>2, <2>3, FailedNext
<1>5. CASE own /\ l.kind = "entry" /\ l.name \in ToSet(keys)
  <2> DEFINE more == Append(data, <<l.name, l.value>>)
  <2>1. ~ Wrong(lines, name, keys, n + 1)
    BY <1>2, <1>5
  <2>2. <<l.name, l.value>> \in Pairs(lines, keys)
    <3>1. l \in Range(lines)
      BY DEF Range
    <3>2. QED
      BY <1>5, <3>1 DEF Pairs
  <2>3. more \in Seq(Pairs(lines, keys))
    BY <2>2, AppendProperties
  <2>4. Between(Own(lines, name, n + 1), e, more)
    <3>1. Between(TRUE, e, more)
      BY <1>5, Zenon DEF Effect
    <3>2. Own(lines, name, n + 1)
      BY <1>5, OwnNext
    <3>3. QED
      BY <3>1, <3>2 DEF Between
  <2>5. \A key \in ToSet(keys) : Agrees(lines, name, more, key, n + 1)
    BY <1>1, <1>5, <2>2, AgreesAppend
  <2> HIDE DEF more
  <2>6. QED
    BY <2>1, <2>3, <2>4, <2>5, StoredNext
<1>6. QED
  BY <1>3, <1>4, <1>5

LEMMA FollowedNext ==
  ASSUME NEW keys \in Seq(Seq(STRING)), NEW num \in Nat, Register(keys, num) # NULL,
         NULL \notin ToSet(keys),
         \A i \in 1 .. Len(keys) : Hash(keys[i], num) \in 0 .. num - 1,
         NEW sections, NEW name \in sections, NEW keyLists, keys \in keyLists,
         NEW S, NEW lines \in Seq(S), NEW n \in Nat, n + 1 \in 1 .. Len(lines),
         WellWritten(lines[n + 1], sections, keyLists),
         Hash(lines[n + 1].name, num) \in 0 .. num - 1,
         NEW st, Followed(lines, name, keys, st, n)
  PROVE  \E e : /\ Leads(Register(keys, num), name, LineText(lines[n + 1]), st, e)
                /\ Followed(lines, name, keys, e, n + 1)
<1>1. CASE \E i \in 1 .. n : Wrong(lines, name, keys, i)
  <2>1. PICK i \in 1 .. n : Wrong(lines, name, keys, i)
    BY <1>1
  <2>2. ~ st.ok
    BY <1>1, Zenon DEF Followed
  <2>3. LineText(lines[n + 1]) \in Seq(Chars)
    BY LineTextType
  <2>4. Leads(Register(keys, num), name, LineText(lines[n + 1]), st, st)
    BY <2>2, <2>3, StaysFailed
  <2>5. i \in 1 .. n + 1
    OBVIOUS
  <2>6. QED
    BY <2>1, <2>2, <2>4, <2>5, FailedNext
<1>2. CASE ~ (\E i \in 1 .. n : Wrong(lines, name, keys, i))
  <2>1. PICK data \in Seq(Pairs(lines, keys)) :
          /\ Between(Own(lines, name, n), st, data)
          /\ \A key \in ToSet(keys) : Agrees(lines, name, data, key, n)
    BY <1>2, Zenon DEF Followed
  <2>2. Own(lines, name, n) \in BOOLEAN
    BY DEF Own
  <2>3. PICK e : /\ Leads(Register(keys, num), name, LineText(lines[n + 1]), st, e)
                 /\ Effect(keys, name, lines[n + 1], Own(lines, name, n), st, data, e)
    BY <2>1, <2>2, LineLeads
  <2>4. lines[n + 1].kind \in {"blank", "comment", "header", "broken", "entry", "bare"}
    BY Zenon DEF WellWritten
  <2>5. Followed(lines, name, keys, e, n + 1)
    BY <1>2, <2>1, <2>3, <2>4, LineFollowed
  <2>6. QED
    BY <2>3, <2>5
<1>3. QED
  BY <1>1, <1>2

LEMMA BeforeFirstLine ==
  ASSUME NEW S, NEW lines \in Seq(S), NEW name, NEW keys
  PROVE  Followed(lines, name, keys, Start, 0)
<1> DEFINE data == << >>
<1>1. data \in Seq(Pairs(lines, keys)) /\ DOMAIN data = {}
  OBVIOUS
<1>2. Start = State("none", 0, << >>, << >>, << >>, data)
  BY DEF Start, State
<1>3. Heads(lines, 0) = {}
  BY DEF Heads
<1>4. ~ Own(lines, name, 0)
  BY <1>3 DEF Own
<1> HIDE DEF data
<1>5. Between(Own(lines, name, 0), Start, data)
  BY <1>2, <1>4 DEF Between
<1>6. \A key \in ToSet(keys) : Agrees(lines, name, data, key, 0)
  <2>1. SUFFICES ASSUME NEW key \in ToSet(keys)
                 PROVE  Agrees(lines, name, data, key, 0)
    OBVIOUS
  <2>2. SetsUpTo(lines, name, key, 0) = {}
    <3>1. \A i \in Section(lines, name) : i \in 1 .. Len(lines)
      BY DEF Section
    <3>2. \A i \in Section(lines, name) : ~ (i <= 0)
      BY <3>1
    <3>3. QED
      BY <3>2 DEF SetsUpTo
  <2>3. Mine(data, key) = {}
    BY <1>1 DEF Mine
  <2>4. QED
    BY <2>2, <2>3, Zenon DEF Agrees
<1>7. ~ (\E i \in 1 .. 0 : Wrong(lines, name, keys, i))
  OBVIOUS
<1>8. QED
  BY <1>1, <1>5, <1>6, <1>7, Zenon DEF Followed

LEMMA FileFollowed ==
  ASSUME NEW keys \in Seq(Seq(STRING)), NEW num \in Nat, Register(keys, num) # NULL,
         NULL \notin ToSet(keys),
         \A i \in 1 .. Len(keys) : Hash(keys[i], num) \in 0 .. num - 1,
         NEW sections, NEW name \in sections, NEW keyLists, keys \in keyLists,
         NEW S, NEW lines \in Seq(S),
         \A j \in 1 .. Len(lines) : WellWritten(lines[j], sections, keyLists),
         \A j \in 1 .. Len(lines) : Hash(lines[j].name, num) \in 0 .. num - 1
  PROVE  Followed(lines, name, keys, Run(Register(keys, num), name, Text(lines)), Len(lines))
<1> DEFINE h == Register(keys, num)
           L == Len(lines)
<1>0. L \in Nat
  OBVIOUS
<1>1. PICK text : /\ text = [j \in 0 .. L |-> TextUpTo(lines, text, j)]
                  /\ Text(lines) = text[L]
  BY <1>0, TextIs
<1>2. text[0] = << >>
  <2>1. 0 \in 0 .. L
    BY <1>0
  <2>2. text[0] = TextUpTo(lines, text, 0)
    BY <1>1, <2>1
  <2>3. QED
    BY <2>2 DEF TextUpTo
<1>3. ASSUME NEW n \in Nat, n + 1 \in 1 .. L
      PROVE  text[n + 1] = text[n] \o LineText(lines[n + 1])
  <2>1. n + 1 \in 0 .. L /\ n + 1 # 0 /\ (n + 1) - 1 = n
    BY <1>3
  <2>2. text[n + 1] = TextUpTo(lines, text, n + 1)
    BY <1>1, <2>1
  <2>3. QED
    BY <2>1, <2>2 DEF TextUpTo
<1> DEFINE P == {n \in Nat : n <= L => /\ text[n] \in Seq(Chars)
                                       /\ Followed(lines, name, keys, Run(h, name, text[n]), n)}
<1>4. 0 \in P
  <2>1. text[0] \in Seq(Chars)
    BY <1>2
  <2>2. Run(h, name, text[0]) = Start
    BY <1>2, RunStart
  <2>3. Followed(lines, name, keys, Start, 0)
    BY BeforeFirstLine
  <2> HIDE DEF h
  <2>4. QED
    BY <2>1, <2>2, <2>3
<1>5. ASSUME NEW n \in Nat, n \in P PROVE n + 1 \in P
  <2>1. SUFFICES ASSUME n + 1 <= L
                 PROVE  /\ text[n + 1] \in Seq(Chars)
                        /\ Followed(lines, name, keys, Run(h, name, text[n + 1]), n + 1)
    OBVIOUS
  <2>2. n <= L /\ n + 1 \in 1 .. L
    BY <1>0, <2>1
  <2>3. text[n] \in Seq(Chars) /\ Followed(lines, name, keys, Run(h, name, text[n]), n)
    BY <1>5, <2>2
  <2>4. WellWritten(lines[n + 1], sections, keyLists) /\ Hash(lines[n + 1].name, num) \in 0 .. num - 1
    BY <2>2
  <2>5. PICK e : /\ Leads(h, name, LineText(lines[n + 1]), Run(h, name, text[n]), e)
                 /\ Followed(lines, name, keys, e, n + 1)
    BY <2>2, <2>3, <2>4, FollowedNext
  <2>6. LineText(lines[n + 1]) \in Seq(Chars)
    BY <2>4, LineTextType
  <2>7. Run(h, name, text[n] \o LineText(lines[n + 1])) = e
    BY <2>3, <2>5, Zenon DEF Leads
  <2>8. text[n + 1] = text[n] \o LineText(lines[n + 1])
    BY <1>3, <2>2
  <2>9. text[n] \o LineText(lines[n + 1]) \in Seq(Chars)
    BY <2>3, <2>6, ConcatProperties
  <2>10. QED
    BY <2>5, <2>7, <2>8, <2>9, Zenon
<1>6. Nat \subseteq P
  <2> HIDE DEF P
  <2>1. QED
    BY <1>4, <1>5, SetInduction
<1>7. L \in P
  BY <1>0, <1>6
<1>8. Followed(lines, name, keys, Run(h, name, text[L]), L)
  BY <1>0, <1>7
<1>9. QED
  BY <1>1, <1>8, Zenon

LEMMA StoredIs ==
  ASSUME NEW own, NEW st, NEW data, Between(own, st, data)
  PROVE  st.ok /\ st.data = data
BY DEF Between, State

\* What Parse returns, and what Meaning says, in the same words.
Values(keys, data) ==
  [key \in ToSet(keys) |-> IF Mine(data, key) = {} THEN NULL ELSE data[Max(Mine(data, key))][2]]

LEMMA ParseIs ==
  ASSUME NEW text, NEW name, NEW keys, NEW num, Register(keys, num) # NULL
  PROVE  Parse(text, name, keys, num) =
           IF ~ Run(Register(keys, num), name, text).ok THEN NULL
           ELSE Values(keys, Run(Register(keys, num), name, text).data)
BY Zenon DEF Parse, Values, Mine

LEMMA MeaningIs ==
  ASSUME NEW S, NEW lines \in Seq(S), NEW name, NEW keys
  PROVE  Meaning(lines, name, keys) =
           IF \E i \in 1 .. Len(lines) : Wrong(lines, name, keys, i) THEN NULL
           ELSE [key \in ToSet(keys) |->
                   IF SetsUpTo(lines, name, key, Len(lines)) = {} THEN NULL
                   ELSE lines[Max(SetsUpTo(lines, name, key, Len(lines)))].value]
<1> DEFINE mine == Section(lines, name)
           Sets(key) == {j \in mine : lines[j].kind = "entry" /\ lines[j].name = key}
<1>1. DOMAIN lines = 1 .. Len(lines) /\ Len(lines) \in Nat
  OBVIOUS
<1>2. \A j \in mine : j \in 1 .. Len(lines) /\ j <= Len(lines)
  BY <1>1 DEF Section
<1>3. (\E l \in ToSet(lines) : l.kind = "broken") <=> \E i \in 1 .. Len(lines) : lines[i].kind = "broken"
  BY <1>1 DEF ToSet
<1>4. (\/ \E l \in ToSet(lines) : l.kind = "broken"
       \/ \E j \in mine : \/ lines[j].kind = "bare"
                          \/ lines[j].kind = "entry" /\ lines[j].name \notin ToSet(keys))
        <=> \E i \in 1 .. Len(lines) : Wrong(lines, name, keys, i)
  BY <1>2, <1>3, Zenon DEF Wrong
<1>5. \A key : Sets(key) = SetsUpTo(lines, name, key, Len(lines))
  BY <1>2 DEF SetsUpTo
<1>6. [key \in ToSet(keys) |-> IF Sets(key) = {} THEN NULL ELSE lines[Max(Sets(key))].value]
        = [key \in ToSet(keys) |->
             IF SetsUpTo(lines, name, key, Len(lines)) = {} THEN NULL
             ELSE lines[Max(SetsUpTo(lines, name, key, Len(lines)))].value]
  <2> HIDE DEF Sets
  <2>1. QED
    BY <1>5, Zenon
<1>7. QED
  BY <1>4, <1>6, Zenon DEF Meaning

LEMMA ParseIsMeaning ==
  ASSUME NEW keys \in Seq(Seq(STRING)), NEW num \in Nat, Register(keys, num) # NULL,
         NULL \notin ToSet(keys),
         \A i \in 1 .. Len(keys) : Hash(keys[i], num) \in 0 .. num - 1,
         NEW sections, NEW name \in sections, NEW keyLists, keys \in keyLists,
         NEW S, NEW lines \in Seq(S),
         \A j \in 1 .. Len(lines) : WellWritten(lines[j], sections, keyLists),
         \A j \in 1 .. Len(lines) : Hash(lines[j].name, num) \in 0 .. num - 1
  PROVE  Parse(Text(lines), name, keys, num) = Meaning(lines, name, keys)
<1> DEFINE L == Len(lines)
           end == Run(Register(keys, num), name, Text(lines))
           wrong == \E i \in 1 .. L : Wrong(lines, name, keys, i)
           Said == [key \in ToSet(keys) |->
                      IF SetsUpTo(lines, name, key, L) = {} THEN NULL
                      ELSE lines[Max(SetsUpTo(lines, name, key, L))].value]
<1>1. Followed(lines, name, keys, end, L)
  BY FileFollowed
<1>2. Parse(Text(lines), name, keys, num) = IF ~ end.ok THEN NULL ELSE Values(keys, end.data)
  BY ParseIs
<1>3. Meaning(lines, name, keys) = IF wrong THEN NULL ELSE Said
  BY MeaningIs
<1>4. wrong => ~ end.ok
  BY <1>1, Zenon DEF Followed
<1>5. ~ wrong => end.ok /\ Values(keys, end.data) = Said
  <2>1. SUFFICES ASSUME ~ wrong PROVE end.ok /\ Values(keys, end.data) = Said
    OBVIOUS
  <2>2. PICK data \in Seq(Pairs(lines, keys)) :
          /\ Between(Own(lines, name, L), end, data)
          /\ \A key \in ToSet(keys) : Agrees(lines, name, data, key, L)
    BY <1>1, <2>1, Zenon DEF Followed
  <2>3. end.ok /\ end.data = data
    BY <2>2, StoredIs
  <2>4. \A key \in ToSet(keys) :
          (IF Mine(data, key) = {} THEN NULL ELSE data[Max(Mine(data, key))][2])
            = IF SetsUpTo(lines, name, key, L) = {} THEN NULL
              ELSE lines[Max(SetsUpTo(lines, name, key, L))].value
    BY <2>2, Zenon DEF Agrees
  <2>5. Values(keys, data) = Said
    BY <2>4, Zenon DEF Values
  <2>6. QED
    BY <2>3, <2>5
<1> HIDE DEF wrong, end, Said
<1>6. QED
  BY <1>2, <1>3, <1>4, <1>5

-----------------------------------------------------------------------------
(* The master.                                                             *)

\* The keys and the files of an instance, one by one.
LEMMA KeysAre ==
  ASSUME NEW keys \in {CoreKeys, MasterKeys}, NEW n \in {7, 10}
  PROVE  /\ keys \in Seq(Seq(STRING)) /\ NULL \notin ToSet(keys)
         /\ \A i \in 1 .. Len(keys) : Hash(keys[i], n) \in 0 .. n - 1
<1>1. keys \in Seq(Seq(STRING))
  BY ConfAssumption
<1>2. NULL \notin ToSet(keys)
  <2>1. ToSet(keys) = Range(keys)
    BY Zenon DEF ToSet, Range
  <2>2. NULL \notin Range(keys)
    BY MasterAssumption
  <2>3. QED
    BY <2>1, <2>2
<1>3. \A i \in 1 .. Len(keys) : Hash(keys[i], n) \in 0 .. n - 1
  <2>1. SUFFICES ASSUME NEW i \in 1 .. Len(keys) PROVE Hash(keys[i], n) \in 0 .. n - 1
    OBVIOUS
  <2>2. i \in DOMAIN keys
    BY <1>1
  <2>3. keys[i] \in Range(keys)
    BY <2>2, Zenon DEF Range
  <2>4. keys[i] \in Range(CoreKeys) \cup Range(MasterKeys)
    BY <2>3
  <2>5. QED
    BY <2>4, ConfAssumption
<1>4. QED
  BY <1>1, <1>2, <1>3

LEMMA FilesAre ==
  ASSUME NEW f \in Written, NEW n \in {7, 10}
  PROVE  /\ f \in Seq(Range(f))
         /\ \A j \in 1 .. Len(f) : WellWritten(f[j], {<<"core">>, <<"master">>}, {CoreKeys, MasterKeys})
         /\ \A j \in 1 .. Len(f) : Hash(f[j].name, n) \in 0 .. n - 1
<1>1. f \in Seq(Range(f))
  BY ConfAssumption
<1>2. \A j \in 1 .. Len(f) : f[j] \in Range(f)
  BY <1>1 DEF Range
<1>3. \A j \in 1 .. Len(f) : WellWritten(f[j], {<<"core">>, <<"master">>}, {CoreKeys, MasterKeys})
  BY <1>2, ConfAssumption, Zenon
<1>4. \A j \in 1 .. Len(f) : Hash(f[j].name, n) \in 0 .. n - 1
  <2>1. SUFFICES ASSUME NEW j \in 1 .. Len(f) PROVE Hash(f[j].name, n) \in 0 .. n - 1
    OBVIOUS
  <2>2. f[j].name \in {l.name : l \in UNION {Range(g) : g \in Written}}
    BY <1>2
  <2>3. QED
    BY <2>2, ConfAssumption
<1>5. QED
  BY <1>1, <1>3, <1>4

\* A file that is written like the examples is read for what it says.
LEMMA ReadIsMeaning ==
  ASSUME NEW f \in Written
  PROVE  /\ Parse(Text(f), <<"core">>, CoreKeys, 7) = Meaning(f, <<"core">>, CoreKeys)
         /\ Parse(Text(f), <<"master">>, MasterKeys, 10) = Meaning(f, <<"master">>, MasterKeys)
<1> DEFINE sections == {<<"core">>, <<"master">>}
           keyLists == {CoreKeys, MasterKeys}
<1>1. ASSUME NEW keys \in keyLists, NEW name \in sections, NEW n \in {7, 10}, Register(keys, n) # NULL
      PROVE  Parse(Text(f), name, keys, n) = Meaning(f, name, keys)
  <2>2. n \in Nat
    OBVIOUS
  <2>3. /\ keys \in Seq(Seq(STRING)) /\ NULL \notin ToSet(keys)
        /\ \A i \in 1 .. Len(keys) : Hash(keys[i], n) \in 0 .. n - 1
    BY KeysAre
  <2>4. /\ f \in Seq(Range(f))
        /\ \A j \in 1 .. Len(f) : WellWritten(f[j], sections, keyLists)
        /\ \A j \in 1 .. Len(f) : Hash(f[j].name, n) \in 0 .. n - 1
    BY FilesAre
  <2> DEFINE S == Range(f)
  <2>5. keys \in keyLists /\ name \in sections /\ f \in Seq(S) /\ Register(keys, n) # NULL
    BY <1>1, <2>4
  <2> HIDE DEF sections, keyLists, S
  <2>6. QED
    BY <2>2, <2>3, <2>4, <2>5, ParseIsMeaning
<1>2. Register(CoreKeys, 7) # NULL /\ Register(MasterKeys, 10) # NULL
  BY ConfAssumption
<1>3. /\ CoreKeys \in keyLists /\ MasterKeys \in keyLists
      /\ <<"core">> \in sections /\ <<"master">> \in sections
      /\ 7 \in {7, 10} /\ 10 \in {7, 10}
  OBVIOUS
<1> HIDE DEF sections, keyLists
<1>4. QED
  BY <1>1, <1>2, <1>3

\* Where the file is read it is one that the operator has written.
OnDisk == mpc \in {"start", "sighup", "init"} => file \in Written

LEMMA OnDiskStep == OnDisk /\ [Next]_vars => OnDisk'
<1> SUFFICES ASSUME OnDisk, [Next]_vars PROVE OnDisk'
  OBVIOUS
<1> USE DEF OnDisk, infos, threads, process
<1>1. CASE CoreFails \/ CoreReads
  BY <1>1 DEF CoreFails, CoreReads
<1>2. CASE MasterReads \/ MasterFails
  BY <1>2 DEF MasterReads, MasterFails, Leave
<1>3. CASE CancelOld \/ JoinOld \/ TakeOver
  BY <1>3 DEF CancelOld, JoinOld, TakeOver, AfterListen
<1>4. CASE Listen \/ CreateDump \/ CreateThread \/ InitFails
  BY <1>4 DEF Listen, AfterListen, CreateDump, CreateThread, InitFails, Leave
<1>5. CASE FreeCancels \/ FreeJoins \/ SigQuit
  BY <1>5 DEF FreeCancels, FreeJoins, SigQuit, Leave
<1>6. CASE SigHup
  BY <1>6 DEF SigHup, Written
<1>7. ASSUME NEW u \in Threads, ThreadCancelled(u) \/ ThreadFails(u) \/ NoReqdump(u)
      PROVE  OnDisk'
  BY <1>7 DEF ThreadCancelled, ThreadFails, NoReqdump, Ends
<1>8. CASE UNCHANGED vars
  BY <1>8 DEF vars
<1>9. QED
  BY <1>1, <1>2, <1>3, <1>4, <1>5, <1>6, <1>7, <1>8 DEF Next

\* The configuration the process starts with, and that of every reload, is what the
\* lines of the file say: rs_init_conf(), rs_conf_apply() and the hash of the keys
\* compute Meaning, for files of any length.
THEOREM ConfigurationIsRead == Spec => []ConfMeansFile
<1>1. Init => OnDisk
  BY DEF Init, OnDisk, Written
<1>2. OnDisk => ConfMeansFile
  <2>1. SUFFICES ASSUME OnDisk PROVE ConfMeansFile
    OBVIOUS
  <2>2. mpc \in {"start", "sighup", "init"} =>
          /\ ReadCore = Meaning(file, <<"core">>, CoreKeys)
          /\ ReadMaster = Meaning(file, <<"master">>, MasterKeys)
    BY <2>1, ReadIsMeaning, Zenon DEF OnDisk, ReadCore, ReadMaster, Read
  <2>3. QED
    BY <2>2 DEF ConfMeansFile
<1>3. QED
  BY <1>1, <1>2, OnDiskStep, PTL DEF Spec
=============================================================================
