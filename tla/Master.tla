------------------------------- MODULE Master -------------------------------
(***************************************************************************)
(* The life of the master process: main() of rs.c, rs_init_core_info(),    *)
(* rs_init_master_info(), rs_dump_listen(), rs_init_master(),              *)
(* rs_free_master() and the signals, against the accept thread.            *)
(*                                                                         *)
(* SIGHUP makes the main thread read the configuration again, stop the     *)
(* accept thread, build a second rs_master_info_t that takes over what did *)
(* not change, start its accept thread, and free the first.  A quit signal *)
(* frees the current one.  The dump sessions are those of module Reqdump;  *)
(* here a req_dump is the number of the pool it was allocated from.        *)
(***************************************************************************)
EXTENDS ConfFile

CONSTANTS
  Files,       \* what the operator can write into the file, as lines
  FirstFiles,  \* what the file can hold when the process starts
  CoreKeys, MasterKeys,   \* the registered keys, in their order
  MaxReloads,  \* bound: SIGHUPs
  MaxThreads   \* bound: identifiers of threads

Threads == 1 .. MaxThreads
Infos   == 0 .. MaxReloads    \* one rs_master_info_t for each start and reload

Pid    == <<"pid">>
Addr   == <<"listen.addr">>    \* with listen.port
Index  == <<"binlog.index">>
RingNo == <<"ringbuf.num">>

DefaultAddr == <<"127.0.0.1">>
DefaultPid  == <<"./rs.pid">>

\* NULL is no info, key or address.
ASSUME MasterAssumption ==
  /\ MaxReloads \in Nat /\ MaxThreads \in Nat \ {0}
  /\ Range(CoreKeys) \cap {NULL} = {} /\ Range(MasterKeys) \cap {NULL} = {}
  /\ NULL \notin Infos /\ DefaultAddr # NULL

\* The hash has its range, the registration of the keys succeeds, and the files are
\* written like the examples.
Written == Files \cup FirstFiles
ASSUME ConfAssumption ==
  /\ {ModuleMax, KeyMax, ValueMax} \subseteq Nat
  /\ {CoreKeys, MasterKeys} \subseteq Seq(Seq(STRING))
  /\ Register(CoreKeys, 7) # NULL /\ Register(MasterKeys, 10) # NULL
  /\ \A f \in Written :
       /\ f \in Seq(Range(f))
       /\ \A l \in Range(f) : WellWritten(l, {<<"core">>, <<"master">>}, {CoreKeys, MasterKeys})
  /\ \A n \in {7, 10}, key \in Range(CoreKeys) \cup Range(MasterKeys)
                            \cup {l.name : l \in UNION {Range(f) : f \in Written}} :
       Hash(key, n) \in 0 .. n - 1

VARIABLES
  mpc,       \* where the main thread is
  file,      \* the lines of the configuration file
  conf,      \* conf[g]: what info g has read, addr, idx and num
  cur, new,  \* rs_master_info and mi, NULL for none
  acc,       \* acc[g]: accept_thread, 0 for none
  exited,    \* exited[g]: accept_thread_exit
  sock,      \* sock[g]: svr_fd, the address it listens on, NULL for -1
  dump,      \* dump[g]: req_dump, the info whose pool it lives in, or NULL
  pools,     \* infos whose pool is not destroyed
  bound,     \* addresses with a listening socket of the process
  thread,    \* thread[t]: the info that accept thread t serves, or NULL
  cancelled, \* threads with a cancellation pending
  ended,     \* threads that have ended and were not joined
  pidPath, pidFiles,  \* ci->pid_path; the pid files that exist
  reloads,
  broken     \* history: an accept thread failed, or a reload after it was stopped

infos   == <<conf, cur, new, acc, exited, sock, dump, pools, bound>>
threads == <<thread, cancelled, ended>>
process == <<file, pidPath, pidFiles, reloads>>
vars    == <<mpc, infos, threads, process, broken>>

Read(section, keys, num) == Parse(Text(file), section, keys, num)
ReadCore   == Read(<<"core">>, CoreKeys, 7)
ReadMaster == Read(<<"master">>, MasterKeys, 10)

Init ==
  /\ mpc = "start" /\ file \in FirstFiles
  /\ conf = [g \in Infos |-> NULL] /\ cur = NULL /\ new = NULL
  /\ acc = [g \in Infos |-> 0] /\ exited = [g \in Infos |-> FALSE]
  /\ sock = [g \in Infos |-> NULL] /\ dump = [g \in Infos |-> NULL]
  /\ pools = {} /\ bound = {}
  /\ thread = [t \in Threads |-> NULL] /\ cancelled = {} /\ ended = {}
  /\ pidPath = NULL /\ pidFiles = {} /\ reloads = 0 /\ broken = FALSE

-----------------------------------------------------------------------------
(* The main thread, main()                                                 *)

\* A failed rs_init_core_info() ends the process, at the start by return 1, on
\* a reload because ci is NULL when the next signal is waited for.
CoreFails ==
  /\ mpc \in {"start", "sighup"}
  /\ mpc' = IF mpc = "start" THEN "exit" ELSE "dead"
  /\ pidFiles' \in {pidFiles, pidFiles \ {pidPath}}
  /\ UNCHANGED <<infos, threads, file, pidPath, reloads, broken>>

\* A pid file that has moved is deleted, the new one is created.  To compare
\* the paths on a reload both must have been given.
CoreReads ==
  /\ mpc \in {"start", "sighup"} /\ ReadCore # NULL
  /\ LET path == ReadCore[Pid]
     IN  IF mpc = "sighup" /\ NULL \in {path, pidPath}
         THEN mpc' = "dead" /\ UNCHANGED <<pidPath, pidFiles>>
         ELSE /\ mpc' = "init" /\ pidPath' = path
              /\ pidFiles' = (IF path # pidPath THEN pidFiles \ {pidPath} ELSE pidFiles)
                             \cup {IF path = NULL THEN DefaultPid ELSE path}
  /\ UNCHANGED <<infos, threads, file, reloads, broken>>

SigHup ==
  /\ mpc = "wait" /\ reloads < MaxReloads
  /\ mpc' = "sighup"
  /\ file' \in Files /\ reloads' = reloads + 1
  /\ UNCHANGED <<infos, threads, pidPath, pidFiles, broken>>

\* SIGINT, SIGTERM or SIGQUIT; rs_free_master(NULL) begins.
SigQuit ==
  /\ mpc = "wait"
  /\ mpc' = "quit"
  /\ UNCHANGED <<infos, threads, process, broken>>

Leave == /\ mpc' = "exit" /\ pidFiles' = pidFiles \ {pidPath}

-----------------------------------------------------------------------------
(* rs_init_master_info()                                                   *)

Info(read) ==
  [addr |-> IF read[Addr] = NULL THEN DefaultAddr ELSE read[Addr],
   idx  |-> read[Index], num |-> read[RingNo]]

\* The section is read twice, the second time into the pool it has asked for.
MasterReads ==
  /\ mpc = "init" /\ ReadMaster # NULL
  /\ mpc' = IF cur = NULL THEN "listen" ELSE "cancel"
  /\ new' = reloads /\ conf' = [conf EXCEPT ![reloads] = Info(ReadMaster)]
  /\ pools' = pools \cup {reloads} /\ file' = << >>
  /\ UNCHANGED <<cur, acc, exited, sock, dump, bound, threads, pidPath, pidFiles,
                 reloads, broken>>

StopFirst_mut ==
  /\ mpc = "init" /\ ReadMaster = NULL
  /\ file' = << >>
  /\ IF cur = NULL THEN Leave ELSE mpc' = "wait" /\ UNCHANGED pidFiles
  /\ cancelled' = {t \in Threads : thread[t] # NULL}
  /\ UNCHANGED <<infos, thread, ended, pidPath, reloads, broken>>

MasterFails ==
  /\ mpc = "init" /\ ReadMaster = NULL
  /\ file' = << >>
  /\ IF cur = NULL THEN Leave ELSE mpc' = "wait" /\ UNCHANGED pidFiles
  /\ UNCHANGED <<infos, threads, pidPath, reloads, broken>>

\* pthread_cancel() of a thread that runs.
Cancel(t) ==
  cancelled' = IF thread[t] # NULL THEN cancelled \cup {t} ELSE cancelled

\* pthread_join() waits for whatever thread has the identifier now; of none it
\* returns at once.
Join(t) == thread[t] = NULL /\ ended' = ended \ {t}

NoJoin_mut ==
  /\ mpc = "cancel"
  /\ mpc' = "take" /\ Cancel(acc[cur])
  /\ UNCHANGED <<infos, thread, ended, process, broken>>

CancelOld ==
  /\ mpc = "cancel"
  /\ mpc' = "join" /\ Cancel(acc[cur])
  /\ UNCHANGED <<infos, thread, ended, process, broken>>

JoinOld ==
  /\ mpc = "join" /\ Join(acc[cur])
  /\ mpc' = "take"
  /\ UNCHANGED <<infos, thread, cancelled, process, broken>>

\* nl and nd
NewListen == cur = NULL \/ conf[new].addr # conf[cur].addr
NewDump   == \/ cur = NULL
             \/ conf[new].idx # conf[cur].idx /\ conf[new].num # conf[cur].num

AfterListen == IF NewDump THEN "dump" ELSE "create"

KeepFd_mut == IF NewListen THEN sock ELSE [sock EXCEPT ![new] = sock[cur]]

\* An unchanged address: the old info gives up the socket that is in use.
SockTaken ==
  IF NewListen THEN sock ELSE [sock EXCEPT ![new] = sock[cur], ![cur] = NULL]

\* The index files are compared by name, and rs_freeall_reqdump_data() ends the
\* sessions of an old address.
TakeOver ==
  /\ mpc = "take"
  /\ \/ /\ \/ NULL \in {conf[new].idx, conf[cur].idx}
           \/ ~NewDump /\ NewListen /\ dump[cur] = NULL
        /\ mpc' = "dead" /\ UNCHANGED <<sock, dump>>
     \/ /\ NULL \notin {conf[new].idx, conf[cur].idx}
        /\ NewDump \/ ~NewListen \/ dump[cur] # NULL
        /\ mpc' = IF NewListen THEN "listen" ELSE AfterListen
        /\ sock' = SockTaken
        /\ dump' = IF NewDump THEN dump
                   ELSE [dump EXCEPT ![new] = dump[cur], ![cur] = NULL]
  /\ UNCHANGED <<conf, cur, new, acc, exited, pools, bound, threads, process, broken>>

\* rs_dump_listen(): bind() is tried again while the address is in use.
Listen ==
  /\ mpc = "listen" /\ conf[new].addr \notin bound
  /\ mpc' = AfterListen
  /\ bound' = bound \cup {conf[new].addr}
  /\ sock' = [sock EXCEPT ![new] = conf[new].addr]
  /\ UNCHANGED <<conf, cur, new, acc, exited, dump, pools, threads, process, broken>>

CreateDump ==
  /\ mpc = "dump"
  /\ mpc' = "create" /\ dump' = [dump EXCEPT ![new] = new]
  /\ UNCHANGED <<conf, cur, new, acc, exited, sock, pools, bound, threads, process,
                 broken>>

\* The identifier of a thread that was joined can be given again.
CreateThread ==
  /\ mpc = "create"
  /\ \E t \in Threads :
       /\ thread[t] = NULL /\ t \notin ended
       /\ thread' = [thread EXCEPT ![t] = new] /\ acc' = [acc EXCEPT ![new] = t]
  /\ IF cur = NULL THEN mpc' = "wait" /\ cur' = new /\ new' = NULL
     ELSE mpc' = "free" /\ UNCHANGED <<cur, new>>
  /\ UNCHANGED <<conf, exited, sock, dump, pools, bound, cancelled, ended, process,
                 broken>>

\* What rs_free_master() does with info g when its thread is joined.
Destroyed(g) ==
  /\ sock' = [sock EXCEPT ![g] = NULL] /\ bound' = bound \ {sock[g]}
  /\ dump' = [dump EXCEPT ![g] = NULL] /\ pools' = pools \ {g}
  /\ conf' = [conf EXCEPT ![g] = NULL]

\* Listening, the req_dump or the thread fails: mi is freed, with what it has
\* taken over, and the old info stays without an accept thread.
InitFails ==
  /\ mpc \in {"listen", "dump", "create"}
  /\ Destroyed(new) /\ new' = NULL
  /\ IF cur = NULL THEN Leave ELSE mpc' = "wait" /\ UNCHANGED pidFiles
  /\ broken' = TRUE
  /\ UNCHANGED <<cur, acc, exited, threads, file, pidPath, reloads>>

-----------------------------------------------------------------------------
(* rs_free_master() of the old info, or at the end of the current one      *)

NoCancel_mut ==
  /\ mpc \in {"free", "quit"}
  /\ mpc' = IF mpc = "free" THEN "freejoin" ELSE "quitjoin"
  /\ UNCHANGED <<infos, threads, process, broken>>

FreeCancels ==
  /\ mpc \in {"free", "quit"}
  /\ mpc' = IF mpc = "free" THEN "freejoin" ELSE "quitjoin"
  /\ IF exited[cur] THEN UNCHANGED cancelled ELSE Cancel(acc[cur])
  /\ UNCHANGED <<infos, thread, ended, process, broken>>

FreeJoins ==
  /\ mpc \in {"freejoin", "quitjoin"} /\ Join(acc[cur])
  /\ Destroyed(cur) /\ cur' = new /\ new' = NULL
  /\ IF mpc = "quitjoin" THEN Leave ELSE mpc' = "wait" /\ UNCHANGED pidFiles
  /\ UNCHANGED <<acc, exited, thread, cancelled, file, pidPath, reloads, broken>>

-----------------------------------------------------------------------------
(* The accept thread, rs_start_accept_thread()                             *)

Running(t) == thread[t] # NULL /\ mpc # "dead"

\* rs_free_accept_thread()
Ends(t) ==
  /\ exited' = [exited EXCEPT ![thread[t]] = TRUE]
  /\ thread' = [thread EXCEPT ![t] = NULL] /\ ended' = ended \cup {t}
  /\ cancelled' = cancelled \ {t}
  /\ UNCHANGED <<mpc, conf, cur, new, acc, sock, dump, pools, bound, process>>

ThreadCancelled(t) == Running(t) /\ t \in cancelled /\ Ends(t) /\ UNCHANGED broken

\* accept(), a pool, a buffer or the dump thread: any failure ends it.
ThreadFails(t) == Running(t) /\ Ends(t) /\ broken' = TRUE

\* A slave connects and there is no req_dump to take a slot from.
NoReqdump(t) ==
  /\ Running(t) /\ sock[thread[t]] # NULL /\ dump[thread[t]] = NULL
  /\ mpc' = "dead"
  /\ UNCHANGED <<infos, threads, process, broken>>

-----------------------------------------------------------------------------
Next == \/ CoreFails \/ CoreReads \/ MasterReads \/ MasterFails
        \/ CancelOld \/ JoinOld \/ TakeOver \/ Listen \/ CreateDump \/ CreateThread
        \/ InitFails \/ FreeCancels \/ FreeJoins \/ SigHup \/ SigQuit
        \/ \E t \in Threads : ThreadCancelled(t) \/ ThreadFails(t) \/ NoReqdump(t)
        \/ mpc \in {"exit", "dead"} /\ UNCHANGED vars

Spec == Init /\ [][Next]_vars
\* The main thread goes on in rs_free_master() and accept() is a cancellation
\* point.  No failure, signal or success of a system call need come.
FairSpec == /\ Spec /\ WF_vars(FreeCancels \/ FreeJoins)
            /\ \A t \in Threads : WF_vars(ThreadCancelled(t))

-----------------------------------------------------------------------------
TypeOK ==
  /\ mpc \in {"start", "init", "cancel", "join", "take", "listen", "dump", "create",
              "free", "freejoin", "wait", "sighup", "quit", "quitjoin", "exit", "dead"}
  /\ cur \in Infos \cup {NULL} /\ new \in Infos \cup {NULL}
  /\ \A g \in Infos : /\ acc[g] \in 0 .. MaxThreads /\ exited[g] \in BOOLEAN
                      /\ sock[g] \in {NULL} \cup bound /\ dump[g] \in {NULL} \cup Infos
  /\ pools \subseteq Infos /\ thread \in [Threads -> Infos \cup {NULL}]
  /\ cancelled \subseteq {t \in Threads : thread[t] # NULL}
  /\ \A t \in ended : thread[t] = NULL
  /\ reloads \in 0 .. MaxReloads /\ broken \in BOOLEAN

\* Whenever it is read, a file whose lines are as the examples in etc/ write them is
\* read for what its lines say: each section for itself, the last assignment of a
\* key, no value for a key not named, and an error for a key or a line not understood.
ConfMeansFile ==
  /\ mpc \in {"start", "sighup"} => ReadCore = Meaning(file, <<"core">>, CoreKeys)
  /\ mpc \in {"start", "init"}   => ReadMaster = Meaning(file, <<"master">>, MasterKeys)

\* While no accept thread has failed, and no reload after it has stopped the
\* old one, a master that waits for signals accepts slaves at the address of its
\* configuration: whatever was taken over from the old info, or not, is open.
ServesAddress ==
  mpc = "wait" /\ ~broken =>
    /\ sock[cur] = conf[cur].addr /\ sock[cur] \in bound
    /\ thread[acc[cur]] = cur /\ acc[cur] \notin cancelled

\* Two accept threads never run at once: they would take slots of one req_dump,
\* and connections of one socket, with two configurations.
OneAcceptor == TypeOK /\ Cardinality({t \in Threads : thread[t] # NULL}) <= 1

\* Between reloads, and after the end, nothing is left of the infos before: no
\* pool, no open socket, no pid file under an older name.
NothingLeft ==
  /\ mpc = "wait" => /\ pools = {cur} /\ bound = {sock[cur]} \ {NULL}
                     /\ pidPath # NULL => pidFiles = {pidPath}
  /\ mpc = "exit" => /\ pools = {} /\ bound = {}
                     /\ pidPath # NULL => pidFiles = {}

\* A quit signal ends the process, whatever has failed before.
QuitEnds == mpc = "quit" ~> mpc \in {"exit", "dead"}

\* The req_dump that an accept thread takes slots from is memory of a pool that
\* was not destroyed.  rs_master_info.c:128 says of the req_dump taken over only
\* that it must not be freed again.
ReqdumpAlive ==
  \A t \in Threads :
    Running(t) => dump[thread[t]] = NULL \/ dump[thread[t]] \in pools
=============================================================================
