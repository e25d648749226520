------------------------------ MODULE Reqdump ------------------------------
(***************************************************************************)
(* The dump sessions of the master: rs_request_dump.c and the accept thread*)
(* of rs_dump_listen.c.                                                    *)
(*                                                                         *)
(* Every slave is served by a dump thread, which creates an io thread, and *)
(* both use one slot of the array rd->data.  Whoever leaves first frees the*)
(* slot: under the mutex it marks it closed, cancels the others, sleeps ten*)
(* seconds, frees the resources, and puts the slot back on the free list.  *)
(* The main thread does the same to all the slots when a reload changes the*)
(* listen address.                                                         *)
(*                                                                         *)
(* open, io_thread_exit and dump_thread_exit are bit fields of one word: a *)
(* thread that sets one writes back what it read of the other two.         *)
(***************************************************************************)
EXTENDS Naturals, SequencesExt, FiniteSets

CONSTANTS
  NumSlots,     \* rd->num, dump.thread
  MaxSessions,  \* bound: slaves that connect
  MaxReloads    \* bound: reloads

Slots    == 1 .. NumSlots
Sessions == 1 .. MaxSessions
Kinds    == {"io", "dump"}
Threads  == Sessions \X Kinds
Main     == <<0, "main">>
Actors   == Threads \cup {Main}
Nobody   == <<0, "nobody">>

ASSUME ReqdumpAssumption ==
  NumSlots \in Nat \ {0} /\ MaxSessions \in Nat \ {0} /\ MaxReloads \in Nat

Word == [open : BOOLEAN, io : BOOLEAN, dump : BOOLEAN]
Closed == [open |-> FALSE, io |-> FALSE, dump |-> FALSE]

VARIABLES
  (* rs_reqdump_t *)
  mutex,      \* the holder of rd->thr_mutex
  freeList,   \* rd->free
  (* rs_reqdump_data_t *)
  word,       \* word[s]: the three bit fields
  res,        \* res[s]: the session whose pool, ring and buffers are in s, or 0
  tid,        \* tid[s][k]: the session whose thread is in io_thread, dump_thread
  (* the threads *)
  pc,         \* where each thread is
  copy,       \* what a thread has read of the word it is about to write
  cancelled,  \* threads with a cancellation pending
  slot,       \* slot[n]: the slot of session n, or 0
  (* the accept thread and the main thread *)
  apc, accepted,
  mainSlot, reloads,
  (* history *)
  faults      \* what has gone wrong so far

slots   == <<mutex, freeList, word, res, tid>>
threads == <<pc, copy, cancelled, slot>>
masters == <<apc, accepted, mainSlot, reloads>>
vars    == <<slots, threads, masters, faults>>

SlotOf(t) == IF t = Main THEN mainSlot ELSE slot[t[1]]
Goto(t, where) == pc' = [pc EXCEPT ![t] = where]

-----------------------------------------------------------------------------
\* rs_create_reqdump()
Init ==
  /\ mutex = Nobody
  /\ freeList = [i \in Slots |-> i]
  /\ word = [s \in Slots |-> Closed]
  /\ res = [s \in Slots |-> 0]
  /\ tid = [s \in Slots |-> [k \in Kinds |-> 0]]
  /\ pc = [t \in Actors |-> "none"] /\ copy = [t \in Actors |-> Closed]
  /\ cancelled = {} /\ slot = [n \in Sessions |-> 0]
  /\ apc = "accept" /\ accepted = 0
  /\ mainSlot = 1 /\ reloads = 0
  /\ faults = {}

(* The accept thread, rs_start_accept_thread().                            *)

Accept ==
  /\ apc = "accept" /\ accepted < MaxSessions
  /\ apc' = "get"
  /\ accepted' = accepted + 1
  /\ UNCHANGED <<slots, threads, mainSlot, reloads, faults>>

\* rs_get_reqdump_data()
Get ==
  /\ apc = "get" /\ mutex = Nobody /\ freeList # << >>
  /\ apc' = "build"
  /\ freeList' = Tail(freeList)
  /\ slot' = [slot EXCEPT ![accepted] = Head(freeList)]
  /\ word' = [word EXCEPT ![Head(freeList)].open = TRUE]
  /\ UNCHANGED <<mutex, res, tid, pc, copy, cancelled, accepted, mainSlot,
                 reloads, faults>>

\* No slot is free: d is NULL and d->data is read, the process dies.
GetNull ==
  /\ apc = "get" /\ mutex = Nobody /\ freeList = << >>
  /\ apc' = "crash"
  /\ pc' = [t \in Actors |-> "dead"]
  /\ UNCHANGED <<slots, copy, cancelled, slot, accepted, mainSlot, reloads,
                 faults>>

\* Pool, ring buffer, send buffer and io buffer.
Build ==
  /\ apc = "build"
  /\ apc' = "create"
  /\ res' = [res EXCEPT ![slot[accepted]] = accepted]
  /\ UNCHANGED <<mutex, freeList, word, tid, threads, accepted, mainSlot,
                 reloads, faults>>

\* One of them fails: the accept thread leaves and the slot stays as it is.
BuildFails ==
  /\ apc = "build"
  /\ apc' = "exit"
  /\ UNCHANGED <<slots, threads, accepted, mainSlot, reloads, faults>>

Create ==
  /\ apc = "create"
  /\ apc' = "accept"
  /\ tid' = [tid EXCEPT ![slot[accepted]]["dump"] = accepted]
  /\ Goto(<<accepted, "dump">>, "run")
  /\ UNCHANGED <<mutex, freeList, word, res, copy, cancelled, slot, accepted,
                 mainSlot, reloads, faults>>

-----------------------------------------------------------------------------
(* The two threads of a session.                                           *)

\* rs_parse_dumpcmd() is done: rs_start_dump_thread() creates the io thread.
\* A session that is being torn down meanwhile has a thread nobody cancels.
StartIo(n) ==
  /\ pc[<<n, "dump">>] = "run" /\ pc[<<n, "io">>] = "none"
  /\ Goto(<<n, "io">>, "run")
  /\ tid' = [tid EXCEPT ![slot[n]]["io"] = n]
  /\ faults' = faults \cup (IF word[slot[n]].open THEN {} ELSE {"orphan"})
  /\ UNCHANGED <<mutex, freeList, word, res, copy, cancelled, slot, masters>>

\* An error, or the cancellation at a cancellation point.  Either way the
\* cleanup handler runs; only after an error is the thread still cancellable.
Leave(t) ==
  /\ pc[t] = "run"
  /\ Goto(t, "load")
  /\ \/ UNCHANGED cancelled
     \/ t \in cancelled /\ cancelled' = cancelled \ {t}
  /\ UNCHANGED <<slots, copy, slot, masters, faults>>

\* rs_free_{io,dump}_thread() sets the exit bit: read the word ...
LoadExit(t) ==
  /\ pc[t] = "load"
  /\ copy' = [copy EXCEPT ![t] = word[SlotOf(t)]]
  /\ Goto(t, "store")
  /\ UNCHANGED <<slots, cancelled, slot, masters, faults>>

\* ... and write it back.
StoreExit(t) ==
  /\ pc[t] = "store"
  /\ word' = [word EXCEPT ![SlotOf(t)] = [copy[t] EXCEPT ![t[2]] = TRUE]]
  /\ copy' = [copy EXCEPT ![t] = Closed]
  /\ Goto(t, "check")
  /\ UNCHANGED <<mutex, freeList, res, tid, cancelled, slot, masters,
                 faults>>

-----------------------------------------------------------------------------
(* rs_free_reqdump_data(), called by a thread of a session or by main.     *)

Finish(t) == Goto(t, IF t = Main THEN "next" ELSE "dead")

TryLock_mut(t) ==
  /\ pc[t] = "check"
  /\ IF word[SlotOf(t)].open /\ mutex = Nobody THEN Goto(t, "lock") ELSE Finish(t)
  /\ UNCHANGED <<slots, copy, cancelled, slot, masters, faults>>

Check(t) ==
  /\ pc[t] = "check"
  /\ IF word[SlotOf(t)].open THEN Goto(t, "lock") ELSE Finish(t)
  /\ UNCHANGED <<slots, copy, cancelled, slot, masters, faults>>

NoRecheck_mut(t) ==
  /\ pc[t] = "lock" /\ mutex = Nobody
  /\ mutex' = t
  /\ Goto(t, "close")
  /\ copy' = [copy EXCEPT ![t] = word[SlotOf(t)]]
  /\ UNCHANGED <<freeList, word, res, tid, cancelled, slot, masters, faults>>

KeepLocked_mut(t) ==
  /\ pc[t] = "lock" /\ mutex = Nobody
  /\ mutex' = t
  /\ IF word[SlotOf(t)].open
     THEN /\ Goto(t, "close")
          /\ copy' = [copy EXCEPT ![t] = word[SlotOf(t)]]
     ELSE Finish(t) /\ UNCHANGED copy
  /\ UNCHANGED <<freeList, word, res, tid, cancelled, slot, masters, faults>>

\* The mutex is taken and open is tested again.
Lock(t) ==
  /\ pc[t] = "lock" /\ mutex = Nobody
  /\ IF word[SlotOf(t)].open
     THEN /\ mutex' = t
          /\ Goto(t, "close")
          /\ copy' = [copy EXCEPT ![t] = word[SlotOf(t)]]
          /\ faults' = faults \cup (IF t = Main \/ res[SlotOf(t)] = t[1]
                                    THEN {} ELSE {"foreign"})
     ELSE /\ Finish(t)
          /\ UNCHANGED <<mutex, copy, faults>>
  /\ UNCHANGED <<freeList, word, res, tid, cancelled, slot, masters>>

\* open = 0
Close(t) ==
  /\ pc[t] = "close"
  /\ word' = [word EXCEPT ![SlotOf(t)] = [copy[t] EXCEPT !.open = FALSE]]
  /\ copy' = [copy EXCEPT ![t] = Closed]
  /\ Goto(t, "cancel")
  /\ UNCHANGED <<mutex, freeList, res, tid, cancelled, slot, masters,
                 faults>>

\* The threads of a slot that did not set their exit bit.
ToCancel(s) == {<<tid[s][k], k>> : k \in {j \in Kinds : tid[s][j] # 0 /\ ~word[s][j]}}

NoCancelIo_mut(t) ==
  /\ pc[t] = "cancel"
  /\ cancelled' = cancelled \cup (ToCancel(SlotOf(t)) \ (Sessions \X {"io"}))
  /\ faults' = faults
  /\ Goto(t, "sleep")
  /\ UNCHANGED <<slots, copy, slot, masters>>

\* pthread_cancel() of the io thread and of the dump thread, close() of cli_fd.
\* A thread whose own exit bit was lost cancels itself.
Cancel(t) ==
  /\ pc[t] = "cancel"
  /\ cancelled' = cancelled \cup ToCancel(SlotOf(t))
  /\ faults' = faults \cup (IF t \in ToCancel(SlotOf(t)) THEN {"self"} ELSE {})
  /\ Goto(t, "sleep")
  /\ UNCHANGED <<slots, copy, slot, masters>>

\* sleep() is a cancellation point: the thread ends and keeps the mutex.
DieAsleep(t) ==
  /\ pc[t] = "sleep" /\ t \in cancelled
  /\ cancelled' = cancelled \ {t}
  /\ Goto(t, "dead")
  /\ UNCHANGED <<slots, copy, slot, masters, faults>>

\* Threads of slot s that were cancelled, or are leaving, and still touch it.
Lingering(t, s) ==
  {u \in Threads \ {t} : /\ slot[u[1]] = s
                         /\ \/ pc[u] = "run" /\ u \in cancelled
                            \/ pc[u] \in {"load", "store", "check"}}

\* The ten seconds are over: the resources are freed, the slot is initialised
\* and goes to the head of the free list, the mutex is released.
Release(t) ==
  LET s == SlotOf(t) IN
  /\ pc[t] = "sleep" /\ t \notin cancelled
  /\ faults' = faults \cup (IF Lingering(t, s) # {} THEN {"late"} ELSE {})
  /\ freeList' = <<s>> \o freeList
  /\ word' = [word EXCEPT ![s] = Closed]
  /\ res' = [res EXCEPT ![s] = 0]
  /\ tid' = [tid EXCEPT ![s] = [k \in Kinds |-> 0]]
  /\ mutex' = Nobody
  /\ Finish(t)
  /\ UNCHANGED <<copy, cancelled, slot, masters>>

Teardown(t) == Check(t) \/ Lock(t) \/ Close(t) \/ Cancel(t) \/ DieAsleep(t) \/ Release(t)

-----------------------------------------------------------------------------
(* The main thread: a reload that changes the listen address stops the     *)
(* accept thread and calls rs_freeall_reqdump_data().                      *)

Reload ==
  /\ pc[Main] = "none" /\ reloads < MaxReloads
  /\ apc = "accept"
  /\ apc' = "stopped"
  /\ reloads' = reloads + 1
  /\ mainSlot' = 1
  /\ Goto(Main, "check")
  /\ UNCHANGED <<slots, copy, cancelled, slot, accepted, faults>>

NextSlot ==
  /\ pc[Main] = "next"
  /\ IF mainSlot < NumSlots
     THEN mainSlot' = mainSlot + 1 /\ Goto(Main, "check") /\ UNCHANGED apc
     ELSE apc' = "accept" /\ Goto(Main, "none") /\ UNCHANGED mainSlot
  /\ UNCHANGED <<slots, copy, cancelled, slot, accepted, reloads, faults>>

-----------------------------------------------------------------------------
AcceptThread == Get \/ GetNull \/ Build \/ BuildFails \/ Create

Cleanup(t) == LoadExit(t) \/ StoreExit(t) \/ Teardown(t)

Next == \/ Accept \/ AcceptThread \/ Reload \/ NextSlot \/ Teardown(Main)
        \/ \E n \in Sessions : StartIo(n)
        \/ \E t \in Threads : Leave(t) \/ Cleanup(t)

Spec == Init /\ [][Next]_vars

\* Threads are scheduled, a sleep ends, and a cancelled thread comes to a
\* cancellation point.
FairSpec ==
  /\ Spec
  /\ WF_vars(AcceptThread) /\ WF_vars(NextSlot \/ Teardown(Main))
  /\ \A t \in Threads : WF_vars(Cleanup(t)) /\ WF_vars(t \in cancelled /\ Leave(t))

-----------------------------------------------------------------------------
(* Types; the main thread stays inside the array of slots.                 *)
TypeOK ==
  /\ mutex \in Actors \cup {Nobody} /\ freeList \in Seq(Slots)
  /\ word \in [Slots -> Word] /\ res \in [Slots -> 0 .. MaxSessions]
  /\ tid \in [Slots -> [Kinds -> 0 .. MaxSessions]]
  /\ pc \in [Actors -> {"none", "run", "load", "store", "check", "lock", "close",
                        "cancel", "sleep", "next", "dead"}]
  /\ copy \in [Actors -> Word] /\ cancelled \subseteq Threads
  /\ slot \in [Sessions -> 0 .. NumSlots]
  /\ apc \in {"accept", "get", "build", "create", "stopped", "exit", "crash"}
  /\ accepted \in 0 .. MaxSessions
  /\ mainSlot \in Slots /\ reloads \in 0 .. MaxReloads
  /\ faults \subseteq {"late", "foreign", "orphan", "self"}

Running(n) == \E k \in Kinds : pc[<<n, k>>] = "run"

(* As long as no teardown has gone wrong: a running thread finds its own   *)
(* session's pool, ring and buffers in the slot, never what was freed and  *)
(* never those of the next session.                                        *)
RunsOnOwn ==
  faults = {} => \A n \in Sessions : Running(n) => res[slot[n]] = n

(* The free list holds each slot once; a slot on it is closed, empty and   *)
(* used by nobody; and the slot of a session that runs is not on it.       *)
FreeListSound ==
  faults = {} =>
    /\ IsInjective(freeList)
    /\ \A s \in ToSet(freeList) : word[s] = Closed /\ res[s] = 0
    /\ \A n \in Sessions : Running(n) => slot[n] \notin ToSet(freeList)

(* No slot gets lost: what is not on the free list is open, or somebody is *)
(* about to put it there.                                                  *)
NoSlotLost ==
  faults = {} => \A s \in Slots \ ToSet(freeList) :
    word[s].open \/ (mutex # Nobody /\ SlotOf(mutex) = s)

(* Every slot is in one place: once on the free list and out of use, or    *)
(* open, or in the hands of the one that holds the mutex.                  *)
SlotsPartition == TypeOK /\ FreeListSound /\ NoSlotLost

(* Whoever takes thr_mutex gives it back, unless it dies in its sleep with *)
(* a cancellation pending, and that only once a thread has cancelled itself*)
(* (its exit bit was lost) or torn down the session of another.            *)
MutexReleasedUnlessCancelled ==
  []<>(mutex = Nobody \/ (pc[mutex] = "dead" /\ faults \cap {"self", "foreign"} # {}))

(* When a thread of a session has left, the slot becomes free again, unless*)
(* a teardown has gone wrong or the process has died for want of a slot.   *)
SlotComesBack ==
  \A n \in Sessions :
    (\E k \in Kinds : pc[<<n, k>>] = "load")
      ~> (faults # {} \/ apc = "crash" \/ \A s \in Slots : res[s] # n)

-----------------------------------------------------------------------------
(* Three stronger properties, which TLC refutes (README.md).               *)

(* The comment "register slave": a slot that was given to a new slave is   *)
(* not torn down by a thread of the session before.                        *)
OwnTeardown == "late" \notin faults => "foreign" \notin faults

(* max dump thread: one slave more than dump.thread is turned away and     *)
(* those connected go on.                                                  *)
FullIsRefused == apc # "crash"

(* Whoever takes thr_mutex gives it back, always.                          *)
MutexReleased == []<>(mutex = Nobody)
=============================================================================
