---------------------------- MODULE ReqdumpProofs ----------------------------
(***************************************************************************)
(* Theorems about Reqdump: where the slots are, whose resources a thread   *)
(* finds in its slot, and who is between the lock and the unlock.          *)
(*                                                                         *)
(* Base holds whatever goes wrong: the types, and where each thread can be.*)
(* Strong holds as long as nothing has gone wrong (faults = {}).  It says  *)
(* why a teardown then reaches every thread of its session: each exit bit  *)
(* is clear until its thread has set it, in the word and in every copy of  *)
(* it (Bits), so Cancel finds every thread that still runs (Doomed), and   *)
(* ten seconds later nobody is left when Release frees the slot (Own).     *)
(***************************************************************************)
EXTENDS Reqdump, SequenceTheorems, TLAPS

-----------------------------------------------------------------------------
(* The data.                                                               *)

\* Threads, the main thread and Nobody are told apart by their names.
LEMMA Names ==
  /\ Main \in Actors /\ Main \notin Threads /\ Nobody \notin Actors
  /\ Threads \subseteq Actors
  /\ \A n \in Sessions, k \in Kinds :
       <<n, k>> \in Threads /\ <<n, k>> # Main /\ <<n, k>> # Nobody
  /\ \A t \in Threads : t[1] \in Sessions /\ t[2] \in Kinds /\ t = <<t[1], t[2]>>
  /\ \A t \in Actors : t # Nobody /\ (t = Main \/ t \in Threads)
  /\ 0 \notin Sessions /\ 0 \notin Slots
  /\ Sessions \subseteq 0 .. MaxSessions /\ Slots \subseteq 0 .. NumSlots
BY ReqdumpAssumption DEF Main, Nobody, Actors, Threads, Sessions, Kinds, Slots

\* The two threads of a session.
LEMMA ThreadsOf ==
  ASSUME NEW n \in Sessions
  PROVE  \E d \in Threads, i \in Threads :
           /\ d = <<n, "dump">> /\ d[1] = n /\ d[2] = "dump"
           /\ i = <<n, "io">> /\ i[1] = n /\ i[2] = "io" /\ i # d
<1>1. <<n, "dump">> \in Threads /\ <<n, "io">> \in Threads
  BY Names DEF Kinds
<1> DEFINE d == <<n, "dump">>
           i == <<n, "io">>
<1>2. d[1] = n /\ d[2] = "dump" /\ i[1] = n /\ i[2] = "io" /\ i # d
  OBVIOUS
<1>3. QED
  BY <1>1, <1>2

LEMMA OnFreeList == ASSUME NEW f \in Seq(Slots) PROVE ToSet(f) \subseteq Slots
BY LenProperties DEF ToSet

\* Taking the head of the free list takes just that slot off it.
LEMMA TakeFree ==
  ASSUME NEW f \in Seq(Slots), f # << >>
  PROVE  /\ Head(f) \in ToSet(f) /\ Tail(f) \in Seq(Slots)
         /\ IsInjective(f) => /\ IsInjective(Tail(f))
                              /\ ToSet(Tail(f)) = ToSet(f) \ {Head(f)}
<1>1. /\ Len(f) \in Nat \ {0} /\ DOMAIN f = 1 .. Len(f) /\ Head(f) = f[1]
  BY EmptySeq, LenProperties
<1>2. /\ Tail(f) \in Seq(Slots) /\ DOMAIN Tail(f) = 1 .. Len(f) - 1
      /\ \A i \in 1 .. Len(f) - 1 : Tail(f)[i] = f[i + 1]
  BY <1>1, HeadTailProperties, LenProperties
<1>3. Head(f) \in ToSet(f)
  BY <1>1 DEF ToSet
<1>4. ASSUME IsInjective(f) PROVE IsInjective(Tail(f))
  BY <1>1, <1>2, <1>4 DEF IsInjective
<1>5. ASSUME IsInjective(f) PROVE ToSet(Tail(f)) = ToSet(f) \ {Head(f)}
  <2>1. ToSet(Tail(f)) \subseteq ToSet(f) \ {Head(f)}
    BY <1>1, <1>2, <1>5 DEF IsInjective, ToSet
  <2>2. ASSUME NEW s \in ToSet(f) \ {Head(f)} PROVE s \in ToSet(Tail(f))
    <3>1. PICK i \in 1 .. Len(f) : s = f[i]
      BY <1>1 DEF ToSet
    <3>2. i - 1 \in 1 .. Len(f) - 1 /\ Tail(f)[i - 1] = s
      BY <1>1, <1>2, <2>2, <3>1
    <3>3. QED
      BY <1>2, <3>2 DEF ToSet
  <2>3. QED
    BY <2>1, <2>2
<1>6. QED
  BY <1>2, <1>3, <1>4, <1>5

\* Putting a slot back puts just that slot on it.
LEMMA PutFree ==
  ASSUME NEW f \in Seq(Slots), NEW s \in Slots
  PROVE  /\ <<s>> \o f \in Seq(Slots)
         /\ ToSet(<<s>> \o f) = ToSet(f) \cup {s}
         /\ IsInjective(f) /\ s \notin ToSet(f) => IsInjective(<<s>> \o f)
<1> DEFINE g == <<s>> \o f
<1>1. /\ Len(f) \in Nat /\ DOMAIN f = 1 .. Len(f)
  BY LenProperties
<1>2. <<s>> \in Seq(Slots) /\ Len(<<s>>) = 1 /\ <<s>>[1] = s
  OBVIOUS
<1>3. /\ g \in Seq(Slots) /\ Len(g) = 1 + Len(f)
      /\ \A i \in 1 .. 1 + Len(f) : g[i] = IF i <= 1 THEN s ELSE f[i - 1]
  BY <1>1, <1>2, ConcatProperties
<1>4. DOMAIN g = 1 .. 1 + Len(f)
  BY <1>3, LenProperties
<1> HIDE DEF g
<1>5. ToSet(g) = ToSet(f) \cup {s}
  <2>1. ToSet(g) \subseteq ToSet(f) \cup {s}
    BY <1>1, <1>3, <1>4 DEF ToSet
  <2>2. s \in ToSet(g)
    BY <1>1, <1>3, <1>4 DEF ToSet
  <2>3. ASSUME NEW x \in ToSet(f) PROVE x \in ToSet(g)
    <3>1. PICK i \in 1 .. Len(f) : x = f[i]
      BY <1>1 DEF ToSet
    <3>2. i + 1 \in 1 .. 1 + Len(f) /\ g[i + 1] = x
      BY <1>1, <1>3, <3>1
    <3>3. QED
      BY <1>4, <3>2 DEF ToSet
  <2>4. QED
    BY <2>1, <2>2, <2>3
<1>6. ASSUME IsInjective(f), s \notin ToSet(f) PROVE IsInjective(g)
  <2>1. \A i \in 1 .. Len(f) : f[i] # s
    BY <1>1, <1>6 DEF ToSet
  <2>2. SUFFICES ASSUME NEW i \in 1 .. 1 + Len(f), NEW j \in 1 .. 1 + Len(f), g[i] = g[j]
                 PROVE  i = j
    BY <1>4 DEF IsInjective
  <2>3. CASE i = 1 \/ j = 1
    BY <1>1, <1>3, <2>1, <2>2, <2>3
  <2>4. CASE i # 1 /\ j # 1
    <3>1. i - 1 \in 1 .. Len(f) /\ j - 1 \in 1 .. Len(f) /\ f[i - 1] = f[j - 1]
      BY <1>1, <1>3, <2>2, <2>4
    <3>2. i - 1 = j - 1
      BY <1>1, <1>6, <3>1 DEF IsInjective
    <3>3. QED
      BY <1>1, <3>2
  <2>5. QED
    BY <2>3, <2>4
<1>7. QED
  BY <1>3, <1>5, <1>6 DEF g

\* The three ways to write a bit field: none changes the two others.
Opened(w) == [w EXCEPT !.open = TRUE]
Shut(w) == [w EXCEPT !.open = FALSE]
Exited(w, k) == [w EXCEPT ![k] = TRUE]

LEMMA Words ==
  /\ Closed \in Word /\ ~Closed.open /\ \A k \in Kinds : ~Closed[k]
  /\ \A w \in Word :
       /\ w.open \in BOOLEAN
       /\ Opened(w) \in Word /\ Opened(w).open
       /\ Shut(w) \in Word /\ ~Shut(w).open
       /\ \A k \in Kinds :
            /\ w[k] \in BOOLEAN /\ Opened(w)[k] = w[k] /\ Shut(w)[k] = w[k]
            /\ Exited(w, k) \in Word /\ Exited(w, k).open = w.open
            /\ \A j \in Kinds \ {k} : Exited(w, k)[j] = w[j]
<1>1. /\ Closed \in Word /\ ~Closed.open /\ \A k \in Kinds : ~Closed[k]
  BY DEF Closed, Word, Kinds
<1>2. ASSUME NEW w \in Word
      PROVE  /\ w.open \in BOOLEAN
             /\ Opened(w) \in Word /\ Opened(w).open
             /\ Shut(w) \in Word /\ ~Shut(w).open
  BY DEF Word, Opened, Shut
<1>3. ASSUME NEW w \in Word, NEW k \in Kinds
      PROVE  /\ w[k] \in BOOLEAN /\ Opened(w)[k] = w[k] /\ Shut(w)[k] = w[k]
             /\ Exited(w, k) \in Word /\ Exited(w, k).open = w.open
             /\ \A j \in Kinds \ {k} : Exited(w, k)[j] = w[j]
  BY DEF Word, Kinds, Opened, Shut, Exited
<1>4. QED
  BY <1>1, <1>2, <1>3

-----------------------------------------------------------------------------
(* The inductive invariant.                                                *)

Active  == {"run", "load", "store", "check", "close", "cancel", "sleep"}
Tearing == {"close", "cancel", "sleep"}

\* Slot s is in the hands of the one that holds thr_mutex.
InTeardown(s) == mutex # Nobody /\ SlotOf(mutex) = s

\* Where the threads can be, whatever has gone wrong.
Places ==
  /\ pc[Main] \in {"none", "check", "lock", "close", "cancel", "sleep", "next", "dead"}
  /\ pc[Main] \notin {"none", "dead"} => apc = "stopped"
  /\ \A t \in Actors : pc[t] \in Tearing => mutex = t
  /\ \A t \in Threads : pc[t] \notin {"none", "dead"} => slot[t[1]] \in Slots
  /\ \A t \in Threads : pc[t] # "next"
  /\ apc \in {"get", "build", "create"} => accepted \in Sessions
  /\ apc \in {"get", "build", "create"} =>
       \A t \in Threads : t[1] = accepted => pc[t] = "none"
  /\ apc \in {"build", "create"} => slot[accepted] \in Slots
  /\ apc # "crash" => \A t \in Threads : t[1] > accepted => pc[t] = "none"

Base == TypeOK /\ Places

LEMMA BaseInit == Init => Base
<1> SUFFICES ASSUME Init PROVE Base
  OBVIOUS
<1>1. freeList \in Seq(Slots)
  <2>1. freeList = [i \in 1 .. NumSlots |-> i] /\ NumSlots \in Nat
    BY ReqdumpAssumption DEF Init, Slots
  <2>2. QED
    BY <2>1 DEF Slots
<1>2. TypeOK
  BY <1>1, Words, ReqdumpAssumption DEF Init, TypeOK, Slots, Sessions
<1>3. Places
  BY Names DEF Init, Places, Tearing
<1>4. QED
  BY <1>2, <1>3 DEF Base

\* The steps of the program, one by one.
LEMMA Steps ==
  ASSUME [Next]_vars
  PROVE  \/ Accept \/ Get \/ GetNull \/ Build \/ BuildFails \/ Create \/ Reload
         \/ NextSlot \/ UNCHANGED vars
         \/ \E n \in Sessions : StartIo(n)
         \/ \E t \in Threads : Leave(t) \/ LoadExit(t) \/ StoreExit(t)
         \/ \E t \in Actors : \/ Check(t) \/ Lock(t) \/ Close(t) \/ Cancel(t)
                              \/ DieAsleep(t) \/ Release(t)
BY Names DEF Next, AcceptThread, Cleanup, Teardown

LEMMA SlotOfActive ==
  ASSUME Base, NEW t \in Actors, pc[t] \notin {"none", "dead"}
  PROVE  SlotOf(t) \in Slots
BY Names DEF Base, TypeOK, Places, SlotOf

LEMMA TypeStep == Base /\ [Next]_vars => TypeOK'
<1> SUFFICES ASSUME Base, [Next]_vars PROVE TypeOK'
  OBVIOUS
<1> USE DEF Base, slots, threads, masters, Goto
<1>1. CASE Accept
  BY <1>1, Names, ReqdumpAssumption DEF Accept, TypeOK
<1>2. CASE Get
  <2>1. Head(freeList) \in Slots /\ Tail(freeList) \in Seq(Slots)
    BY <1>2, TakeFree DEF Get, TypeOK, ToSet
  <2>2. word' \in [Slots -> Word]
    BY <1>2, <2>1, Words, ZenonT(30) DEF Get, TypeOK, Opened
  <2>3. slot' \in [Sessions -> 0 .. NumSlots]
    BY <1>2, <2>1, Names DEF Get, TypeOK
  <2>4. QED
    BY <1>2, <2>1, <2>2, <2>3 DEF Get, TypeOK
<1>3. CASE GetNull
  BY <1>3, Names, ReqdumpAssumption DEF GetNull, TypeOK
<1>4. CASE Build
  BY <1>4, Names, ReqdumpAssumption DEF Build, TypeOK, Places
<1>5. CASE BuildFails
  BY <1>5, Names, ReqdumpAssumption DEF BuildFails, TypeOK
<1>6. CASE Create
  BY <1>6, Names, ReqdumpAssumption DEF Create, TypeOK, Places, Kinds
<1>7. CASE Reload
  BY <1>7, Names, ReqdumpAssumption DEF Reload, TypeOK, Slots
<1>8. CASE NextSlot
  <2>1. mainSlot' \in Slots
    BY <1>8, ReqdumpAssumption DEF NextSlot, TypeOK, Slots
  <2>2. pc' \in [Actors -> {"none", "run", "load", "store", "check", "lock", "close",
                            "cancel", "sleep", "next", "dead"}]
    BY <1>8 DEF NextSlot, TypeOK
  <2>3. QED
    BY <1>8, <2>1, <2>2 DEF NextSlot, TypeOK
<1>9. CASE UNCHANGED vars
  BY <1>9 DEF vars, TypeOK
<1>10. ASSUME NEW n \in Sessions, StartIo(n) PROVE TypeOK'
  BY <1>10, Names DEF StartIo, TypeOK, Kinds
<1>11. ASSUME NEW t \in Actors, Check(t) PROVE TypeOK'
  BY <1>11, Names DEF Check, TypeOK, Finish
<1>12. ASSUME NEW t \in Actors, Lock(t) PROVE TypeOK'
  <2>1. CASE word[SlotOf(t)].open
    <3>1. word[SlotOf(t)] \in Word
      BY <1>12, SlotOfActive DEF Lock, TypeOK
    <3>2. QED
      BY <1>12, <2>1, <3>1 DEF Lock, TypeOK
  <2>2. CASE ~word[SlotOf(t)].open
    BY <1>12, <2>2 DEF Lock, TypeOK, Finish
  <2>3. QED
    BY <2>1, <2>2
<1>13. ASSUME NEW t \in Actors, Close(t) PROVE TypeOK'
  BY <1>13, Words DEF Close, TypeOK, Shut
<1>14. ASSUME NEW t \in Actors, Cancel(t) PROVE TypeOK'
  <2>1. ToCancel(SlotOf(t)) \subseteq Threads
    <3>1. SlotOf(t) \in Slots
      BY <1>14, SlotOfActive DEF Cancel
    <3>2. QED
      BY <3>1 DEF ToCancel, TypeOK, Threads, Sessions
  <2>2. QED
    BY <1>14, <2>1 DEF Cancel, TypeOK
<1>15. ASSUME NEW t \in Actors, DieAsleep(t) PROVE TypeOK'
  BY <1>15, Names DEF DieAsleep, TypeOK
<1>16. ASSUME NEW t \in Actors, Release(t) PROVE TypeOK'
  <2>1. SlotOf(t) \in Slots
    BY <1>16, SlotOfActive DEF Release
  <2>2. freeList' \in Seq(Slots)
    BY <1>16, <2>1, PutFree DEF Release, TypeOK
  <2>3. [k \in Kinds |-> 0] \in [Kinds -> 0 .. MaxSessions]
    BY ReqdumpAssumption
  <2>4. tid' \in [Slots -> [Kinds -> 0 .. MaxSessions]]
    BY <1>16, <2>3 DEF Release, TypeOK
  <2>5. word' \in [Slots -> Word]
    BY <1>16, Words DEF Release, TypeOK
  <2>6. QED
    BY <1>16, <2>2, <2>4, <2>5, ReqdumpAssumption DEF Release, TypeOK, Finish
<1>17. ASSUME NEW t \in Threads, Leave(t) PROVE TypeOK'
  BY <1>17, Names DEF Leave, TypeOK
<1>18. ASSUME NEW t \in Threads, LoadExit(t) PROVE TypeOK'
  BY <1>18, Names, SlotOfActive DEF LoadExit, TypeOK
<1>19. ASSUME NEW t \in Threads, StoreExit(t) PROVE TypeOK'
  <2>1. t \in Actors /\ t[2] \in Kinds /\ copy[t] \in Word
    BY Names DEF TypeOK
  <2>2. Exited(copy[t], t[2]) \in Word
    BY <2>1, Words
  <2>3. QED
    BY <1>19, <2>1, <2>2, Words DEF StoreExit, TypeOK, Exited
<1>20. QED
  BY Steps, <1>1, <1>2, <1>3, <1>4, <1>5, <1>6, <1>7, <1>8, <1>9, <1>10, <1>11, <1>12, <1>13, <1>14, <1>15, <1>16, <1>17, <1>18, <1>19

LEMMA PlacesStep == Base /\ [Next]_vars => Places'
<1> SUFFICES ASSUME Base, [Next]_vars PROVE Places'
  OBVIOUS
<1> USE DEF Base, slots, threads, masters, Goto, Tearing
<1>1. CASE Accept
  BY <1>1, Names, ReqdumpAssumption DEF Accept, TypeOK, Places, Sessions
<1>2. CASE Get
  BY <1>2, Names, ReqdumpAssumption DEF Get, TypeOK, Places, Sessions
<1>3. CASE GetNull
  BY <1>3, Names, ReqdumpAssumption DEF GetNull, TypeOK, Places, Sessions
<1>4. CASE Build
  BY <1>4, Names, ReqdumpAssumption DEF Build, TypeOK, Places, Sessions
<1>5. CASE BuildFails
  BY <1>5, Names, ReqdumpAssumption DEF BuildFails, TypeOK, Places, Sessions
<1>6. CASE Create
  <2>1. PICK t \in Threads : t = <<accepted, "dump">> /\ t[1] = accepted
    BY <1>6, Names DEF Create, Places, Kinds
  <2>2. pc' = [pc EXCEPT ![t] = "run"] /\ pc[t] = "none"
    BY <1>6, <2>1 DEF Create, Places
  <2>3. QED
    BY <1>6, <2>1, <2>2, Names DEF Create, TypeOK, Places
<1>7. CASE Reload
  BY <1>7, Names, ReqdumpAssumption DEF Reload, TypeOK, Places, Sessions
<1>8. CASE NextSlot
  <2>1. /\ \A t \in Actors : t # Main => pc'[t] = pc[t]
        /\ pc'[Main] \in {"check", "none"} /\ pc[Main] = "next" /\ mutex' = mutex
        /\ pc'[Main] = "check" => apc' = apc
        /\ apc' \in {apc, "accept"} /\ UNCHANGED <<slot, accepted>>
    BY <1>8, Names DEF NextSlot, TypeOK
  <2>2. /\ \A t \in Actors : pc'[t] \in Tearing => mutex' = t
        /\ \A t \in Threads : pc'[t] = pc[t]
    BY <2>1, Names DEF Places, Tearing
  <2>3. QED
    BY <2>1, <2>2 DEF Places
<1>9. CASE UNCHANGED vars
  BY <1>9 DEF vars, Places
<1>10. ASSUME NEW n \in Sessions, StartIo(n) PROVE Places'
  <2>1. PICK t \in Threads, u \in Threads :
               t = <<n, "io">> /\ u = <<n, "dump">> /\ t[1] = n /\ u[1] = n
    BY ThreadsOf
  <2>2. pc' = [pc EXCEPT ![t] = "run"] /\ pc[u] = "run"
    BY <1>10, <2>1 DEF StartIo
  <2>3. slot[n] \in Slots /\ apc' = apc /\ accepted' = accepted
    BY <1>10, <2>1, <2>2 DEF StartIo, Places
  <2>4. QED
    BY <1>10, <2>1, <2>2, <2>3, Names DEF StartIo, TypeOK, Places
<1>11. ASSUME NEW t \in Actors, Check(t) PROVE Places'
  <2>1. CASE word[SlotOf(t)].open
    BY <1>11, <2>1, Names, ZenonT(30) DEF Check, TypeOK, Places
  <2>2. CASE ~word[SlotOf(t)].open
    <3>1. CASE t = Main
      BY <1>11, <2>2, <3>1, Names DEF Check, TypeOK, Places, Finish
    <3>2. CASE t \in Threads
      <4>1. pc' = [pc EXCEPT ![t] = "dead"] /\ t # Main
        BY <1>11, <2>2, <3>2, Names DEF Check, Finish
      <4>2. QED
        BY <1>11, <2>2, <3>2, <4>1, Names DEF Check, TypeOK, Places
    <3>3. QED
      BY <3>1, <3>2, Names
  <2>3. QED
    BY <2>1, <2>2
<1>12. ASSUME NEW t \in Actors, Lock(t) PROVE Places'
  <2>1. CASE word[SlotOf(t)].open
    BY <1>12, <2>1, Names, ZenonT(30) DEF Lock, TypeOK, Places
  <2>2. CASE ~word[SlotOf(t)].open
    <3>1. CASE t = Main
      <4>1. /\ pc[Main] = "lock" /\ pc' = [pc EXCEPT ![Main] = "next"]
            /\ UNCHANGED <<mutex, slot, apc, accepted>>
        BY <1>12, <2>2, <3>1 DEF Lock, Finish
      <4>2. pc'[Main] = "next" /\ \A u \in Actors : u # Main => pc'[u] = pc[u]
        BY <4>1, Names DEF TypeOK
      <4>3. QED
        BY <4>1, <4>2, Names DEF Places, Tearing
    <3>2. CASE t \in Threads
      <4>1. pc' = [pc EXCEPT ![t] = "dead"] /\ t # Main
        BY <1>12, <2>2, <3>2, Names DEF Lock, Finish
      <4>2. QED
        BY <1>12, <2>2, <3>2, <4>1, Names DEF Lock, TypeOK, Places
    <3>3. QED
      BY <3>1, <3>2, Names
  <2>3. QED
    BY <2>1, <2>2
<1>13. ASSUME NEW t \in Actors, Close(t) PROVE Places'
  BY <1>13, Names DEF Close, TypeOK, Places
<1>14. ASSUME NEW t \in Actors, Cancel(t) PROVE Places'
  BY <1>14, Names DEF Cancel, TypeOK, Places
<1>15. ASSUME NEW t \in Actors, DieAsleep(t) PROVE Places'
  BY <1>15, Names DEF DieAsleep, TypeOK, Places
<1>16. ASSUME NEW t \in Actors, Release(t) PROVE Places'
  BY <1>16, Names DEF Release, TypeOK, Places, Finish
<1>17. ASSUME NEW t \in Threads, Leave(t) PROVE Places'
  BY <1>17, Names DEF Leave, TypeOK, Places
<1>18. ASSUME NEW t \in Threads, LoadExit(t) PROVE Places'
  BY <1>18, Names DEF LoadExit, TypeOK, Places
<1>19. ASSUME NEW t \in Threads, StoreExit(t) PROVE Places'
  BY <1>19, Names DEF StoreExit, TypeOK, Places
<1>20. QED
  BY Steps, <1>1, <1>2, <1>3, <1>4, <1>5, <1>6, <1>7, <1>8, <1>9, <1>10, <1>11, <1>12, <1>13, <1>14, <1>15, <1>16, <1>17, <1>18, <1>19

LEMMA BaseInvariant == Base /\ [Next]_vars => Base'
BY TypeStep, PlacesStep DEF Base

(* What holds as long as no teardown has gone wrong.                       *)

FreeSlots ==
  /\ IsInjective(freeList)
  /\ \A s \in ToSet(freeList) : word[s] = Closed /\ res[s] = 0

\* A slot that is not free is open or is being torn down, also after the
\* threads that are about to write the word back have done so.
Kept ==
  /\ \A s \in Slots \ ToSet(freeList) : word[s].open \/ InTeardown(s)
  /\ \A v \in Threads : pc[v] = "store" => copy[v].open \/ InTeardown(slot[v[1]])

Own == \A v \in Threads : pc[v] \in Active => res[slot[v[1]]] = v[1]

Building ==
  /\ apc = "build" => /\ slot[accepted] \notin ToSet(freeList)
                      /\ res[slot[accepted]] = 0
                      /\ word[slot[accepted]] = Opened(Closed)
  /\ apc = "create" => res[slot[accepted]] = accepted

\* io_thread and dump_thread name threads of the session that has the slot,
\* and every thread that runs is named.
Tids ==
  /\ \A s \in Slots, k \in Kinds : tid[s][k] # 0 =>
       slot[tid[s][k]] = s /\ res[s] = tid[s][k] /\ pc[<<tid[s][k], k>>] # "none"
  /\ \A v \in Threads : pc[v] = "run" => tid[slot[v[1]]][v[2]] = v[1]

\* Before a thread has set its exit bit the bit is clear, in the word and in
\* every copy of it.
Bits ==
  \A v \in Threads :
    /\ slot[v[1]] \in Slots /\ res[slot[v[1]]] = v[1]
    /\ pc[v] \in {"none", "run", "load", "store"}
    => /\ ~word[slot[v[1]]][v[2]]
       /\ \A u \in Actors : pc[u] \in {"store", "close"} /\ SlotOf(u) = slot[v[1]]
                              => ~copy[u][v[2]]

Holder ==
  mutex # Nobody =>
    pc[mutex] \in Tearing /\ SlotOf(mutex) \notin ToSet(freeList) /\ mutex \notin cancelled

\* A cancelled thread has lost its slot, or will within the ten seconds.
Cancels ==
  \A v \in cancelled :
    /\ pc[v] # "none"
    /\ \/ res[slot[v[1]]] # v[1]
       \/ mutex # v /\ InTeardown(slot[v[1]]) /\ pc[mutex] = "sleep"

\* During the ten seconds the threads of the slot that still run are all
\* cancelled, and a dump thread cannot start its io thread.
Doomed ==
  /\ mutex # Nobody /\ pc[mutex] = "sleep" =>
       \A v \in Threads : slot[v[1]] = SlotOf(mutex) /\ pc[v] = "run" => v \in cancelled
  /\ mutex # Nobody /\ pc[mutex] \in {"cancel", "sleep"} =>
       \A n \in Sessions :
         slot[n] = SlotOf(mutex) /\ pc[<<n, "dump">>] = "run" /\ pc[<<n, "io">>] = "none"
           => ~word[slot[n]].open

Strong ==
  FreeSlots /\ Kept /\ Own /\ Building /\ Tids /\ Bits /\ Holder /\ Cancels /\ Doomed

IInv == Base /\ (faults = {} => Strong)

LEMMA Named ==
  ASSUME Base, NEW s \in Slots, NEW k \in Kinds, tid[s][k] # 0
  PROVE  /\ tid[s][k] \in Sessions /\ <<tid[s][k], k>> \in Threads
         /\ <<tid[s][k], k>>[1] = tid[s][k] /\ <<tid[s][k], k>>[2] = k
<1>1. tid[s][k] \in 0 .. MaxSessions
  BY DEF Base, TypeOK
<1>2. tid[s][k] \in Sessions
  BY <1>1, ReqdumpAssumption DEF Sessions
<1>3. QED
  BY <1>2, Names

LEMMA GetStep ==
  ASSUME Base, Base', Strong, faults' = {}, Get
  PROVE  Strong'
<1> USE DEF slots, threads, masters, Strong, Base
<1> DEFINE h == Head(freeList)
<1>1. /\ h \in ToSet(freeList) /\ h \in Slots /\ freeList' = Tail(freeList)
      /\ IsInjective(freeList') /\ ToSet(freeList') = ToSet(freeList) \ {h}
      /\ word[h] = Closed /\ res[h] = 0
  <2>1. freeList \in Seq(Slots) /\ freeList # << >> /\ freeList' = Tail(freeList)
    BY DEF Get, TypeOK
  <2>2. IsInjective(freeList)
    BY DEF FreeSlots
  <2>3. QED
    BY <2>1, <2>2, TakeFree, OnFreeList DEF FreeSlots
<1>2. /\ word'[h] = Opened(Closed)
      /\ \A s \in Slots \ {h} : word'[s] = word[s]
      /\ \A s \in Slots : \A k \in Kinds : word'[s][k] = word[s][k]
      /\ \A s \in Slots : word[s].open => word'[s].open
  <2>1. word' = [word EXCEPT ![h] = Opened(word[h])] /\ word \in [Slots -> Word]
    BY DEF Get, TypeOK, Opened
  <2>2. word'[h] = Opened(Closed) /\ \A s \in Slots \ {h} : word'[s] = word[s]
    BY <1>1, <2>1
  <2>3. word'[h].open /\ \A k \in Kinds : word'[h][k] = word[h][k]
    BY <1>1, <2>2, Words
  <2>4. QED
    BY <1>1, <2>2, <2>3
<1>3. /\ slot'[accepted] = h /\ mutex = Nobody /\ mutex' = mutex /\ pc' = pc /\ copy' = copy
      /\ tid' = tid /\ res' = res /\ cancelled' = cancelled
      /\ \A v \in Threads : pc[v] # "none" => slot'[v[1]] = slot[v[1]] /\ v[1] # accepted
      /\ \A n \in Sessions \ {accepted} : slot'[n] = slot[n]
      /\ pc[Main] \in {"none", "dead"}
  BY Names DEF Get, TypeOK, Places
<1> HIDE DEF h
<1>4. FreeSlots'
  BY <1>1, <1>2, <1>3, OnFreeList DEF FreeSlots, TypeOK
<1>5. Kept'
  <2>1. \A s \in Slots \ ToSet(freeList') : word'[s].open
    <3>1. word'[h].open
      BY <1>2, Words
    <3>2. \A s \in Slots \ ToSet(freeList) : word[s].open
      BY <1>3 DEF Kept, InTeardown
    <3>3. QED
      BY <1>1, <1>2, <3>1, <3>2
  <2>2. \A v \in Threads : pc'[v] = "store" => copy'[v].open
    BY <1>3 DEF Kept, InTeardown
  <2>3. QED
    BY <2>1, <2>2 DEF Kept
<1>6. Own'
  BY <1>3, Names DEF Own, Active
<1>7. Building'
  BY <1>1, <1>2, <1>3 DEF Building, Get
<1>8. Tids'
  <2>1. ASSUME NEW s \in Slots, NEW k \in Kinds, tid'[s][k] # 0
        PROVE  slot'[tid[s][k]] = s /\ res'[s] = tid[s][k] /\ pc'[<<tid[s][k], k>>] # "none"
    <3>1. tid[s][k] \in Sessions
      BY <1>3, <2>1 DEF TypeOK, Sessions
    <3>2. PICK v \in Threads : v = <<tid[s][k], k>> /\ v[1] = tid[s][k]
      BY <3>1, Names
    <3>3. QED
      BY <1>3, <2>1, <3>2 DEF Tids
  <2>2. QED
    BY <1>3, <2>1 DEF Tids
<1>9. Bits'
  <2>1. SUFFICES ASSUME NEW v \in Threads, slot'[v[1]] \in Slots, res'[slot'[v[1]]] = v[1],
                        pc'[v] \in {"none", "run", "load", "store"}
                 PROVE  /\ ~word'[slot'[v[1]]][v[2]]
                        /\ \A u \in Actors :
                             pc'[u] \in {"store", "close"} /\ SlotOf(u)' = slot'[v[1]]
                               => ~copy'[u][v[2]]
    BY DEF Bits
  <2>2. v[1] # accepted /\ v[1] \in Sessions /\ v[2] \in Kinds
    BY <1>1, <1>3, <2>1, Names
  <2>3. \A u \in Actors : pc[u] \in {"store", "close"} => SlotOf(u)' = SlotOf(u)
    BY <1>3, Names DEF SlotOf
  <2>4. QED
    BY <1>2, <1>3, <2>1, <2>2, <2>3 DEF Bits
<1>10. Holder'
  BY <1>3 DEF Holder
<1>11. Cancels'
  BY <1>3, Names DEF Cancels, InTeardown, TypeOK
<1>12. Doomed'
  BY <1>3 DEF Doomed
<1>13. QED
  BY <1>4, <1>5, <1>6, <1>7, <1>8, <1>9, <1>10, <1>11, <1>12

LEMMA BuildStep ==
  ASSUME Base, Base', Strong, faults' = {}, Build
  PROVE  Strong'
<1> USE DEF slots, threads, masters, Goto, Strong, Base
<1>1. FreeSlots'
  BY Names
  DEF Build, Places, TypeOK, FreeSlots, InTeardown, SlotOf, Active, Tearing, Building
<1>2. Kept'
  BY Names
  DEF Build, Places, TypeOK, Kept, InTeardown, SlotOf, Active, Tearing
<1>3. Own'
  BY Names
  DEF Build, Places, TypeOK, Own, InTeardown, SlotOf, Active, Tearing, Building
<1>4. Building'
  BY Names
  DEF Build, Places, TypeOK, Building, InTeardown, SlotOf, Active, Tearing
<1>5. Tids'
  BY Names
  DEF Build, Places, TypeOK, Tids, InTeardown, SlotOf, Active, Tearing, Building
<1>6. Bits'
  <2>1. SUFFICES ASSUME NEW v \in Threads, slot[v[1]] \in Slots, res'[slot[v[1]]] = v[1],
                        pc[v] \in {"none", "run", "load", "store"}
                 PROVE  /\ ~word[slot[v[1]]][v[2]]
                        /\ \A u \in Actors :
                             pc[u] \in {"store", "close"} /\ SlotOf(u) = slot[v[1]]
                               => ~copy[u][v[2]]
    BY DEF Bits, Build, SlotOf
  <2>2. CASE slot[v[1]] # slot[accepted]
    BY <2>1, <2>2 DEF Build, TypeOK, Bits
  <2>3. CASE slot[v[1]] = slot[accepted]
    <3>1. ~Opened(Closed)[v[2]]
      BY Words, Names
    <3>2. \A u \in Actors : pc[u] \in {"store", "close"} => SlotOf(u) # slot[accepted]
      BY Names DEF Build, Building, Places, Own, Active, SlotOf
    <3>3. QED
      BY <2>3, <3>1, <3>2 DEF Build, Building
  <2>4. QED
    BY <2>2, <2>3
<1>7. Holder'
  BY Names
  DEF Build, Places, TypeOK, Holder, InTeardown, SlotOf, Active, Tearing
<1>8. Cancels'
  BY Names
  DEF Build, Places, TypeOK, Cancels, InTeardown, SlotOf, Active, Tearing, Building
<1>9. Doomed'
  BY Names
  DEF Build, Places, TypeOK, Doomed, InTeardown, SlotOf, Active, Tearing
<1>10. QED
  BY <1>1, <1>2, <1>3, <1>4, <1>5, <1>6, <1>7, <1>8, <1>9 DEF Strong

LEMMA CreateStep ==
  ASSUME Base, Base', Strong, faults' = {}, Create
  PROVE  Strong'
<1> USE DEF slots, threads, masters, Goto, Strong, Base
<1>1. FreeSlots'
  BY Names
  DEF Create, Places, TypeOK, FreeSlots, InTeardown, SlotOf, Active, Tearing
<1>2. Kept'
  BY Names
  DEF Create, Places, TypeOK, Kept, InTeardown, SlotOf, Active, Tearing
<1>3. Own'
  BY Names
  DEF Create, Places, TypeOK, Own, InTeardown, SlotOf, Active, Tearing, Building
<1>4. Building'
  BY Names
  DEF Create, Places, TypeOK, Building, InTeardown, SlotOf, Active, Tearing
<1>5. Tids'
  BY Names, SMTT(30)
  DEF Create, Places, TypeOK, Tids, InTeardown, SlotOf, Active, Tearing, Building, Own
<1>6. Bits'
  <2>1. PICK t \in Threads : t = <<accepted, "dump">> /\ pc[t] = "none" /\ pc' = [pc EXCEPT ![t] = "run"]
    BY Names DEF Create, Places, Kinds
  <2>2. \A v \in Actors : v # t => pc'[v] = pc[v]
    BY <2>1, Names DEF TypeOK
  <2>3. pc'[t] = "run"
    BY <2>1, Names DEF TypeOK
  <2>4. QED
    BY <2>1, <2>2, <2>3, Names DEF Create, Bits, SlotOf
<1>7. Holder'
  BY Names
  DEF Create, Places, TypeOK, Holder, InTeardown, SlotOf, Active, Tearing
<1>8. Cancels'
  BY Names
  DEF Create, Places, TypeOK, Cancels, InTeardown, SlotOf, Active, Tearing, Holder
<1>9. Doomed'
  BY Names, SMTT(30)
  DEF Create, Places, TypeOK, Doomed, InTeardown, SlotOf, Active, Tearing, Building, Own, Holder
<1>10. QED
  BY <1>1, <1>2, <1>3, <1>4, <1>5, <1>6, <1>7, <1>8, <1>9 DEF Strong

LEMMA StartIoStep ==
  ASSUME Base, Base', Strong, faults' = {}, faults = {}, NEW n \in Sessions, StartIo(n)
  PROVE  Strong'
<1> USE DEF slots, threads, masters, Goto, Strong, Base
<1>1. PICK t \in Threads, d \in Threads :
        /\ t = <<n, "io">> /\ d = <<n, "dump">> /\ t[1] = n /\ t[2] = "io" /\ d[1] = n
        /\ pc[t] = "none" /\ pc[d] = "run" /\ pc' = [pc EXCEPT ![t] = "run"] /\ t # d
        /\ word[slot[n]].open
  BY Names DEF StartIo, Kinds
<1>2. /\ res[slot[n]] = n /\ slot[n] \in Slots
  BY <1>1, Names DEF Own, Active, Places
<1>3. /\ pc'[t] = "run" /\ \A v \in Actors : v # t => pc'[v] = pc[v]
  BY <1>1, Names DEF TypeOK
<1>4. FreeSlots'
  BY <1>1, <1>2, <1>3, Names
  DEF StartIo, TypeOK, FreeSlots, InTeardown, SlotOf, Active, Tearing
<1>5. Kept'
  BY <1>1, <1>2, <1>3, Names
  DEF StartIo, TypeOK, Kept, InTeardown, SlotOf, Active, Tearing
<1>6. Own'
  BY <1>1, <1>2, <1>3, Names
  DEF StartIo, TypeOK, Own, InTeardown, SlotOf, Active, Tearing
<1>7. Building'
  BY <1>1, <1>2, <1>3, Names
  DEF StartIo, TypeOK, Building, InTeardown, SlotOf, Active, Tearing
<1>8. Tids'
  BY <1>1, <1>2, <1>3, Names, SMTT(30)
  DEF StartIo, TypeOK, Tids, InTeardown, SlotOf, Active, Tearing
<1>9. Bits'
  <2>1. word' = word /\ res' = res /\ copy' = copy /\ slot' = slot /\ mainSlot' = mainSlot
    BY DEF StartIo
  <2>2. \A v \in Threads : pc'[v] \in {"none", "run", "load", "store"}
                            => pc[v] \in {"none", "run", "load", "store"}
    BY <1>1, <1>3, Names
  <2>3. \A u \in Actors : /\ pc'[u] \in {"store", "close"} => pc'[u] = pc[u]
                          /\ SlotOf(u)' = SlotOf(u)
    BY <1>3, <2>1 DEF SlotOf
  <2>4. QED
    BY <2>1, <2>2, <2>3 DEF Bits
<1>10. Holder'
  BY <1>1, <1>2, <1>3, Names
  DEF StartIo, TypeOK, Holder, InTeardown, SlotOf, Active, Tearing
<1>11. Cancels'
  <2>1. mutex' = mutex /\ cancelled' = cancelled /\ res' = res /\ slot' = slot /\ mainSlot' = mainSlot
    BY DEF StartIo
  <2>2. \A v \in cancelled : v \in Actors /\ v # t
    BY <1>1, Names, ZenonT(30) DEF Cancels, TypeOK
  <2>3. mutex # Nobody /\ pc[mutex] = "sleep" => pc'[mutex] = "sleep"
    BY <1>1, <1>3, Names DEF TypeOK
  <2>4. QED
    BY <1>3, <2>1, <2>2, <2>3 DEF Cancels, InTeardown, SlotOf
<1>12. Doomed'
  BY <1>1, <1>2, <1>3, Names, SMTT(30)
  DEF StartIo, TypeOK, Doomed, InTeardown, SlotOf, Active, Tearing
<1>13. QED
  BY <1>4, <1>5, <1>6, <1>7, <1>8, <1>9, <1>10, <1>11, <1>12 DEF Strong

LEMMA GetNullStep ==
  ASSUME Base, Base', Strong, faults' = {}, GetNull
  PROVE  Strong'
<1> USE DEF slots, threads, masters, Goto, Strong, Base
<1>1. FreeSlots'
  BY Names
  DEF GetNull, Places, TypeOK, FreeSlots, InTeardown, SlotOf, Active, Tearing
<1>2. Kept'
  BY Names
  DEF GetNull, Places, TypeOK, Kept, InTeardown, SlotOf, Active, Tearing
<1>3. Own'
  BY Names
  DEF GetNull, Places, TypeOK, Own, InTeardown, SlotOf, Active, Tearing
<1>4. Building'
  BY Names
  DEF GetNull, Places, TypeOK, Building, InTeardown, SlotOf, Active, Tearing
<1>5. Tids'
  BY Named, Names DEF GetNull, TypeOK, Tids
<1>6. Bits'
  BY Names
  DEF GetNull, Places, TypeOK, Bits, InTeardown, SlotOf, Active, Tearing
<1>7. Holder'
  BY Names
  DEF GetNull, Places, TypeOK, Holder, InTeardown, SlotOf, Active, Tearing
<1>8. Cancels'
  BY Names
  DEF GetNull, Places, TypeOK, Cancels, InTeardown, SlotOf, Active, Tearing
<1>9. Doomed'
  BY Names
  DEF GetNull, Places, TypeOK, Doomed, InTeardown, SlotOf, Active, Tearing
<1>10. QED
  BY <1>1, <1>2, <1>3, <1>4, <1>5, <1>6, <1>7, <1>8, <1>9 DEF Strong

\* A step of the accept thread or of the main thread that touches no slot.
LEMMA QuietStep ==
  ASSUME Base, Base', Strong, UNCHANGED <<slots, copy, cancelled, slot>>,
         \A v \in Threads : pc'[v] = pc[v],
         \/ pc'[Main] = pc[Main] /\ mainSlot' = mainSlot
         \/ pc[Main] \in {"none", "next"} /\ pc'[Main] \in {"none", "check"},
         apc' \in {"build", "create"} => apc' = apc /\ accepted' = accepted
  PROVE  Strong'
<1> USE DEF slots, Strong, Base
<1>1. \A u \in Actors :
        /\ pc'[u] \in {"store", "close", "cancel", "sleep"} => pc'[u] = pc[u] /\ SlotOf(u)' = SlotOf(u)
        /\ pc[u] \in {"store", "close", "cancel", "sleep"} => pc'[u] = pc[u] /\ SlotOf(u)' = SlotOf(u)
  BY Names DEF SlotOf
<1>2. mutex # Nobody => mutex \in Actors /\ pc'[mutex] = pc[mutex] /\ SlotOf(mutex)' = SlotOf(mutex)
  BY <1>1 DEF Holder, Tearing, TypeOK
<1>3. \A s : InTeardown(s)' <=> InTeardown(s)
  BY <1>2 DEF InTeardown
<1>4. FreeSlots'
  BY DEF FreeSlots
<1>5. Kept'
  BY <1>3 DEF Kept
<1>6. Own'
  BY DEF Own
<1>7. Building'
  BY DEF Building
<1>8. Tids'
  BY Named DEF Tids
<1>9. Bits'
  BY <1>1 DEF Bits
<1>10. Holder'
  BY <1>2 DEF Holder
<1>11. Cancels'
  BY <1>2, <1>3 DEF Cancels, TypeOK, InTeardown
<1>12. Doomed'
  <2>1. \A n \in Sessions : <<n, "dump">> \in Threads /\ <<n, "io">> \in Threads
    BY Names DEF Kinds
  <2>2. QED
    BY <1>2, <2>1, Names DEF Doomed
<1>13. QED
  BY <1>4, <1>5, <1>6, <1>7, <1>8, <1>9, <1>10, <1>11, <1>12

LEMMA LeaveStep ==
  ASSUME Base, Base', Strong, faults' = {}, NEW t \in Threads, Leave(t)
  PROVE  Strong'
<1> USE DEF slots, masters, Strong, Base
<1>1. /\ t \in Actors /\ pc[t] = "run" /\ pc'[t] = "load"
      /\ \A v \in Actors : v # t => pc'[v] = pc[v]
      /\ cancelled' \subseteq cancelled /\ cancelled \ {t} \subseteq cancelled'
      /\ UNCHANGED <<mutex, freeList, word, res, tid, copy, slot, apc, accepted, mainSlot>>
  BY Names DEF Leave, Goto, TypeOK
<1>2. \A u \in Actors : SlotOf(u)' = SlotOf(u)
  BY <1>1 DEF SlotOf
<1>3. mutex # Nobody => mutex \in Actors /\ pc'[mutex] = pc[mutex] /\ SlotOf(mutex)' = SlotOf(mutex)
  BY <1>1, <1>2 DEF Holder, Tearing, TypeOK
<1>4. \A s : InTeardown(s)' <=> InTeardown(s)
  BY <1>1, <1>3 DEF InTeardown
<1>5. FreeSlots' /\ Building'
  BY <1>1 DEF FreeSlots, Building
<1>6. Kept'
  BY <1>1, <1>4, Names DEF Kept
<1>7. Own'
  BY <1>1, Names DEF Own, Active
<1>8. Tids'
  BY <1>1, Named, Names DEF Tids
<1>9. Bits'
  BY <1>1, <1>2, Names DEF Bits
<1>10. Holder'
  BY <1>1, <1>3 DEF Holder
<1>11. Cancels'
  BY <1>1, <1>3, <1>4, Names DEF Cancels, TypeOK, InTeardown
<1>12. Doomed'
  <2>1. \A n \in Sessions : <<n, "dump">> \in Actors /\ <<n, "io">> \in Actors
    BY Names DEF Kinds
  <2>2. QED
    BY <1>1, <1>3, <2>1, Names DEF Doomed
<1>13. QED
  BY <1>5, <1>6, <1>7, <1>8, <1>9, <1>10, <1>11, <1>12

LEMMA LoadExitStep ==
  ASSUME Base, Base', Strong, faults' = {}, NEW t \in Threads, LoadExit(t)
  PROVE  Strong'
<1> USE DEF slots, masters, Strong, Base
<1>1. /\ t \in Actors /\ pc[t] = "load" /\ pc'[t] = "store"
      /\ \A v \in Actors : v # t => pc'[v] = pc[v] /\ copy'[v] = copy[v]
      /\ copy'[t] = word[slot[t[1]]]
      /\ UNCHANGED <<mutex, freeList, word, res, tid, cancelled, slot, apc, accepted, mainSlot>>
  BY Names DEF LoadExit, Goto, TypeOK, SlotOf
<1>2. \A u \in Actors : SlotOf(u)' = SlotOf(u)
  BY <1>1 DEF SlotOf
<1>3. mutex # Nobody => mutex \in Actors /\ pc'[mutex] = pc[mutex] /\ SlotOf(mutex)' = SlotOf(mutex)
  BY <1>1, <1>2 DEF Holder, Tearing, TypeOK
<1>4. \A s : InTeardown(s)' <=> InTeardown(s)
  BY <1>1, <1>3 DEF InTeardown
<1>5. FreeSlots' /\ Building'
  BY <1>1 DEF FreeSlots, Building
<1>6. Kept'
  <2>1. res[slot[t[1]]] = t[1] /\ slot[t[1]] \in Slots
    BY <1>1 DEF Own, Active, Places
  <2>2. word[slot[t[1]]].open \/ InTeardown(slot[t[1]])
    BY <2>1, Names DEF FreeSlots, Kept
  <2>3. QED
    BY <1>1, <1>4, <2>2, Names DEF Kept
<1>7. Own'
  BY <1>1, Names DEF Own, Active
<1>8. Tids'
  BY <1>1, Named, Names DEF Tids
<1>9. Bits'
  <2>1. SUFFICES ASSUME NEW v \in Threads, slot[v[1]] \in Slots, res[slot[v[1]]] = v[1],
                        pc[v] \in {"none", "run", "load", "store"}
                 PROVE  /\ ~word[slot[v[1]]][v[2]]
                        /\ \A u \in Actors :
                             pc'[u] \in {"store", "close"} /\ SlotOf(u) = slot[v[1]]
                               => ~copy'[u][v[2]]
    BY <1>1, <1>2, Names DEF Bits
  <2>2. ~word[slot[v[1]]][v[2]]
    BY <2>1 DEF Bits
  <2>3. QED
    BY <1>1, <2>1, <2>2, Names DEF Bits, SlotOf
<1>10. Holder'
  BY <1>1, <1>3 DEF Holder
<1>11. Cancels'
  BY <1>1, <1>3, <1>4, Names DEF Cancels, TypeOK, InTeardown
<1>12. Doomed'
  <2>1. \A n \in Sessions : <<n, "dump">> \in Actors /\ <<n, "io">> \in Actors
    BY Names DEF Kinds
  <2>2. QED
    BY <1>1, <1>3, <2>1, Names DEF Doomed
<1>13. QED
  BY <1>5, <1>6, <1>7, <1>8, <1>9, <1>10, <1>11, <1>12

LEMMA StoreExitStep ==
  ASSUME Base, Base', Strong, faults' = {}, NEW t \in Threads, StoreExit(t)
  PROVE  Strong'
<1> USE DEF slots, masters, Strong, Base
<1> DEFINE s == slot[t[1]]
<1>1. /\ t \in Actors /\ pc[t] = "store" /\ pc'[t] = "check"
      /\ \A v \in Actors : v # t => pc'[v] = pc[v] /\ copy'[v] = copy[v]
      /\ word' = [word EXCEPT ![s] = Exited(copy[t], t[2])]
      /\ UNCHANGED <<mutex, freeList, res, tid, cancelled, slot, apc, accepted, mainSlot>>
  BY Names DEF StoreExit, Goto, TypeOK, SlotOf, Exited
<1>2. /\ s \in Slots /\ res[s] = t[1] /\ t[1] # 0 /\ s \notin ToSet(freeList)
  <2>1. s \in Slots /\ res[s] = t[1] /\ t[1] # 0
    BY <1>1, Names DEF Own, Active, Places
  <2>2. QED
    BY <2>1 DEF FreeSlots
<1>3. /\ word'[s] = Exited(copy[t], t[2]) /\ copy[t] \in Word /\ word'[s].open = copy[t].open
      /\ \A x \in Slots \ {s} : word'[x] = word[x]
      /\ \A k \in Kinds \ {t[2]} : word'[s][k] = copy[t][k]
  <2>1. /\ word'[s] = Exited(copy[t], t[2]) /\ copy[t] \in Word /\ t[2] \in Kinds
        /\ \A x \in Slots \ {s} : word'[x] = word[x]
    BY <1>1, <1>2, Names DEF TypeOK
  <2>2. QED
    BY <2>1, Words
<1> HIDE DEF s
<1>4. \A u \in Actors : SlotOf(u)' = SlotOf(u)
  BY <1>1 DEF SlotOf
<1>5. mutex # Nobody => mutex \in Actors /\ pc'[mutex] = pc[mutex] /\ SlotOf(mutex)' = SlotOf(mutex)
  BY <1>1, <1>4 DEF Holder, Tearing, TypeOK
<1>6. \A x : InTeardown(x)' <=> InTeardown(x)
  BY <1>1, <1>5 DEF InTeardown
<1>7. FreeSlots'
  BY <1>1, <1>2, <1>3, OnFreeList DEF FreeSlots, TypeOK
<1>8. Kept'
  <2>1. copy[t].open \/ InTeardown(s)
    BY <1>1 DEF Kept, s
  <2>2. ASSUME NEW x \in Slots \ ToSet(freeList') PROVE word'[x].open \/ InTeardown(x)'
    BY <1>1, <1>3, <1>6, <2>1, <2>2 DEF Kept
  <2>3. \A v \in Threads : pc'[v] = "store" => copy'[v].open \/ InTeardown(slot[v[1]])'
    BY <1>1, <1>6, Names DEF Kept
  <2>4. QED
    BY <2>2, <2>3 DEF Kept
<1>9. Own'
  BY <1>1, Names DEF Own, Active
<1>10. Building'
  BY <1>1, <1>2, <1>3 DEF Building, Places
<1>11. Tids'
  BY <1>1, Named, Names DEF Tids
<1>12. Bits'
  <2>1. SUFFICES ASSUME NEW v \in Threads, slot[v[1]] \in Slots, res[slot[v[1]]] = v[1],
                        pc'[v] \in {"none", "run", "load", "store"}
                 PROVE  /\ ~word'[slot[v[1]]][v[2]]
                        /\ \A u \in Actors :
                             pc'[u] \in {"store", "close"} /\ SlotOf(u) = slot[v[1]]
                               => ~copy'[u][v[2]]
    BY <1>1, <1>4 DEF Bits
  <2>2. v # t /\ v \in Actors /\ pc'[v] = pc[v]
    BY <1>1, <2>1, Names
  <2>3. \A u \in Actors : pc'[u] \in {"store", "close"} => u # t
    BY <1>1
  <2>4. CASE slot[v[1]] # s
    BY <1>1, <1>3, <2>1, <2>2, <2>3, <2>4 DEF Bits
  <2>5. CASE slot[v[1]] = s
    <3>1. v[1] = t[1] /\ v[2] # t[2] /\ v[2] \in Kinds
      BY <1>2, <2>1, <2>2, <2>5, Names
    <3>2. SlotOf(t) = s
      BY Names DEF SlotOf, s
    <3>3. ~copy[t][v[2]]
      BY <1>1, <2>1, <2>2, <2>5, <3>2 DEF Bits
    <3>4. QED
      BY <1>1, <1>3, <2>1, <2>2, <2>3, <2>5, <3>1, <3>3 DEF Bits
  <2>6. QED
    BY <2>4, <2>5
<1>13. Holder'
  BY <1>1, <1>5 DEF Holder
<1>14. Cancels'
  BY <1>1, <1>5, <1>6, Names DEF Cancels, TypeOK, InTeardown
<1>15. Doomed'
  <2>1. \A v \in Threads : pc'[v] = "run" => pc[v] = "run"
    BY <1>1, Names
  <2>2. ASSUME NEW n \in Sessions, pc'[<<n, "dump">>] = "run", pc'[<<n, "io">>] = "none"
        PROVE  pc[<<n, "dump">>] = "run" /\ pc[<<n, "io">>] = "none" /\ slot[n] # s
    <3>1. PICK d \in Threads, i \in Threads :
                 d = <<n, "dump">> /\ i = <<n, "io">> /\ d[1] = n /\ i[1] = n
      BY ThreadsOf
    <3>2. pc[d] = "run" /\ pc[i] = "none" /\ d # t /\ i # t
      BY <1>1, <2>2, <3>1, Names
    <3>3. slot[n] \in Slots /\ res[slot[n]] = n
      BY <3>1, <3>2 DEF Own, Active, Places
    <3>4. slot[n] # s
      <4>1. SUFFICES ASSUME n = t[1] PROVE FALSE
        BY <1>2, <3>3
      <4>2. t = d \/ t = i
        BY <3>1, <4>1, Names DEF Kinds
      <4>3. QED
        BY <3>2, <4>2
    <3>5. QED
      BY <3>1, <3>2, <3>4
  <2>3. ASSUME mutex # Nobody, pc[mutex] \in {"cancel", "sleep"}, NEW n \in Sessions,
               slot[n] = SlotOf(mutex), pc'[<<n, "dump">>] = "run", pc'[<<n, "io">>] = "none"
        PROVE  ~word'[slot[n]].open
    <3>1. slot[n] \in Slots
      BY <1>1, <2>2, <2>3, Names DEF Places, Kinds
    <3>2. QED
      BY <1>3, <2>2, <2>3, <3>1 DEF Doomed
  <2>4. QED
    BY <1>1, <1>5, <2>1, <2>3 DEF Doomed
<1>16. QED
  BY <1>7, <1>8, <1>9, <1>10, <1>11, <1>12, <1>13, <1>14, <1>15

\* The check of open, and the second one when it is closed: the thread leaves.
LEMMA CheckStep ==
  ASSUME Base, Base', Strong, faults' = {}, NEW t \in Actors,
         Check(t) \/ (Lock(t) /\ ~word[SlotOf(t)].open)
  PROVE  Strong'
<1> USE DEF slots, masters, Strong, Base
<1>1. /\ pc[t] \in {"check", "lock"} /\ pc'[t] \in {"lock", "dead", "next"}
      /\ \A v \in Actors : v # t => pc'[v] = pc[v]
      /\ UNCHANGED <<mutex, freeList, word, res, tid, copy, cancelled, slot, apc, accepted, mainSlot>>
  BY Names DEF Check, Lock, Goto, Finish, TypeOK
<1>2. \A u \in Actors : SlotOf(u)' = SlotOf(u)
  BY <1>1 DEF SlotOf
<1>3. mutex # Nobody => mutex \in Actors /\ pc'[mutex] = pc[mutex] /\ SlotOf(mutex)' = SlotOf(mutex)
  BY <1>1, <1>2 DEF Holder, Tearing, TypeOK
<1>4. \A s : InTeardown(s)' <=> InTeardown(s)
  BY <1>1, <1>3 DEF InTeardown
<1>5. FreeSlots' /\ Building'
  BY <1>1 DEF FreeSlots, Building
<1>6. Kept'
  BY <1>1, <1>4, Names DEF Kept
<1>7. Own'
  BY <1>1, Names DEF Own, Active
<1>8. Tids'
  BY <1>1, Named, Names DEF Tids
<1>9. Bits'
  BY <1>1, <1>2, Names DEF Bits
<1>10. Holder'
  BY <1>1, <1>3 DEF Holder
<1>11. Cancels'
  BY <1>1, <1>3, <1>4, Names DEF Cancels, TypeOK, InTeardown
<1>12. Doomed'
  <2>1. \A n \in Sessions : <<n, "dump">> \in Actors /\ <<n, "io">> \in Actors
    BY Names DEF Kinds
  <2>2. QED
    BY <1>1, <1>3, <2>1, Names DEF Doomed
<1>13. QED
  BY <1>5, <1>6, <1>7, <1>8, <1>9, <1>10, <1>11, <1>12

\* The second check of open, when it is open: the thread holds the mutex.
LEMMA LockStep ==
  ASSUME Base, Base', Strong, faults' = {}, NEW t \in Actors, Lock(t), word[SlotOf(t)].open
  PROVE  Strong'
<1> USE DEF slots, masters, Strong, Base
<1> DEFINE s == SlotOf(t)
<1>1. /\ t # Nobody /\ mutex = Nobody /\ mutex' = t
      /\ pc[t] = "lock" /\ pc'[t] = "close" /\ copy'[t] = word[s]
      /\ \A v \in Actors : v # t => pc'[v] = pc[v] /\ copy'[v] = copy[v]
      /\ UNCHANGED <<freeList, word, res, tid, cancelled, slot, apc, accepted, mainSlot>>
      /\ t = Main \/ res[s] = t[1]
  BY Names, ZenonT(30) DEF Lock, Goto, TypeOK
<1>2. s \in Slots /\ s \notin ToSet(freeList)
  <2>1. s \in Slots
    BY <1>1, SlotOfActive
  <2>2. QED
    BY <2>1, Words DEF FreeSlots
<1>3. \A u \in Actors : SlotOf(u)' = SlotOf(u)
  BY <1>1 DEF SlotOf
<1>4. t \notin cancelled
  <2>1. t \in cancelled => res[slot[t[1]]] # t[1]
    BY <1>1 DEF Cancels, InTeardown
  <2>2. QED
    BY <1>1, <2>1, Names DEF SlotOf, TypeOK
<1> HIDE DEF s
<1>5. FreeSlots' /\ Building'
  BY <1>1 DEF FreeSlots, Building
<1>6. Kept'
  BY <1>1, Names DEF Kept, InTeardown
<1>7. Own'
  <2>1. t \in Threads => SlotOf(t) = slot[t[1]] /\ t # Main
    BY Names DEF SlotOf
  <2>2. QED
    BY <1>1, <2>1, Names DEF Own, Active, s
<1>8. Tids'
  BY <1>1, Named, Names DEF Tids
<1>9. Bits'
  <2>1. SUFFICES ASSUME NEW v \in Threads, slot[v[1]] \in Slots, res[slot[v[1]]] = v[1],
                        pc'[v] \in {"none", "run", "load", "store"}
                 PROVE  /\ ~word[slot[v[1]]][v[2]]
                        /\ \A u \in Actors :
                             pc'[u] \in {"store", "close"} /\ SlotOf(u) = slot[v[1]]
                               => ~copy'[u][v[2]]
    BY <1>1, <1>3 DEF Bits
  <2>2. pc'[v] = pc[v]
    BY <1>1, <2>1, Names
  <2>3. ~word[slot[v[1]]][v[2]]
    BY <2>1, <2>2 DEF Bits
  <2>4. QED
    BY <1>1, <2>1, <2>2, <2>3 DEF Bits, s
<1>10. Holder'
  BY <1>1, <1>2, <1>3, <1>4 DEF Holder, Tearing, s
<1>11. Cancels'
  BY <1>1, Names DEF Cancels, TypeOK, InTeardown
<1>12. Doomed'
  BY <1>1 DEF Doomed
<1>13. QED
  BY <1>5, <1>6, <1>7, <1>8, <1>9, <1>10, <1>11, <1>12

LEMMA CloseStep ==
  ASSUME Base, Base', Strong, faults' = {}, NEW t \in Actors, Close(t)
  PROVE  Strong'
<1> USE DEF slots, masters, Strong, Base
<1> DEFINE s == SlotOf(t)
<1>1. /\ t # Nobody /\ mutex = t /\ mutex' = t
      /\ pc[t] = "close" /\ pc'[t] = "cancel"
      /\ \A v \in Actors : v # t => pc'[v] = pc[v] /\ copy'[v] = copy[v]
      /\ word' = [word EXCEPT ![s] = Shut(copy[t])]
      /\ UNCHANGED <<freeList, res, tid, cancelled, slot, apc, accepted, mainSlot>>
  BY Names DEF Close, Goto, TypeOK, Shut, Places, Tearing
<1>2. /\ s \in Slots /\ s \notin ToSet(freeList)
      /\ t \in Threads => s = slot[t[1]] /\ res[s] = t[1] /\ t[1] # 0
      /\ t = Main => apc = "stopped"
  BY <1>1, SlotOfActive, Names DEF Holder, Own, Active, SlotOf, Places
<1>3. /\ ~word'[s].open
      /\ \A x \in Slots \ {s} : word'[x] = word[x]
      /\ \A k \in Kinds : word'[s][k] = copy[t][k]
  <2>1. /\ word'[s] = Shut(copy[t]) /\ copy[t] \in Word
        /\ \A x \in Slots \ {s} : word'[x] = word[x]
    BY <1>1, <1>2 DEF TypeOK
  <2>2. QED
    BY <2>1, Words
<1>4. \A u \in Actors : SlotOf(u)' = SlotOf(u)
  BY <1>1 DEF SlotOf
<1>5. \A x : InTeardown(x)' <=> InTeardown(x)
  BY <1>1, <1>4 DEF InTeardown
<1>6. InTeardown(s)
  BY <1>1 DEF InTeardown
<1> HIDE DEF s
<1>7. FreeSlots'
  BY <1>1, <1>2, <1>3, OnFreeList DEF FreeSlots, TypeOK
<1>8. Kept'
  BY <1>1, <1>3, <1>5, <1>6, Names DEF Kept
<1>9. Own'
  BY <1>1, Names DEF Own, Active
<1>10. Building'
  <2>1. apc = "build" => slot[accepted] # s /\ slot[accepted] \in Slots
    BY <1>2, Names DEF Building, Places
  <2>2. QED
    BY <1>1, <1>3, <2>1 DEF Building
<1>11. Tids'
  BY <1>1, Named, Names DEF Tids
<1>12. Bits'
  <2>1. SUFFICES ASSUME NEW v \in Threads, slot[v[1]] \in Slots, res[slot[v[1]]] = v[1],
                        pc'[v] \in {"none", "run", "load", "store"}
                 PROVE  /\ ~word'[slot[v[1]]][v[2]]
                        /\ \A u \in Actors :
                             pc'[u] \in {"store", "close"} /\ SlotOf(u) = slot[v[1]]
                               => ~copy'[u][v[2]]
    BY <1>1, <1>4 DEF Bits
  <2>2. pc'[v] = pc[v]
    BY <1>1, <2>1, Names
  <2>3. slot[v[1]] = s => ~copy[t][v[2]]
    BY <1>1, <2>1, <2>2 DEF Bits, s
  <2>4. ~word'[slot[v[1]]][v[2]]
    BY <1>3, <2>1, <2>2, <2>3, Names DEF Bits
  <2>5. QED
    BY <1>1, <2>1, <2>2, <2>4 DEF Bits
<1>13. Holder'
  BY <1>1, <1>4 DEF Holder, Tearing
<1>14. Cancels'
  BY <1>1, Names DEF Cancels, TypeOK, InTeardown
<1>15. Doomed'
  BY <1>1, <1>3, <1>4 DEF Doomed, s
<1>16. QED
  BY <1>7, <1>8, <1>9, <1>10, <1>11, <1>12, <1>13, <1>14, <1>15

LEMMA CancelStep ==
  ASSUME Base, Base', Strong, faults' = {}, NEW t \in Actors, Cancel(t)
  PROVE  Strong'
<1> USE DEF slots, masters, Strong, Base
<1> DEFINE s == SlotOf(t)
<1>1. /\ t # Nobody /\ mutex = t /\ mutex' = t
      /\ pc[t] = "cancel" /\ pc'[t] = "sleep"
      /\ \A v \in Actors : v # t => pc'[v] = pc[v]
      /\ cancelled' = cancelled \cup ToCancel(s) /\ t \notin ToCancel(s)
      /\ UNCHANGED <<freeList, word, res, tid, copy, slot, apc, accepted, mainSlot>>
  BY Names DEF Cancel, Goto, TypeOK, Places, Tearing
<1>2. s \in Slots
  BY <1>1, SlotOfActive
<1>3. \A u \in Actors : SlotOf(u)' = SlotOf(u)
  BY <1>1 DEF SlotOf
<1>4. \A x : InTeardown(x)' <=> InTeardown(x)
  BY <1>1, <1>3 DEF InTeardown
<1>5. InTeardown(s)
  BY <1>1 DEF InTeardown
<1>6. \A v \in ToCancel(s) : v \in Threads /\ pc[v] # "none" /\ slot[v[1]] = s
  BY <1>2, Named DEF ToCancel, Tids
<1>7. \A v \in Threads : slot[v[1]] = s /\ pc[v] = "run" => v \in ToCancel(s)
  <2>1. SUFFICES ASSUME NEW v \in Threads, slot[v[1]] = s, pc[v] = "run" PROVE v \in ToCancel(s)
    OBVIOUS
  <2>2. tid[s][v[2]] = v[1] /\ v[1] # 0 /\ v[2] \in Kinds /\ v = <<v[1], v[2]>>
    BY <2>1, Names DEF Tids
  <2>3. ~word[s][v[2]]
    BY <1>2, <2>1 DEF Own, Active, Bits
  <2>4. QED
    BY <2>2, <2>3 DEF ToCancel
<1> HIDE DEF s
<1>8. FreeSlots' /\ Building'
  BY <1>1 DEF FreeSlots, Building
<1>9. Kept'
  BY <1>1, <1>4, Names DEF Kept
<1>10. Own'
  BY <1>1, Names DEF Own, Active
<1>11. Tids'
  BY <1>1, Named, Names DEF Tids
<1>12. Bits'
  BY <1>1, <1>3, Names DEF Bits
<1>13. Holder'
  BY <1>1, <1>3 DEF Holder, Tearing
<1>14. Cancels'
  <2>1. SUFFICES ASSUME NEW v \in cancelled'
                 PROVE  /\ pc'[v] # "none"
                        /\ res[slot[v[1]]] # v[1] \/ (mutex # v /\ InTeardown(slot[v[1]]))
    BY <1>1, <1>4 DEF Cancels
  <2>2. CASE v \in cancelled
    BY <1>1, <2>2, Names DEF Cancels, TypeOK
  <2>3. CASE v \in ToCancel(s)
    BY <1>1, <1>5, <1>6, <2>3, Names
  <2>4. QED
    BY <1>1, <2>2, <2>3
<1>15. Doomed'
  <2>1. \A v \in Threads : slot[v[1]] = s /\ pc'[v] = "run" => v \in cancelled'
    BY <1>1, <1>7, Names
  <2>2. \A n \in Sessions : <<n, "dump">> \in Actors /\ <<n, "io">> \in Actors
    BY Names DEF Kinds
  <2>3. QED
    BY <1>1, <1>3, <2>1, <2>2, Names DEF Doomed, s
<1>16. QED
  BY <1>8, <1>9, <1>10, <1>11, <1>12, <1>13, <1>14, <1>15

LEMMA ReleaseStep ==
  ASSUME Base, Base', Strong, faults' = {}, NEW t \in Actors, Release(t)
  PROVE  Strong'
<1> USE DEF slots, masters, Strong, Base
<1> DEFINE s == SlotOf(t)
<1>1. /\ t # Nobody /\ mutex = t /\ mutex' = Nobody
      /\ pc[t] = "sleep" /\ pc'[t] \in {"next", "dead"}
      /\ \A v \in Actors : v # t => pc'[v] = pc[v]
      /\ freeList' = <<s>> \o freeList
      /\ word' = [word EXCEPT ![s] = Closed] /\ res' = [res EXCEPT ![s] = 0]
      /\ tid' = [tid EXCEPT ![s] = [k \in Kinds |-> 0]]
      /\ Lingering(t, s) = {}
      /\ UNCHANGED <<copy, cancelled, slot, apc, accepted, mainSlot>>
  BY Names, ZenonT(30) DEF Release, Finish, Goto, TypeOK, Places, Tearing
<1>2. /\ s \in Slots /\ s \notin ToSet(freeList)
      /\ t \in Threads => s = slot[t[1]] /\ res[s] = t[1] /\ t[1] # 0
      /\ t = Main => apc = "stopped"
  BY <1>1, SlotOfActive, Names DEF Holder, Own, Active, SlotOf, Places
<1>3. /\ word'[s] = Closed /\ res'[s] = 0 /\ \A k \in Kinds : tid'[s][k] = 0
      /\ \A x \in Slots \ {s} : word'[x] = word[x] /\ res'[x] = res[x] /\ tid'[x] = tid[x]
      /\ \A x : x # s => res'[x] = res[x]
  BY <1>1, <1>2 DEF TypeOK
<1>4. \A u \in Actors : SlotOf(u)' = SlotOf(u)
  BY <1>1 DEF SlotOf
<1>5. \A x : InTeardown(x) <=> x = s
  BY <1>1 DEF InTeardown
<1>6. \A v \in Threads : v # t /\ pc[v] \in Active => slot[v[1]] # s
  <2>1. SUFFICES ASSUME NEW v \in Threads, v # t, pc[v] \in Active, slot[v[1]] = s PROVE FALSE
    OBVIOUS
  <2>2. pc[v] \notin Tearing
    BY <1>1, <2>1, Names DEF Places
  <2>3. pc[v] = "run" => v \in cancelled
    BY <1>1, <2>1 DEF Doomed
  <2>4. v \in Lingering(t, s)
    BY <2>1, <2>2, <2>3 DEF Lingering, Active, Tearing
  <2>5. QED
    BY <1>1, <2>4
<1> HIDE DEF s
<1>7. FreeSlots'
  <2>1. IsInjective(freeList') /\ ToSet(freeList') = ToSet(freeList) \cup {s}
    BY <1>1, <1>2, PutFree DEF FreeSlots, TypeOK
  <2>2. QED
    BY <1>2, <1>3, <2>1, OnFreeList DEF FreeSlots, TypeOK
<1>8. Kept'
  <2>1. ToSet(freeList') = ToSet(freeList) \cup {s}
    BY <1>1, <1>2, PutFree DEF FreeSlots, TypeOK
  <2>2. \A x \in Slots \ ToSet(freeList') : word'[x].open
    BY <1>3, <1>5, <2>1 DEF Kept
  <2>3. \A v \in Threads : pc'[v] = "store" => copy[v].open
    BY <1>1, <1>5, <1>6, Names DEF Kept, Active
  <2>4. QED
    BY <1>1, <2>2, <2>3 DEF Kept
<1>9. Own'
  BY <1>1, <1>3, <1>6, Names DEF Own, Active
<1>10. Building'
  <2>1. apc \in {"build", "create"} => slot[accepted] # s /\ slot[accepted] \in Slots
    BY <1>1, <1>2, Names DEF Building, Places
  <2>2. apc = "build" => slot[accepted] \notin ToSet(freeList')
    BY <1>1, <1>2, <2>1, PutFree DEF Building, TypeOK
  <2>3. QED
    BY <1>1, <1>3, <2>1, <2>2 DEF Building
<1>11. Tids'
  <2>1. ASSUME NEW x \in Slots, NEW k \in Kinds, tid'[x][k] # 0
        PROVE  slot[tid'[x][k]] = x /\ res'[x] = tid'[x][k] /\ pc'[<<tid'[x][k], k>>] # "none"
    <3>1. x # s /\ tid'[x][k] = tid[x][k] /\ res'[x] = res[x]
      BY <1>3, <2>1
    <3>2. PICK v \in Threads : v = <<tid[x][k], k>>
      BY <2>1, <3>1, Named
    <3>3. slot[tid[x][k]] = x /\ res[x] = tid[x][k] /\ pc[v] # "none"
      BY <2>1, <3>1, <3>2 DEF Tids
    <3>4. pc'[v] # "none"
      BY <1>1, <3>3, Names
    <3>5. QED
      BY <3>1, <3>2, <3>3, <3>4
  <2>2. \A v \in Threads : pc'[v] = "run" => pc[v] = "run" /\ slot[v[1]] # s /\ slot[v[1]] \in Slots
    BY <1>1, <1>6, Names DEF Active, Places
  <2>3. QED
    BY <1>1, <1>3, <2>1, <2>2 DEF Tids
<1>12. Bits'
  <2>1. SUFFICES ASSUME NEW v \in Threads, slot[v[1]] \in Slots, res'[slot[v[1]]] = v[1],
                        pc'[v] \in {"none", "run", "load", "store"}
                 PROVE  /\ ~word'[slot[v[1]]][v[2]]
                        /\ \A u \in Actors :
                             pc'[u] \in {"store", "close"} /\ SlotOf(u) = slot[v[1]]
                               => ~copy[u][v[2]]
    BY <1>1, <1>4 DEF Bits
  <2>2. pc'[v] = pc[v] /\ slot[v[1]] # s
    BY <1>1, <1>3, <2>1, Names
  <2>3. QED
    BY <1>1, <1>3, <2>1, <2>2 DEF Bits
<1>13. Holder'
  BY <1>1 DEF Holder
<1>14. Cancels'
  BY <1>1, <1>2, <1>3, <1>5, Names DEF Cancels, TypeOK
<1>15. Doomed'
  BY <1>1 DEF Doomed
<1>16. QED
  BY <1>7, <1>8, <1>9, <1>10, <1>11, <1>12, <1>13, <1>14, <1>15

LEMMA StrongStep ==
  ASSUME Base, Base', Strong, faults = {}, faults' = {}, [Next]_vars
  PROVE  Strong'
<1> USE DEF slots, threads, masters
<1>1. CASE Accept
  BY <1>1, QuietStep DEF Accept
<1>2. CASE Get
  BY <1>2, GetStep
<1>3. CASE GetNull
  BY <1>3, GetNullStep
<1>4. CASE Build
  BY <1>4, BuildStep
<1>5. CASE BuildFails
  BY <1>5, QuietStep DEF BuildFails
<1>6. CASE Create
  BY <1>6, CreateStep
<1>7. CASE Reload
  <2>1. /\ \A v \in Threads : pc'[v] = pc[v]
        /\ pc[Main] = "none" /\ pc'[Main] = "check" /\ apc' = "stopped"
    BY <1>7, Names DEF Reload, Goto, Base, TypeOK
  <2>2. QED
    BY <1>7, <2>1, QuietStep DEF Reload
<1>8. CASE NextSlot
  <2>1. /\ \A v \in Threads : pc'[v] = pc[v]
        /\ pc[Main] = "next" /\ pc'[Main] \in {"none", "check"}
    BY <1>8, Names DEF NextSlot, Goto, Base, TypeOK
  <2>2. apc' \notin {"build", "create"}
    BY <1>8, <2>1 DEF NextSlot, Base, Places
  <2>3. QED
    BY <1>8, <2>1, <2>2, QuietStep DEF NextSlot
<1>9. CASE UNCHANGED vars
  BY <1>9, QuietStep DEF vars
<1>10. ASSUME NEW n \in Sessions, StartIo(n) PROVE Strong'
  BY <1>10, StartIoStep
<1>11. ASSUME NEW t \in Threads, Leave(t) \/ LoadExit(t) \/ StoreExit(t) PROVE Strong'
  BY <1>11, LeaveStep, LoadExitStep, StoreExitStep
<1>12. ASSUME NEW t \in Actors, Check(t) \/ Lock(t) PROVE Strong'
  BY <1>12, CheckStep, LockStep
<1>13. ASSUME NEW t \in Actors, Close(t) \/ Cancel(t) \/ Release(t) PROVE Strong'
  BY <1>13, CloseStep, CancelStep, ReleaseStep
<1>14. ASSUME NEW t \in Actors, DieAsleep(t) PROVE Strong'
  <2>1. pc[t] = "sleep" /\ t \in cancelled
    BY <1>14 DEF DieAsleep
  <2>2. mutex = t /\ t # Nobody
    BY <2>1, Names DEF Base, Places, Tearing
  <2>3. QED
    BY <2>1, <2>2 DEF Strong, Holder
<1>15. QED
  BY Steps, <1>1, <1>2, <1>3, <1>4, <1>5, <1>6, <1>7, <1>8, <1>9, <1>10, <1>11, <1>12,
     <1>13, <1>14

-----------------------------------------------------------------------------
(* The theorems.                                                           *)

\* What has gone wrong once has gone wrong for good.
LEMMA FaultsGrow == [Next]_vars => faults \subseteq faults'
BY Steps DEF Accept, Get, GetNull, Build, BuildFails, Create, Reload, NextSlot, vars, StartIo,
     Leave, LoadExit, StoreExit, Check, Lock, Close, Cancel, DieAsleep, Release

LEMMA InvInit == Init => IInv
<1> SUFFICES ASSUME Init PROVE Strong
  BY BaseInit DEF IInv
<1>1. IsInjective(freeList) /\ ToSet(freeList) = Slots
  BY DEF Init, IsInjective, ToSet
<1>2. FreeSlots /\ Kept
  BY <1>1, Names DEF Init, FreeSlots, Kept
<1>3. Own /\ Building /\ Holder /\ Cancels /\ Doomed
  BY Names DEF Init, Own, Active, Building, Holder, Cancels, Doomed
<1>4. Tids /\ Bits
  BY Names DEF Init, Tids, Bits
<1>5. QED
  BY <1>2, <1>3, <1>4 DEF Strong

LEMMA InvStep == IInv /\ [Next]_vars => IInv'
<1> SUFFICES ASSUME IInv, [Next]_vars PROVE IInv'
  OBVIOUS
<1>1. Base /\ Base'
  BY BaseInvariant DEF IInv
<1>2. ASSUME faults' = {} PROVE Strong'
  BY <1>1, <1>2, FaultsGrow, StrongStep DEF IInv
<1>3. QED
  BY <1>1, <1>2 DEF IInv

LEMMA Invariant == Spec => []IInv
<1>1. Init => IInv
  BY InvInit
<1>2. IInv /\ [Next]_vars => IInv'
  BY InvStep
<1>3. QED
  BY <1>1, <1>2, PTL DEF Spec

\* The slots of rd->data: whatever the threads do, as long as no teardown has
\* gone wrong each slot is once on the free list and out of use, or open, or
\* being torn down by the one that holds thr_mutex.
THEOREM SlotsPartitioned == Spec => []SlotsPartition
<1>1. IInv => SlotsPartition
  <2> SUFFICES ASSUME IInv PROVE SlotsPartition
    OBVIOUS
  <2>1. TypeOK
    BY DEF IInv, Base
  <2>2. ASSUME NEW n \in Sessions, Running(n), Strong, Base
        PROVE  slot[n] \in Slots /\ res[slot[n]] = n /\ n # 0
    <3>1. PICK v \in Threads : v[1] = n /\ pc[v] = "run"
      BY <2>2, Names DEF Running
    <3>2. QED
      BY <2>2, <3>1, Names DEF Base, Places, Strong, Own, Active
  <2>3. FreeListSound
    BY <2>2, Names DEF IInv, Strong, FreeSlots, FreeListSound
  <2>4. NoSlotLost
    BY DEF IInv, Strong, Kept, InTeardown, NoSlotLost
  <2>5. QED
    BY <2>1, <2>3, <2>4 DEF SlotsPartition
<1>2. QED
  BY Invariant, <1>1, PTL

\* A dump thread or an io thread of the master that runs finds the ring
\* buffer, the pool and the buffers of its own session in its slot: no
\* teardown has freed them and no later session has been given the slot,
\* unless one of the four faults has occurred.
THEOREM ThreadsRunOnOwn == Spec => []RunsOnOwn
<1>1. IInv => RunsOnOwn
  <2> SUFFICES ASSUME IInv, faults = {}, NEW n \in Sessions, Running(n) PROVE res[slot[n]] = n
    BY DEF RunsOnOwn
  <2>1. PICK v \in Threads : v[1] = n /\ pc[v] = "run"
    BY Names DEF Running
  <2>2. QED
    BY <2>1 DEF IInv, Strong, Own, Active
<1>2. QED
  BY Invariant, <1>1, PTL

\* thr_mutex excludes: two actors are never between its lock and its unlock
\* at the same time, and who is there holds it, whatever has gone wrong.
THEOREM TeardownsExclude ==
  Spec => [](\A t, u \in Actors : pc[t] \in Tearing /\ pc[u] \in Tearing => t = u /\ mutex = t)
<1>1. IInv => \A t, u \in Actors : pc[t] \in Tearing /\ pc[u] \in Tearing => t = u /\ mutex = t
  BY DEF IInv, Base, Places
<1>2. QED
  BY Invariant, <1>1, PTL
=============================================================================
