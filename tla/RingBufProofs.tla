--------------------------- MODULE RingBufProofs ---------------------------
(***************************************************************************)
(* Theorems about the ring buffer, for every number of slots, every width  *)
(* of the counters and every set of records.                               *)
(***************************************************************************)
EXTENDS RingBuf, SequenceTheorems, TLAPS

-----------------------------------------------------------------------------
(* Arithmetic of pointers and counters.                                    *)

\* The pointer wrap of rs_ringbuf_{get,set}_advance() stays inside the buffer
\* and is undone by PrevSlot.
LEMMA SlotArithmetic ==
  \A p \in Slots : /\ NextSlot(p) \in Slots
                   /\ PrevSlot(p) \in Slots
                   /\ PrevSlot(NextSlot(p)) = p
                   /\ NextSlot(PrevSlot(p)) = p
BY NumAssumption, SMT DEF Slots, NextSlot, PrevSlot

\* The unsigned difference wn - rn of rs_ringbuf_get() and rs_ringbuf_set()
\* counts records correctly across the wrap of either counter.
LEMMA CounterArithmetic ==
  ASSUME NEW w \in 0 .. Width - 1, NEW r \in 0 .. Width - 1
  PROVE  /\ Inc(w) \in 0 .. Width - 1
         /\ Diff(w, r) \in 0 .. Width - 1
         /\ Diff(w, r) < Width - 1 => Diff(Inc(w), r) = Diff(w, r) + 1
         /\ Diff(w, r) > 0 => Diff(w, Inc(r)) = Diff(w, r) - 1
BY WidthAssumption, NumAssumption, SMT DEF Inc, Diff

\* Between the two pointers the slots of waiting records are distinct, and the
\* slot after the last of them follows it.
LEMMA SlotOfFacts ==
  ASSUME TypeOK
  PROVE  /\ ReadBase \in Slots /\ WriteBase \in Slots
         /\ Used \in 0 .. Width - 1
         /\ \A j \in 0 .. Num : SlotOf(j) \in Slots
         /\ \A j \in 0 .. Num - 1 : NextSlot(SlotOf(j)) = SlotOf(j + 1)
         /\ \A i, j \in 0 .. Num - 1 : SlotOf(i) = SlotOf(j) => i = j
<1>1. ReadBase \in Slots /\ WriteBase \in Slots
  BY SlotArithmetic DEF TypeOK, ReadBase, WriteBase
<1>2. Used \in 0 .. Width - 1
  BY CounterArithmetic DEF TypeOK, Used
<1>3. QED
  BY <1>1, <1>2, NumAssumption, SMT DEF Slots, SlotOf, NextSlot

-----------------------------------------------------------------------------
(* Type correctness.                                                       *)

\* Every step of either thread keeps the counters, the pointers and the slots
\* of rs_ringbuf_t in range.
LEMMA TypeStep == TypeOK /\ [Next]_vars => TypeOK'
<1> SUFFICES ASSUME TypeOK, [Next]_vars PROVE TypeOK'
  OBVIOUS
<1> USE DEF TypeOK
<1>1. CASE SetOk
  BY <1>1 DEF SetOk
<1>2. CASE FreeOld
  BY <1>2 DEF FreeOld
<1>3. CASE Abandon
  BY <1>3 DEF Abandon
<1>4. CASE SetAdvancePtr
  BY <1>4, SlotArithmetic DEF SetAdvancePtr
<1>5. CASE SetAdvanceCnt
  BY <1>5, CounterArithmetic DEF SetAdvanceCnt
<1>6. ASSUME NEW x \in Items, Fill(x) PROVE TypeOK'
  BY <1>6 DEF Fill
<1>7. CASE GetOk
  BY <1>7 DEF GetOk
<1>8. CASE GetAdvancePtr
  BY <1>8, SlotArithmetic DEF GetAdvancePtr
<1>9. CASE GetAdvanceCnt
  BY <1>9, CounterArithmetic DEF GetAdvanceCnt
<1>10. CASE UNCHANGED vars
  BY <1>10 DEF vars
<1>11. QED
  BY <1>1, <1>2, <1>3, <1>4, <1>5, <1>6, <1>7, <1>8, <1>9, <1>10
     DEF Next, Producer, Consumer

\* rs_create_ringbuf() hands out a ring whose counters and pointers are in range.
LEMMA TypeInit == Init => TypeOK
BY NumAssumption, WidthAssumption DEF Init, TypeOK, Slots

\* The ring buffer's counters, pointers and slots always have their types.
THEOREM TypeCorrect == Spec => []TypeOK
BY TypeInit, TypeStep, PTL DEF Spec

-----------------------------------------------------------------------------
(* The ring invariant.  It ties the counters, which the threads test, to   *)
(* the pointers, which they use; RS_FULL and RS_EMPTY would mean nothing   *)
(* without it.                                                             *)

Inv == TypeOK /\ RingInv

\* The ring that rs_create_ringbuf() returns satisfies the ring invariant.
LEMMA RingInit == Init => RingInv
BY NumAssumption, SMT
   DEF Init, RingInv, CountersMatchPointers, AnswersStayTrue,
       PublishedAreFilled, Used, Diff, SlotOf, ReadBase, WriteBase, Slots

\* A step that leaves both bases and the counters alone, and no published slot
\* unfilled, keeps the ring invariant.
LEMMA RingFrame ==
  ASSUME Inv,
         Used' = Used, ReadBase' = ReadBase, WriteBase' = WriteBase,
         AnswersStayTrue',
         \A i \in Slots : i # WriteBase => slot'[i] = slot[i],
         slot'[WriteBase] = slot[WriteBase] \/ Used < Num,
         ppc' \in {"adv", "cnt"} => slot'[WriteBase] \in Items
  PROVE  RingInv'
<1>1. /\ \A j \in 0 .. Num : SlotOf(j) \in Slots
      /\ \A i, j \in 0 .. Num - 1 : SlotOf(i) = SlotOf(j) => i = j
      /\ Used \in 0 .. Width - 1
  BY SlotOfFacts DEF Inv
<1>2. ASSUME NEW j \in Int PROVE SlotOf(j)' = SlotOf(j)
  BY DEF SlotOf
<1>3. Used <= Num /\ WriteBase = SlotOf(Used)
  BY DEF Inv, RingInv, CountersMatchPointers
<1>4. CountersMatchPointers'
  BY <1>1, <1>3 DEF CountersMatchPointers, SlotOf
<1>5. ASSUME NEW j \in 0 .. Used - 1 PROVE slot'[SlotOf(j)] \in Items
  <2>1. slot[SlotOf(j)] \in Items
    BY DEF Inv, RingInv, PublishedAreFilled
  <2>2. SlotOf(j) \in Slots
    BY <1>1, <1>3, NumAssumption
  <2>3. CASE slot'[WriteBase] = slot[WriteBase]
    BY <2>1, <2>2, <2>3
  <2>4. CASE Used < Num
    <3>1. SlotOf(j) # WriteBase
      BY <1>1, <1>3, <2>4, NumAssumption
    <3>2. QED
      BY <2>1, <2>2, <3>1
  <2>5. QED
    BY <2>3, <2>4
<1>6. PublishedAreFilled'
  BY <1>1, <1>2, <1>5 DEF PublishedAreFilled
<1>7. QED
  BY <1>4, <1>6 DEF RingInv

\* Every step of either thread keeps the counters, the pointers and the chunks
\* in agreement.
LEMMA RingStep == Inv /\ [Next]_vars => RingInv'
<1> SUFFICES ASSUME Inv, [Next]_vars PROVE RingInv'
  OBVIOUS
<1>0. /\ TypeOK /\ TypeOK'
      /\ CountersMatchPointers /\ AnswersStayTrue /\ PublishedAreFilled
  BY TypeStep DEF Inv, RingInv
<1> USE DEF TypeOK
<1>1. CASE SetOk
  <2>1. Used \in 0 .. Width - 1 /\ Used <= Num /\ Used # Num
    BY <1>0, <1>1, SlotOfFacts DEF SetOk, Full, CountersMatchPointers, Used
  <2>2. Used' = Used /\ AnswersStayTrue'
    BY <1>0, <1>1, <2>1, NumAssumption DEF SetOk, AnswersStayTrue, Used
  <2>3. QED
    BY <1>0, <1>1, <2>2, RingFrame DEF SetOk, ReadBase, WriteBase
<1>2. CASE FreeOld
  <2>1. Used' = Used /\ Used < Num /\ AnswersStayTrue'
    BY <1>0, <1>2 DEF FreeOld, Used, AnswersStayTrue
  <2>2. ReadBase' = ReadBase /\ WriteBase' = WriteBase /\ WriteBase = wp
    BY <1>2 DEF FreeOld, ReadBase, WriteBase
  <2>3. QED
    BY <1>0, <1>2, <2>1, <2>2, RingFrame DEF FreeOld
<1>3. CASE Abandon
  <2>1. Used' = Used /\ AnswersStayTrue'
    BY <1>0, <1>3 DEF Abandon, Used, AnswersStayTrue
  <2>2. QED
    BY <1>0, <1>3, <2>1, RingFrame DEF Abandon, ReadBase, WriteBase
<1>4. CASE SetAdvancePtr
  <2>1. Used' = Used /\ AnswersStayTrue'
    BY <1>0, <1>4 DEF SetAdvancePtr, Used, AnswersStayTrue
  <2>2. ReadBase' = ReadBase /\ WriteBase' = WriteBase
    BY <1>0, <1>4, SlotArithmetic DEF SetAdvancePtr, ReadBase, WriteBase
  <2>3. slot[WriteBase] \in Items
    BY <1>0, <1>4 DEF SetAdvancePtr, PublishedAreFilled
  <2>4. QED
    BY <1>0, <1>4, <2>1, <2>2, <2>3, RingFrame DEF SetAdvancePtr
<1>5. CASE SetAdvanceCnt
  <2>1. Used < Num /\ Used \in 0 .. Width - 1
    BY <1>0, <1>5, SlotOfFacts DEF SetAdvanceCnt, AnswersStayTrue
  <2>2. Used' = Used + 1
    BY <1>0, <1>5, <2>1, CounterArithmetic, WidthAssumption, NumAssumption
       DEF SetAdvanceCnt, Used
  <2>3. ReadBase' = ReadBase /\ slot' = slot /\ rn' = rn
    BY <1>5 DEF SetAdvanceCnt, ReadBase
  <2>4. ASSUME NEW j \in Int PROVE SlotOf(j)' = SlotOf(j)
    BY <2>3 DEF SlotOf
  <2>5. WriteBase' = NextSlot(WriteBase) /\ ppc' = "set" /\ cpc' = cpc
    BY <1>0, <1>5, SlotArithmetic DEF SetAdvanceCnt, WriteBase
  <2>6. WriteBase' = SlotOf(Used)'
    <3>1. NextSlot(SlotOf(Used)) = SlotOf(Used + 1)
      BY <1>0, <2>1, SlotOfFacts, NumAssumption
    <3>2. WriteBase' = SlotOf(Used + 1)
      BY <1>0, <2>5, <3>1 DEF CountersMatchPointers
    <3>3. QED
      BY <2>2, <2>3, <3>2 DEF SlotOf
  <2>7. CountersMatchPointers'
    BY <2>1, <2>2, <2>6, NumAssumption, SMT DEF CountersMatchPointers
  <2>8. AnswersStayTrue'
    BY <1>0, <2>1, <2>2, <2>5, SMT DEF AnswersStayTrue
  <2>9. ASSUME NEW j \in 0 .. Used PROVE slot[SlotOf(j)] \in Items
    <3>1. CASE j = Used
      BY <1>0, <1>5, <3>1
         DEF SetAdvanceCnt, PublishedAreFilled, CountersMatchPointers
    <3>2. CASE j # Used
      BY <1>0, <2>1, <3>2, SMT DEF PublishedAreFilled
    <3>3. QED
      BY <3>1, <3>2
  <2>10. PublishedAreFilled'
    BY <2>1, <2>2, <2>3, <2>4, <2>5, <2>9 DEF PublishedAreFilled
  <2>11. QED
    BY <2>7, <2>8, <2>10 DEF RingInv
<1>6. ASSUME NEW x \in Items, Fill(x) PROVE RingInv'
  <2>1. Used' = Used /\ Used < Num /\ AnswersStayTrue'
    BY <1>0, <1>6 DEF Fill, Used, AnswersStayTrue
  <2>2. ReadBase' = ReadBase /\ WriteBase' = WriteBase /\ WriteBase = wp
    BY <1>6 DEF Fill, ReadBase, WriteBase
  <2>3. QED
    BY <1>0, <1>6, <2>1, <2>2, RingFrame DEF Fill
<1>7. CASE GetOk
  <2>1. Used \in 0 .. Width - 1
    BY <1>0, SlotOfFacts
  <2>2. Used' = Used /\ AnswersStayTrue'
    BY <1>0, <1>7, <2>1, SMT DEF GetOk, Empty, Used, AnswersStayTrue
  <2>3. QED
    BY <1>0, <1>7, <2>2, RingFrame DEF GetOk, ReadBase, WriteBase, PublishedAreFilled
<1>8. CASE GetAdvancePtr
  <2>1. Used' = Used /\ AnswersStayTrue'
    BY <1>0, <1>8 DEF GetAdvancePtr, Used, AnswersStayTrue
  <2>2. ReadBase' = ReadBase /\ WriteBase' = WriteBase
    BY <1>0, <1>8, SlotArithmetic DEF GetAdvancePtr, ReadBase, WriteBase
  <2>3. QED
    BY <1>0, <1>8, <2>1, <2>2, RingFrame DEF GetAdvancePtr, PublishedAreFilled
<1>9. CASE GetAdvanceCnt
  <2>1. Used > 0 /\ Used <= Num /\ Used \in 0 .. Width - 1
    BY <1>0, <1>9, SlotOfFacts
       DEF GetAdvanceCnt, AnswersStayTrue, CountersMatchPointers
  <2>2. Used' = Used - 1
    BY <1>0, <1>9, <2>1, CounterArithmetic DEF GetAdvanceCnt, Used
  <2>3. /\ ReadBase' = NextSlot(ReadBase) /\ WriteBase' = WriteBase
        /\ slot' = slot /\ ppc' = ppc /\ cpc' = "get"
    BY <1>0, <1>9, SlotArithmetic DEF GetAdvanceCnt, ReadBase, WriteBase
  <2>4. ASSUME NEW j \in 0 .. Num - 1 PROVE SlotOf(j)' = SlotOf(j + 1)
    <3>1. ReadBase \in Slots
      BY <1>0, SlotOfFacts
    <3>2. QED
      BY <2>3, <3>1, NumAssumption, SMT DEF SlotOf, NextSlot, Slots
  <2>5. CountersMatchPointers'
    <3>1. ReadBase \in Slots /\ WriteBase = SlotOf(Used)
      BY <1>0, SlotOfFacts DEF CountersMatchPointers
    <3>2. WriteBase' = SlotOf(Used)'
      BY <2>1, <2>2, <2>3, <3>1, NumAssumption, SMT
         DEF SlotOf, NextSlot, Slots
    <3>3. QED
      BY <2>1, <2>2, <3>2, NumAssumption DEF CountersMatchPointers
  <2>6. AnswersStayTrue'
    BY <1>0, <2>1, <2>2, <2>3, NumAssumption DEF AnswersStayTrue
  <2>7. PublishedAreFilled'
    <3>1. ASSUME NEW j \in 0 .. Used - 2 PROVE slot[SlotOf(j)'] \in Items
      <4>1. SlotOf(j)' = SlotOf(j + 1) /\ j + 1 \in 0 .. Used - 1
        BY <2>1, <2>4, NumAssumption
      <4>2. QED
        BY <1>0, <4>1 DEF PublishedAreFilled
    <3>2. QED
      BY <1>0, <2>1, <2>2, <2>3, <3>1 DEF PublishedAreFilled
  <2>8. QED
    BY <2>5, <2>6, <2>7 DEF RingInv
<1>10. CASE UNCHANGED vars
  BY <1>0, <1>10, RingFrame
     DEF vars, Used, ReadBase, WriteBase, AnswersStayTrue, PublishedAreFilled
<1>11. QED
  BY <1>1, <1>2, <1>3, <1>4, <1>5, <1>6, <1>7, <1>8, <1>9, <1>10
     DEF Next, Producer, Consumer

\* The type invariant and the ring invariant together are inductive: the steps
\* of both threads, in any interleaving, keep them.
LEMMA InvAlways == Spec => []Inv
<1>1. Init => Inv
  BY TypeInit, RingInit DEF Inv
<1>2. Inv /\ [Next]_vars => Inv'
  BY TypeStep, RingStep DEF Inv
<1>3. QED
  BY <1>1, <1>2, PTL DEF Spec

\* The counters the threads test always agree with the pointers they use, an
\* answer of rs_ringbuf_get() or rs_ringbuf_set() does not go stale, and every
\* published record is a filled chunk.
THEOREM RingInvariant == Spec => []RingInv
BY InvAlways, PTL DEF Inv

-----------------------------------------------------------------------------
(* What the two threads may rely on.                                       *)

\* The ring invariant keeps the slot being refilled apart from the slot being
\* read: rs_ringbuf_set() and rs_ringbuf_get() never return the same one.
LEMMA InvExclusive == Inv => SlotExclusive
<1> SUFFICES ASSUME Inv, ppc \in {"free", "fill", "adv"}, cpc = "use"
             PROVE  wp # rp
  BY DEF SlotExclusive
<1>1. TypeOK /\ 0 < Used /\ Used < Num /\ Used \in 0 .. Width - 1
  BY SlotOfFacts DEF Inv, RingInv, AnswersStayTrue
<1>2. wp = SlotOf(Used)
  BY DEF Inv, RingInv, CountersMatchPointers, WriteBase
<1>3. rp = SlotOf(0)
  BY <1>1, NumAssumption, SMT DEF SlotOf, ReadBase, TypeOK, Slots
<1>4. 0 \in 0 .. Num - 1 /\ Used \in 0 .. Num - 1
  BY <1>1, NumAssumption
<1>5. QED
  BY <1>1, <1>2, <1>3, <1>4, SlotOfFacts

\* The io thread never frees or refills the chunk the reading thread is using.
THEOREM Exclusion == Spec => []SlotExclusive
BY InvAlways, InvExclusive, PTL

\* What rs_ringbuf_get() returns is a filled chunk as long as it is used.
LEMMA InvReadFilled == Inv /\ cpc = "use" => slot[rp] \in Items
<1> SUFFICES ASSUME Inv, cpc = "use" PROVE slot[rp] \in Items
  OBVIOUS
<1>1. TypeOK /\ 0 < Used /\ Used \in 0 .. Width - 1
  BY SlotOfFacts DEF Inv, RingInv, AnswersStayTrue
<1>2. rp = SlotOf(0)
  BY <1>1, NumAssumption, SMT DEF SlotOf, ReadBase, TypeOK, Slots
<1>3. QED
  BY <1>1, <1>2 DEF Inv, RingInv, PublishedAreFilled

\* No step of the io thread touches the chunk that the consumer is reading.
LEMMA StableStep ==
  Inv /\ [Next]_vars =>
    [cpc = "use" => slot[rp] \in Items /\ slot'[rp] = slot[rp]]_vars
<1> SUFFICES ASSUME Inv, [Next]_vars, cpc = "use"
             PROVE  slot[rp] \in Items /\ slot'[rp] = slot[rp]
  OBVIOUS
<1>1. slot[rp] \in Items
  BY InvReadFilled
<1>2. TypeOK /\ SlotExclusive
  BY InvExclusive DEF Inv
<1>3. CASE FreeOld
  BY <1>1, <1>2, <1>3 DEF FreeOld, SlotExclusive, TypeOK
<1>4. ASSUME NEW x \in Items, Fill(x) PROVE slot'[rp] = slot[rp]
  BY <1>2, <1>4 DEF Fill, SlotExclusive, TypeOK
<1>5. CASE UNCHANGED slot
  BY <1>1, <1>5
<1>6. QED
  BY <1>1, <1>3, <1>4, <1>5
     DEF Next, Producer, Consumer, vars, SetOk, Abandon, SetAdvancePtr,
         SetAdvanceCnt, GetOk, GetAdvancePtr, GetAdvanceCnt

\* A record does not change from rs_ringbuf_get() to rs_ringbuf_get_advance().
THEOREM RecordStable == Spec => StableWhileRead
<1>1. Inv /\ [Next]_vars =>
        [cpc = "use" => slot[rp] \in Items /\ slot'[rp] = slot[rp]]_vars
  BY StableStep
<1>2. QED
  BY <1>1, InvAlways, PTL DEF Spec, StableWhileRead

-----------------------------------------------------------------------------
(* The ring buffer implements a bounded queue.                             *)

\* The records between the counters of rs_ringbuf_t form a queue of chunks.
LEMMA QueueFacts ==
  Inv => Queue \in Seq(Items) /\ Len(Queue) = Used /\ Used \in 0 .. Num
<1> SUFFICES ASSUME Inv
             PROVE  Queue \in Seq(Items) /\ Len(Queue) = Used /\ Used \in 0 .. Num
  OBVIOUS
<1>1. Used \in 0 .. Num
  BY SlotOfFacts DEF Inv, RingInv, CountersMatchPointers
<1>2. \A j \in 1 .. Used : slot[SlotOf(j - 1)] \in Items
  <2>1. ASSUME NEW j \in 1 .. Used PROVE j - 1 \in 0 .. Used - 1
    BY <1>1
  <2>2. QED
    BY <2>1 DEF Inv, RingInv, PublishedAreFilled
<1>3. QED
  BY <1>1, <1>2 DEF Queue

\* The same in the next state of a step of either thread.
LEMMA QueueFactsNext ==
  Inv' => (Queue \in Seq(Items) /\ Len(Queue) = Used /\ Used \in 0 .. Num)'
BY QueueFacts, PTL

\* The ring that rs_create_ringbuf() returns is an empty queue.
LEMMA QueueInit == Init => Fifo!Init
BY QueueFacts, TypeInit, RingInit, NumAssumption, WidthAssumption
   DEF Fifo!Init, Init, Inv, Queue, Used, Diff

\* The increment of wn in rs_ringbuf_set_advance() appends one record.
LEMMA QueuePut == Inv /\ Inv' /\ SetAdvanceCnt => \E x \in Items : Fifo!Put(x)
<1> SUFFICES ASSUME Inv, Inv', SetAdvanceCnt
             PROVE  \E x \in Items : Fifo!Put(x)
  OBVIOUS
<1> DEFINE x == slot[WriteBase]
<1>1. TypeOK /\ Used \in Nat /\ Used < Num
  BY QueueFacts, NumAssumption
     DEF SetAdvanceCnt, Inv, RingInv, AnswersStayTrue
<1>2. Used' = Used + 1
  BY <1>1, CounterArithmetic, WidthAssumption, NumAssumption
     DEF SetAdvanceCnt, Used, TypeOK
<1>3. slot' = slot /\ ReadBase' = ReadBase
  BY DEF SetAdvanceCnt, ReadBase
<1>4. \A j \in Int : SlotOf(j)' = SlotOf(j)
  BY <1>3 DEF SlotOf
<1>5. x \in Items /\ x = slot[SlotOf(Used)]
  BY DEF SetAdvanceCnt, Inv, RingInv, CountersMatchPointers, PublishedAreFilled
<1>6. Queue \in Seq(Items) /\ Len(Queue) = Used
  BY QueueFacts
<1>7. Queue' \in Seq(Items) /\ Len(Queue') = Used + 1
  BY <1>2, QueueFactsNext
<1>8. /\ Append(Queue, x) \in Seq(Items) /\ Len(Append(Queue, x)) = Used + 1
      /\ \A i \in 1 .. Used : Append(Queue, x)[i] = Queue[i]
      /\ Append(Queue, x)[Used + 1] = x
  BY <1>5, <1>6, AppendProperties
<1>9. ASSUME NEW i \in 1 .. Used + 1 PROVE Queue'[i] = Append(Queue, x)[i]
  <2>1. Queue'[i] = slot[SlotOf(i - 1)]
    BY <1>1, <1>2, <1>3, <1>4 DEF Queue
  <2>2. CASE i = Used + 1
    BY <1>1, <1>5, <1>8, <2>1, <2>2
  <2>3. CASE i \in 1 .. Used
    BY <1>1, <1>8, <2>1, <2>3 DEF Queue
  <2>4. QED
    <3>1. i = Used + 1 \/ i \in 1 .. Used
      BY <1>1
    <3>2. QED
      BY <2>2, <2>3, <3>1
<1>10. Queue' = Append(Queue, x)
  BY <1>7, <1>8, <1>9, SeqEqual
<1>11. QED
  <2>1. Fifo!Put(x)
    BY <1>1, <1>6, <1>10 DEF Fifo!Put
  <2>2. QED
    BY <1>5, <2>1

\* The increment of rn in rs_ringbuf_get_advance() removes the first record.
LEMMA QueueTake == Inv /\ Inv' /\ GetAdvanceCnt => Fifo!Take
<1> SUFFICES ASSUME Inv, Inv', GetAdvanceCnt PROVE Fifo!Take
  OBVIOUS
<1>1. TypeOK /\ Used \in 1 .. Num
  BY QueueFacts DEF GetAdvanceCnt, Inv, RingInv, AnswersStayTrue
<1>2. Used' = Used - 1
  BY <1>1, CounterArithmetic DEF GetAdvanceCnt, Used, TypeOK, Inv
<1>3. slot' = slot /\ ReadBase' = NextSlot(ReadBase) /\ ReadBase \in Slots
  BY <1>1, SlotArithmetic DEF GetAdvanceCnt, ReadBase, TypeOK
<1>4. ASSUME NEW j \in 1 .. Used - 1 PROVE SlotOf(j - 1)' = SlotOf(j)
  BY <1>1, <1>3, NumAssumption, SMT DEF SlotOf, NextSlot, Slots
<1>5. Queue \in Seq(Items) /\ Len(Queue) = Used /\ Queue # << >>
  BY <1>1, QueueFacts
<1>6. Queue' \in Seq(Items) /\ Len(Queue') = Used - 1
  BY <1>2, QueueFactsNext
<1>7. Tail(Queue) \in Seq(Items) /\ Len(Tail(Queue)) = Used - 1
  BY <1>1, <1>5
<1>8. ASSUME NEW i \in 1 .. Used - 1 PROVE Queue'[i] = Tail(Queue)[i]
  <2>1. Queue'[i] = slot[SlotOf(i)]
    BY <1>1, <1>2, <1>3, <1>4 DEF Queue
  <2>2. Tail(Queue)[i] = Queue[i + 1]
    BY <1>1, <1>5
  <2>3. Queue[i + 1] = slot[SlotOf(i)]
    BY <1>1 DEF Queue
  <2>4. QED
    BY <2>1, <2>2, <2>3
<1>9. Queue' = Tail(Queue)
  BY <1>6, <1>7, <1>8, SeqEqual
<1>10. QED
  BY <1>5, <1>9 DEF Fifo!Take

\* Every other access of the two threads to the ring leaves the queue alone.
LEMMA QueueStep == Inv /\ Inv' /\ [Next]_vars => [Fifo!Next]_Queue
<1> SUFFICES ASSUME Inv, Inv', [Next]_vars
             PROVE  Fifo!Next \/ Queue' = Queue
  OBVIOUS
<1>1. CASE SetAdvanceCnt
  BY <1>1, QueuePut DEF Fifo!Next
<1>2. CASE GetAdvanceCnt
  BY <1>2, QueueTake DEF Fifo!Next
<1>3. ASSUME Used' = Used, ReadBase' = ReadBase,
             \A i \in Slots : i # WriteBase => slot'[i] = slot[i],
             slot'[WriteBase] = slot[WriteBase] \/ Used < Num
      PROVE  Queue' = Queue
  <2>1. /\ TypeOK /\ Used \in 0 .. Num /\ WriteBase = SlotOf(Used)
    BY QueueFacts DEF Inv, RingInv, CountersMatchPointers
  <2>2. ASSUME NEW j \in 1 .. Used
        PROVE  SlotOf(j - 1)' = SlotOf(j - 1) /\ SlotOf(j - 1) \in Slots
    BY <1>3, <2>1, SlotOfFacts, NumAssumption DEF SlotOf
  <2>3. ASSUME NEW j \in 1 .. Used
        PROVE  slot'[SlotOf(j - 1)] = slot[SlotOf(j - 1)]
    <3>1. CASE slot'[WriteBase] = slot[WriteBase]
      BY <1>3, <2>2, <3>1
    <3>2. CASE Used < Num
      <4>1. j - 1 \in 0 .. Num - 1 /\ Used \in 0 .. Num - 1 /\ j - 1 # Used
        BY <2>1, <3>2, NumAssumption
      <4>2. SlotOf(j - 1) # WriteBase
        BY <2>1, <4>1, SlotOfFacts
      <4>3. QED
        BY <1>3, <2>2, <4>2
    <3>3. QED
      BY <1>3, <3>1, <3>2
  <2>4. QED
    BY <1>3, <2>1, <2>2, <2>3 DEF Queue
<1>4. CASE FreeOld \/ \E x \in Items : Fill(x)
  <2>1. ReadBase' = ReadBase /\ WriteBase = wp /\ Used' = Used /\ Used < Num
    BY <1>4
       DEF FreeOld, Fill, ReadBase, WriteBase, Used, Inv, RingInv, AnswersStayTrue
  <2>2. \A i \in Slots : i # wp => slot'[i] = slot[i]
    BY <1>4 DEF FreeOld, Fill, Inv, TypeOK
  <2>3. QED
    BY <1>3, <2>1, <2>2
<1>5. CASE SetOk \/ Abandon \/ SetAdvancePtr \/ GetOk \/ GetAdvancePtr
           \/ UNCHANGED vars
  <2>1. Used' = Used /\ slot' = slot
    BY <1>5
       DEF SetOk, Abandon, SetAdvancePtr, GetOk, GetAdvancePtr, vars, Used
  <2>2. ReadBase' = ReadBase
    BY <1>5, SlotArithmetic
       DEF SetOk, Abandon, SetAdvancePtr, GetOk, GetAdvancePtr, vars, ReadBase,
           Inv, TypeOK
  <2>3. QED
    BY <1>3, <2>1, <2>2
<1>6. QED
  BY <1>1, <1>2, <1>4, <1>5 DEF Next, Producer, Consumer

\* Seen through its counters the ring buffer is the queue of BoundedFifo.
THEOREM Refinement == Spec => ImplementsFifo
<1>1. Init => Fifo!Init
  BY QueueInit
<1>2. Inv /\ Inv' /\ [Next]_vars => [Fifo!Next]_Queue
  BY QueueStep
<1>3. QED
  BY <1>1, <1>2, InvAlways, PTL DEF Spec, ImplementsFifo, Fifo!Spec
=============================================================================
