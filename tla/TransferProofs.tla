--------------------------- MODULE TransferProofs ---------------------------
(***************************************************************************)
(* Theorems about Transfer, for every sequence of records, every size of   *)
(* the rings and buffers, and any number of lost connections: what the     *)
(* slave's io thread does with its chunks, and what the records are that   *)
(* come through both rings, both buffers and the connection.               *)
(*                                                                         *)
(* Handed counts the chunks: those of a class that were ever carved are in *)
(* slots or on its stack, so no class needs more than the ring has slots.  *)
(* Apart says that two slots have two chunks, until one was given twice.   *)
(* Flowing says what is under way: the cells from what rs_recv_tmpbuf() has  *)
(* copied to the master's send buffer are one run of records (Run), which  *)
(* begins where the io thread is (Streamed) and continues in the ring of   *)
(* the master; its first record follows what the slave has (Follows).  A   *)
(* step on either side takes cells from the front of the run, moves them   *)
(* within it, or appends a record.                                         *)
(***************************************************************************)
EXTENDS Transfer, SequenceTheorems, FiniteSetTheorems, TLAPS

-----------------------------------------------------------------------------
(* The invariant.                                                          *)

Cells == {c \in Records \X (0 .. Size) : c[2] <= Body[c[1]]}

\* The types, and what the places of the two threads of the slave mean.
SlaveTyped ==
  /\ TypeOK
  /\ buf \in Seq(Cells) /\ part \in Seq(Cells) /\ mem \in [Chunks -> Seq(Cells)]
  /\ ipc \in {"connect", "set", "head", "body"} => part = << >>
  /\ ipc \in {"readHead", "readBody"} => Len(part) < Wanted
  /\ ipc \in {"body", "readBody"} => len > 0 /\ data[wp] # NULL
  /\ ipc \in {"head", "readHead", "body", "readBody"} => used < Num
  /\ rpc = "use" => used > 0
  /\ \A i \in Published : data[i] # NULL /\ mem[data[i]] # << >>
  /\ maxSeen \in 0 .. NRec /\ dumpInfo <= maxSeen

Typed ==
  /\ SlaveTyped /\ D!TypeOK
  /\ net \in Seq(Cells) /\ sbuf \in Seq(Cells) /\ queue \in Seq(Records)

\* Every chunk that was handed out is in a slot or on a free stack.
Holding(c) ==
  {i \in Slots : data[i] # NULL /\ data[i][1] = c /\ ~(i = wp /\ ipc \in {"head", "readHead"})}

Handed ==
  /\ NoLeak
  /\ \A c \in Classes : \A x \in Range(freeChunk[c]) : x[1] = c /\ x[2] <= fresh[c]
  /\ \A i \in Slots : data[i] # NULL => data[i][2] <= fresh[data[i][1]]
  /\ ipc # "stopped" => \A c \in Classes : fresh[c] <= Len(freeChunk[c]) + Cardinality(Holding(c))

\* What is between the two rings: the rest of a record and whole records after
\* it, each cell followed by the next one.
stream == part \o (buf \o (net \o sbuf))

Run(s) ==
  \A i \in 1 .. Len(s) :
    LET r == s[i][1]
        rest == Body[r] - s[i][2]
    IN  /\ i + rest <= Len(s)
        /\ \A m \in 0 .. rest : s[i + m] = <<r, s[i][2] + m>>
        /\ i + rest < Len(s) => s[i + rest + 1] = <<r + 1, 0>>

\* The slot j places behind w.
At(w, j) == (w - j) % Num

Sent == next - Len(queue)   \* the record the dump thread takes next
Rec(i) == mem[data[i]][1][1]

\* e is the record whose header or body is received next.
Streamed(e) ==
  /\ \A i \in 1 .. Len(queue) : queue[i] = Sent + i - 1
  /\ Run(stream)
  /\ IF stream = << >> THEN e = Sent /\ ipc \in {"set", "head", "readHead"}
     ELSE /\ stream[1] = <<e, IF ipc \in {"set", "head", "readHead"} THEN 0 ELSE 1>>
          /\ stream[Len(stream)] = <<Sent - 1, Body[Sent - 1]>>
  /\ ipc \in {"body", "readBody"} => len = Body[e]

\* A record follows the one before it, or one that was taken.
Ordered ==
  /\ rpc = "use" => Rec(rp) = dumpInfo
  /\ used > 0 => Rec(rp) <= maxSeen + 1
  /\ \A j \in 1 .. used - 1 : Rec(At(wp, j)) <= maxSeen + 1 \/ Rec(At(wp, j)) <= Rec(At(wp, j + 1)) + 1

Follows(e) == e <= maxSeen + 1 \/ (used > 0 /\ e <= Rec(At(wp, 1)) + 1)

\* Two slots have two chunks, until one was given to both.
Apart == ~shared => \A i, j \in Slots : data[i] = data[j] /\ data[i] # NULL => i = j

Flowing ==
  Clean =>
    /\ FramesIntact /\ Ordered
    /\ ipc \in {"set", "head", "readHead", "body", "readBody"} =>
         open /\ \E e \in 1 .. NRec + 1 : Streamed(e) /\ Follows(e)

IInv == Typed /\ Handed /\ ChunkExclusiveIfClean /\ Apart /\ Flowing

-----------------------------------------------------------------------------
(* The data.                                                               *)

\* The numbers that the constants are.
LEMMA Constants ==
  /\ NRec \in Nat \ {0} /\ Size \in Nat \ {0} /\ Num \in Nat \ {0} /\ MaxBreaks \in Nat
  /\ SendSize \in Nat \ {0} /\ MasterNum \in Nat \ {0} /\ NetSize \in Nat \ {0}
  /\ \A r \in Records : r \in Nat /\ r > 0 /\ r <= NRec /\ Body[r] \in Nat /\ Body[r] > 0
                        /\ Body[r] <= Size
  /\ \A r \in 1 .. NRec : r \in Records
BY SlaveIoAssumption, TransferAssumption DEF Records

\* A request of any size has a class, and the chunks of a class are numbered.
LEMMA Requests ==
  /\ \A n \in 1 .. Size + 1 : Class[n] \in Classes
  /\ \A x \in Chunks : x[1] \in Classes /\ x[2] \in 1 .. Num + 1 /\ x # NULL
  /\ \A c \in Classes, n \in 1 .. Num + 1 : <<c, n>> \in Chunks
BY SlaveIoAssumption DEF Classes, Chunks, Range

\* The slots behind a slot, and the slot after it.
LEMMA RingPlaces ==
  /\ \A w \in Slots, j \in 0 .. Num : At(w, j) \in Slots
  /\ \A w \in Slots : SlotAfter(w) \in Slots /\ At(w, 0) = w
  /\ \A w \in Slots, j \in 0 .. Num - 1 : At(SlotAfter(w), j + 1) = At(w, j)
  /\ \A w \in Slots, i, j \in 1 .. Num : At(w, i) = At(w, j) => i = j
  /\ \A w \in Slots, j \in 1 .. Num - 1 : At(w, j) # w
  /\ Published = {At(wp, j) : j \in 1 .. used} /\ rp = At(wp, used)
<1>1. \A w \in Slots, j \in 0 .. Num : At(w, j) = IF j <= w THEN w - j ELSE w - j + Num
  <2>1. Num \in Nat \ {0} /\ Slots = 0 .. Num - 1
    BY SlaveIoAssumption DEF Slots
  <2>2. ASSUME NEW n \in Nat \ {0}, NEW w \in 0 .. n - 1, NEW j \in 0 .. n
        PROVE  (w - j) % n = IF j <= w THEN w - j ELSE w - j + n
    BY <2>2, SMTT(30)
  <2>3. QED
    BY <2>1, <2>2 DEF At
<1>2. \A w \in Slots : SlotAfter(w) = IF w = Num - 1 THEN 0 ELSE w + 1
  <2>1. Num \in Nat \ {0} /\ Slots = 0 .. Num - 1
    BY SlaveIoAssumption DEF Slots
  <2>2. ASSUME NEW n \in Nat \ {0}, NEW w \in 0 .. n - 1
        PROVE  (w + 1) % n = IF w = n - 1 THEN 0 ELSE w + 1
    BY <2>2, SMTT(30)
  <2>3. QED
    BY <2>1, <2>2 DEF SlotAfter
<1>3. Published = {At(wp, j) : j \in 1 .. used} /\ rp = At(wp, used)
  BY DEF Published, rp, At
<1>4. Num \in Nat \ {0} /\ Slots = 0 .. Num - 1
  BY SlaveIoAssumption DEF Slots
<1>5. ASSUME NEW w \in Slots
      PROVE  /\ w \in Nat /\ w < Num /\ SlotAfter(w) \in Slots /\ SlotAfter(w) \in Nat
             /\ \A j \in 0 .. Num : j \in Nat /\ At(w, j) \in Slots
             /\ At(w, 0) = w
  <2>1. w \in Nat /\ w < Num /\ SlotAfter(w) \in Slots /\ SlotAfter(w) \in Nat
    BY <1>2, <1>4
  <2>2. ASSUME NEW j \in 0 .. Num PROVE j \in Nat /\ At(w, j) \in Slots
    <3>1. j \in Nat /\ j <= Num /\ At(w, j) = IF j <= w THEN w - j ELSE w - j + Num
      BY <1>1, <1>4
    <3>2. QED
      BY <1>4, <2>1, <3>1
  <2>3. At(w, 0) = w
    BY <1>1, <1>4, <2>1
  <2>4. QED
    BY <2>1, <2>2, <2>3
<1>6. ASSUME NEW w \in Slots, NEW j \in 0 .. Num - 1
      PROVE  At(SlotAfter(w), j + 1) = At(w, j)
  <2>1. j \in 0 .. Num /\ j + 1 \in 0 .. Num /\ j \in Nat /\ j < Num
    BY <1>4
  <2>2. At(SlotAfter(w), j + 1)
          = IF j + 1 <= SlotAfter(w) THEN SlotAfter(w) - (j + 1) ELSE SlotAfter(w) - (j + 1) + Num
    BY <1>1, <1>5, <2>1
  <2>3. At(w, j) = IF j <= w THEN w - j ELSE w - j + Num
    BY <1>1, <2>1
  <2>4. SlotAfter(w) = IF w = Num - 1 THEN 0 ELSE w + 1
    BY <1>2
  <2>5. w \in Nat /\ w < Num /\ Num \in Nat \ {0}
    BY <1>4, <1>5
  <2>6. CASE w = Num - 1
    BY <2>1, <2>2, <2>3, <2>4, <2>5, <2>6
  <2>7. CASE w # Num - 1
    BY <2>1, <2>2, <2>3, <2>4, <2>5, <2>7
  <2>8. QED
    BY <2>6, <2>7
<1>7. ASSUME NEW w \in Slots, NEW i \in 1 .. Num, NEW j \in 1 .. Num
      PROVE  (At(w, i) = At(w, j) => i = j) /\ (j < Num => At(w, j) # w)
  <2>1. /\ At(w, i) = IF i <= w THEN w - i ELSE w - i + Num
        /\ At(w, j) = IF j <= w THEN w - j ELSE w - j + Num
        /\ i \in Nat /\ j \in Nat /\ i > 0 /\ j > 0 /\ i <= Num /\ j <= Num
    BY <1>1, <1>4
  <2>2. w \in Nat /\ w < Num /\ Num \in Nat
    BY <1>4, <1>5
  <2>3. At(w, i) = At(w, j) => i = j
    BY <2>1, <2>2
  <2>4. j < Num => At(w, j) # w
    BY <2>1, <2>2
  <2>5. QED
    BY <2>3, <2>4
<1>8. \A j \in 1 .. Num - 1 : j \in 1 .. Num /\ j < Num
  BY <1>4
<1>9. QED
  BY <1>3, <1>5, <1>6, <1>7, <1>8

LEMMA IsCell ==
  ASSUME NEW c \in Cells
  PROVE  c[1] \in Records /\ c[2] \in Nat /\ c[2] <= Body[c[1]] /\ c = <<c[1], c[2]>>
BY SlaveIoAssumption DEF Cells

LEMMA CellOf ==
  ASSUME NEW r \in Records, NEW k \in Nat, k <= Body[r]
  PROVE  <<r, k>> \in Cells
BY Constants DEF Cells

\* A sequence is cut in two.
LEMMA Cut ==
  ASSUME NEW S, NEW s \in Seq(S), NEW n \in 0 .. Len(s)
  PROVE  /\ SubSeq(s, 1, n) \in Seq(S) /\ SubSeq(s, n + 1, Len(s)) \in Seq(S)
         /\ Len(SubSeq(s, 1, n)) = n /\ Len(SubSeq(s, n + 1, Len(s))) = Len(s) - n
         /\ SubSeq(s, 1, n) \o SubSeq(s, n + 1, Len(s)) = s
<1>1. Len(s) \in Nat /\ \A i \in 1 .. Len(s) : s[i] \in S
  BY LenProperties, ElementOfSeq
<1>2. SubSeq(s, 1, n) \in Seq(S) /\ Len(SubSeq(s, 1, n)) = n
  BY <1>1, SubSeqProperties
<1>3. SubSeq(s, n + 1, Len(s)) \in Seq(S) /\ Len(SubSeq(s, n + 1, Len(s))) = Len(s) - n
  BY <1>1, SubSeqProperties
<1>4. SubSeq(s, 1, n) \o SubSeq(s, n + 1, Len(s)) = SubSeq(s, 1, Len(s))
  <2>1. 1 \in 1 .. Len(s) + 1 /\ n \in 1 - 1 .. Len(s) /\ Len(s) \in n .. Len(s)
    BY <1>1
  <2>2. QED
    BY <2>1, ConcatAdjacentSubSeq
<1>5. QED
  BY <1>2, <1>3, <1>4, SubSeqFull

LEMMA Joined ==
  ASSUME NEW S, NEW s \in Seq(S), NEW t \in Seq(S), NEW u \in Seq(S)
  PROVE  s \o t \in Seq(S) /\ Len(s \o t) = Len(s) + Len(t) /\ (s \o t) \o u = s \o (t \o u)
BY ConcatProperties, ConcatAssociative

LEMMA CellsAssociate ==
  \A s, t, u \in Seq(Cells) : (s \o t) \o u = s \o (t \o u)
BY ConcatAssociative

\* The stack of freed chunks.
LEMMA PushPop ==
  ASSUME NEW S, NEW s \in Seq(S)
  PROVE  /\ \A x \in S : /\ Append(s, x) \in Seq(S) /\ Len(Append(s, x)) = Len(s) + 1
                         /\ Range(Append(s, x)) = Range(s) \cup {x}
                         /\ IsInjective(s) /\ x \notin Range(s) => IsInjective(Append(s, x))
         /\ s # << >> => /\ Last(s) \in S /\ Last(s) \in Range(s)
                         /\ Front(s) \in Seq(S) /\ Len(Front(s)) = Len(s) - 1
                         /\ Range(Front(s)) \subseteq Range(s)
                         /\ IsInjective(s) => IsInjective(Front(s)) /\ Last(s) \notin Range(Front(s))
<1>1. Len(s) \in Nat /\ DOMAIN s = 1 .. Len(s) /\ \A i \in 1 .. Len(s) : s[i] \in S
  BY LenProperties, ElementOfSeq
<1>2. ASSUME NEW x \in S
      PROVE  /\ Append(s, x) \in Seq(S) /\ Len(Append(s, x)) = Len(s) + 1
             /\ Range(Append(s, x)) = Range(s) \cup {x}
             /\ IsInjective(s) /\ x \notin Range(s) => IsInjective(Append(s, x))
  <2> DEFINE t == Append(s, x)
  <2>1. /\ t \in Seq(S) /\ Len(t) = Len(s) + 1 /\ t[Len(s) + 1] = x
        /\ \A i \in 1 .. Len(s) : t[i] = s[i]
    BY AppendProperties
  <2>2. DOMAIN t = 1 .. Len(s) + 1
    BY <2>1, LenProperties
  <2> HIDE DEF t
  <2>3. Range(t) = Range(s) \cup {x}
    BY <1>1, <2>1, <2>2 DEF Range
  <2>4. IsInjective(s) /\ x \notin Range(s) => IsInjective(t)
    BY <1>1, <2>1, <2>2 DEF Range, IsInjective
  <2>5. QED
    BY <2>1, <2>3, <2>4 DEF t
<1>3. ASSUME s # << >>
      PROVE  /\ Last(s) \in S /\ Last(s) \in Range(s)
             /\ Front(s) \in Seq(S) /\ Len(Front(s)) = Len(s) - 1
             /\ Range(Front(s)) \subseteq Range(s)
             /\ IsInjective(s) => IsInjective(Front(s)) /\ Last(s) \notin Range(Front(s))
  <2> DEFINE t == SubSeq(s, 1, Len(s) - 1)
  <2>0. Len(s) > 0
    BY <1>3, EmptySeq
  <2>1. t \in Seq(S) /\ Len(t) = Len(s) - 1 /\ \A i \in 1 .. Len(s) - 1 : t[i] = s[i]
    BY <1>1, <2>0, SubSeqProperties
  <2>2. DOMAIN t = 1 .. Len(s) - 1
    BY <2>1, LenProperties
  <2> HIDE DEF t
  <2>3. Last(s) = s[Len(s)] /\ s[Len(s)] \in S /\ s[Len(s)] \in Range(s)
    BY <1>1, <2>0 DEF Range, Last
  <2>4. Range(t) \subseteq Range(s)
    BY <1>1, <2>1, <2>2 DEF Range
  <2>5. IsInjective(s) => IsInjective(t) /\ s[Len(s)] \notin Range(t)
    BY <1>1, <2>0, <2>1, <2>2 DEF Range, IsInjective
  <2>6. QED
    BY <2>1, <2>3, <2>4, <2>5 DEF t, Front
<1>4. QED
  BY <1>2, <1>3

-----------------------------------------------------------------------------
(* What the io thread of the slave receives.                               *)

Receiving == {"head", "readHead", "body", "readBody"}

\* No record and no header is complete yet.
Waits ==
  /\ \/ ipc \in {"head", "readHead"} /\ ipc' = "readHead"
     \/ ipc \in {"body", "readBody"} /\ ipc' = "readBody"
  /\ part' \in Seq(Cells) /\ buf' \in Seq(Cells) /\ net' \in Seq(Cells)
  /\ Len(part') < Wanted /\ Len(net') <= Len(net)
  /\ part' \o (buf' \o (net' \o sbuf)) = stream
  /\ UNCHANGED <<len, ring, data, pool, rpc, dumpInfo, flags>>

\* The header or the body is there: the first cells of the stream.
Completes(cells) ==
  /\ ipc \in Receiving /\ Len(cells) = Wanted /\ Received(cells)
  /\ part' = << >> /\ buf' \in Seq(Cells) /\ net' \in Seq(Cells) /\ Len(net') <= Len(net)
  /\ cells \o (buf' \o (net' \o sbuf)) = stream
  /\ UNCHANGED <<rpc, dumpInfo, flags>>

\* The next slot and its number of records.
LEMMA PublishedFacts ==
  ASSUME TypeOK
  PROVE  /\ Published \subseteq Slots /\ (used > 0 => rp \in Published)
         /\ used < Num => wp \notin Published
         /\ used < Num /\ wp' = SlotAfter(wp) /\ used' = used + 1 =>
              Published' = Published \cup {wp}
         /\ used > 0 /\ wp' = wp /\ used' = used - 1 => Published' \subseteq Published
<1>1. used \in Nat /\ used <= Num /\ wp \in Slots /\ Num \in Nat \ {0}
  BY Constants DEF TypeOK
<1>2. Published = {At(wp, j) : j \in 1 .. used} /\ rp = At(wp, used)
  BY RingPlaces
<1>3. Published' = {At(wp', j) : j \in 1 .. used'}
  BY DEF Published, At
<1>4. Published \subseteq Slots /\ (used > 0 => rp \in Published)
  BY <1>1, <1>2, RingPlaces
<1>5. used < Num => wp \notin Published
  BY <1>1, <1>2, RingPlaces
<1>6. ASSUME used < Num, wp' = SlotAfter(wp), used' = used + 1
      PROVE  Published' = Published \cup {wp}
  <2>1. \A j \in 1 .. used' : j - 1 \in 0 .. Num - 1 /\ At(wp', (j - 1) + 1) = At(wp, j - 1)
    BY <1>1, <1>6, RingPlaces
  <2>2. \A j \in 1 .. used' : At(wp', j) = At(wp, j - 1)
    BY <1>1, <1>6, <2>1
  <2>3. At(wp, 0) = wp
    BY <1>1, RingPlaces
  <2>4. ASSUME NEW x \in Published' PROVE x \in Published \cup {wp}
    <3>1. PICK j \in 1 .. used' : x = At(wp, j - 1)
      BY <1>3, <2>2
    <3>2. CASE j = 1
      BY <2>3, <3>1, <3>2
    <3>3. CASE j # 1
      <4>1. j - 1 \in 1 .. used
        BY <1>1, <1>6, <3>3
      <4>2. QED
        BY <1>2, <3>1, <4>1
    <3>4. QED
      BY <3>2, <3>3
  <2>5. wp \in Published'
    <3>1. 1 \in 1 .. used' /\ At(wp', 1) = wp
      BY <1>1, <1>6, <2>2, <2>3
    <3>2. QED
      BY <1>3, <3>1
  <2>6. ASSUME NEW x \in Published PROVE x \in Published'
    <3>1. PICK j \in 1 .. used : x = At(wp, j)
      BY <1>2
    <3>2. j + 1 \in 1 .. used' /\ (j + 1) - 1 = j
      BY <1>1, <1>6
    <3>3. At(wp', j + 1) = x
      BY <2>2, <3>1, <3>2
    <3>4. QED
      BY <1>3, <3>2, <3>3
  <2>7. QED
    BY <2>4, <2>5, <2>6
<1>7. ASSUME used > 0, wp' = wp, used' = used - 1 PROVE Published' \subseteq Published
  <2>1. \A j \in 1 .. used' : j \in 1 .. used /\ At(wp', j) = At(wp, j)
    BY <1>1, <1>7
  <2>2. QED
    BY <1>2, <1>3, <2>1
<1>8. QED
  BY <1>4, <1>5, <1>6, <1>7

\* A chunk comes from the stack of its class, or is the next of its slab.
Popped(c) ==
  /\ freeChunk[c] # << >> /\ data' = [data EXCEPT ![wp] = Last(freeChunk[c])]
  /\ freeChunk' = [freeChunk EXCEPT ![c] = Front(@)] /\ fresh' = fresh /\ ipc' = "body"
Carved(c) ==
  /\ freeChunk[c] = << >> /\ fresh[c] <= Num
  /\ data' = [data EXCEPT ![wp] = <<c, fresh[c] + 1>>]
  /\ fresh' = [fresh EXCEPT ![c] = @ + 1] /\ freeChunk' = freeChunk /\ ipc' = "body"
NoChunk(c) ==
  /\ freeChunk[c] = << >> /\ fresh[c] > Num
  /\ data' = [data EXCEPT ![wp] = NULL]
  /\ UNCHANGED <<freeChunk, fresh>> /\ ipc' = "exit"

LEMMA HeadDone ==
  ASSUME Typed, NEW cells \in Seq(Cells), Completes(cells), ipc \in {"head", "readHead"}
  PROVE  /\ cells[1] \in Cells /\ Len(cells) = 1
         /\ \E size \in 1 .. Size + 1 :
              /\ len' = size /\ Class[size] \in Classes
              /\ cells[1][2] = 0 => size = Body[cells[1][1]]
              /\ Popped(Class[size]) \/ Carved(Class[size]) \/ NoChunk(Class[size])
         /\ UNCHANGED <<wp, used, mem>> /\ Hold(data'[wp])
<1>1. Len(cells) = 1
  BY DEF Completes, Wanted
<1>2. cells[1] \in Cells
  BY <1>1, ElementOfSeq
<1>3. /\ \E size \in (IF cells[1][2] = 0 THEN {Body[cells[1][1]]} ELSE 1 .. Size + 1) : Alloc(size)
      /\ UNCHANGED <<wp, used, mem>>
  BY DEF Completes, Received, ReceivedHead
<1>4. PICK size \in (IF cells[1][2] = 0 THEN {Body[cells[1][1]]} ELSE 1 .. Size + 1) : Alloc(size)
  BY <1>3
<1>5. size \in 1 .. Size + 1 /\ (cells[1][2] = 0 => size = Body[cells[1][1]])
  <2>1. cells[1][1] \in Records
    BY <1>2, IsCell
  <2>2. Body[cells[1][1]] \in 1 .. Size + 1
    BY <2>1, Constants
  <2>3. QED
    BY <1>4, <2>2
<1>6. Class[size] \in Classes
  BY <1>5, Requests
<1> DEFINE c == Class[size]
<1>7. freeChunk[c] \in Seq(Chunks) /\ fresh[c] \in Nat
  BY <1>6, Constants DEF Typed, SlaveTyped, TypeOK
<1>8. freeChunk[c] # << >> => Last(freeChunk[c]) # NULL
  BY <1>7, PushPop, Requests
<1>9. len' = size /\ (Popped(c) \/ Carved(c) \/ NoChunk(c))
  <2>1. CASE freeChunk[c] # << >>
    BY <1>4, <1>8, <2>1 DEF Alloc, Hold, Popped
  <2>2. CASE freeChunk[c] = << >> /\ fresh[c] <= Num
    <3>1. <<c, fresh[c] + 1>> # NULL
      BY <1>6, <1>7, <2>2, Requests, Constants
    <3>2. QED
      BY <1>4, <2>2, <3>1 DEF Alloc, Hold, Carved
  <2>3. CASE freeChunk[c] = << >> /\ ~(fresh[c] <= Num)
    BY <1>4, <1>7, <2>3, Constants DEF Alloc, Hold, NoChunk
  <2>4. QED
    BY <2>1, <2>2, <2>3
<1>10. Hold(data'[wp])
  <2>1. PICK chunk : Hold(chunk)
    BY <1>4 DEF Alloc
  <2>2. data'[wp] = chunk
    BY <2>1 DEF Hold, Typed, SlaveTyped, TypeOK
  <2>3. QED
    BY <2>1, <2>2, Zenon
<1>11. QED
  BY <1>1, <1>2, <1>3, <1>5, <1>6, <1>9, <1>10

LEMMA BodyDone ==
  ASSUME Typed, NEW cells \in Seq(Cells), Completes(cells), ipc \in {"body", "readBody"}
  PROVE  /\ Len(cells) = len /\ cells # << >> /\ data[wp] \in Chunks
         /\ mem' = [mem EXCEPT ![data[wp]] = cells]
         /\ wp' = SlotAfter(wp) /\ used' = used + 1 /\ used < Num /\ ipc' = "set"
         /\ UNCHANGED <<len, data, freeChunk, fresh, shared>>
<1>1. Len(cells) = len /\ len > 0 /\ used < Num
  BY DEF Completes, Wanted, Typed, SlaveTyped
<1>2. cells # << >>
  BY <1>1, EmptySeq, Constants DEF Typed, SlaveTyped, TypeOK
<1>3. data[wp] \in Chunks
  BY DEF Typed, SlaveTyped, TypeOK
<1>4. QED
  BY <1>1, <1>2, <1>3 DEF Completes, Received, ReceivedBody

\* However rs_recv_tmpbuf() is entered and whatever a read() returns, it takes
\* the next cells of the stream or leaves the stream as it is.
LEMMA Reading ==
  ASSUME Typed, RecvBuffered \/ RecvStart \/ \E n \in 1 .. Size : Read(n)
  PROVE  Waits \/ \E cells \in Seq(Cells) : Completes(cells)
<1>1. /\ net \in Seq(Cells) /\ buf \in Seq(Cells) /\ part \in Seq(Cells) /\ sbuf \in Seq(Cells)
      /\ Len(net) \in Nat /\ Len(buf) \in Nat /\ Len(part) \in Nat /\ << >> \in Seq(Cells)
      /\ Len(<< >>) = 0 /\ \A u \in Seq(Cells) : << >> \o u = u /\ u \o << >> = u
  BY LenProperties, EmptySeq, ConcatEmptySeq DEF Typed, SlaveTyped
<1>2. ipc \in Receiving => Wanted \in Nat /\ Wanted > 0
  BY Constants DEF Typed, SlaveTyped, TypeOK, Receiving, Wanted
<1>3. CASE RecvBuffered
  <2> DEFINE cells == SubSeq(buf, 1, Wanted)
             left == SubSeq(buf, Wanted + 1, Len(buf))
  <2>1. ipc \in {"head", "body"} /\ Len(buf) >= Wanted /\ part = << >>
    BY <1>3 DEF RecvBuffered, Typed, SlaveTyped
  <2>2. Wanted \in 0 .. Len(buf)
    BY <1>1, <1>2, <2>1 DEF Receiving
  <2>3. cells \in Seq(Cells) /\ left \in Seq(Cells) /\ Len(cells) = Wanted /\ cells \o left = buf
    BY <1>1, <2>2, Cut, ZenonT(30)
  <2>4. Received(cells) /\ buf' = left /\ UNCHANGED <<net, part, rpc, dumpInfo, flags>>
    BY <1>3 DEF RecvBuffered
  <2> HIDE DEF cells, left
  <2>5. net \o sbuf \in Seq(Cells) /\ buf \o (net \o sbuf) \in Seq(Cells)
    BY <1>1, Joined
  <2>6. cells \o (left \o (net \o sbuf)) = stream
    <3>1. (cells \o left) \o (net \o sbuf) = cells \o (left \o (net \o sbuf))
      BY <2>3, <2>5, CellsAssociate
    <3>2. << >> \o (buf \o (net \o sbuf)) = buf \o (net \o sbuf)
      BY <2>5, ConcatEmptySeq
    <3>3. QED
      BY <2>1, <2>3, <3>1, <3>2, Zenon DEF stream
  <2>7. Completes(cells)
    BY <1>1, <2>1, <2>3, <2>4, <2>6 DEF Completes, Receiving
  <2>8. QED
    BY <2>3, <2>7
<1>4. CASE RecvStart
  <2>1. /\ ipc \in {"head", "body"} /\ Len(buf) < Wanted /\ part = << >>
        /\ ipc' = IF ipc = "head" THEN "readHead" ELSE "readBody"
        /\ part' = buf /\ buf' = << >> /\ net' = net
        /\ UNCHANGED <<len, ring, data, pool, rpc, dumpInfo, flags>>
    BY <1>4 DEF RecvStart, Typed, SlaveTyped
  <2>2. net \o sbuf \in Seq(Cells) /\ buf \o (net \o sbuf) \in Seq(Cells)
    BY <1>1, Joined
  <2>3. part' \o (buf' \o (net' \o sbuf)) = stream
    BY <1>1, <2>1, <2>2 DEF stream
  <2>4. QED
    BY <1>1, <2>1, <2>3 DEF Waits
<1>5. ASSUME NEW n \in 1 .. Size, Read(n) PROVE Waits \/ \E cells \in Seq(Cells) : Completes(cells)
  <2> DEFINE got == SubSeq(net, 1, n)
             more == SubSeq(net, n + 1, Len(net))
             b == buf \o got
             w == Wanted - Len(part)
             head == SubSeq(b, 1, w)
             left == SubSeq(b, w + 1, Len(b))
  <2>1. ipc \in {"readHead", "readBody"} /\ n \in 0 .. Len(net) /\ Len(part) < Wanted
    BY <1>1, <1>5 DEF Read, Typed, SlaveTyped
  <2>2. /\ got \in Seq(Cells) /\ more \in Seq(Cells) /\ got \o more = net
        /\ Len(more) = Len(net) - n
    BY <1>1, <2>1, Cut
  <2>3. b \in Seq(Cells) /\ Len(b) \in Nat
    BY <1>1, <2>2, Joined, LenProperties
  <2>4. /\ net' = more /\ UNCHANGED <<rpc, dumpInfo, flags>>
        /\ Len(b) < w => /\ buf' = b /\ UNCHANGED <<ipc, part, len, ring, data, pool>>
        /\ ~(Len(b) < w) => Received(part \o head) /\ buf' = left /\ part' = << >>
    BY <1>5 DEF Read
  <2>5. /\ Wanted \in Nat /\ w \in Nat /\ w > 0 /\ Len(more) <= Len(net)
    BY <1>1, <1>2, <2>1, <2>2 DEF Receiving
  <2>6. stream = part \o (b \o (more \o sbuf)) /\ more \o sbuf \in Seq(Cells)
    <3> HIDE DEF got, more
    <3>1. /\ got \in Seq(Cells) /\ more \in Seq(Cells) /\ sbuf \in Seq(Cells) /\ buf \in Seq(Cells)
          /\ more \o sbuf \in Seq(Cells)
      BY <1>1, <2>2, Joined
    <3>2. (got \o more) \o sbuf = got \o (more \o sbuf)
      BY <3>1, CellsAssociate
    <3>3. (buf \o got) \o (more \o sbuf) = buf \o (got \o (more \o sbuf))
      BY <3>1, CellsAssociate
    <3>4. QED
      BY <2>2, <3>1, <3>2, <3>3, Zenon DEF stream
  <2>7. CASE Len(b) < w
    <3> HIDE DEF b, more, w
    <3>1. part' \o (buf' \o (net' \o sbuf)) = stream
      BY <2>4, <2>6, <2>7
    <3>2. QED
      BY <1>1, <2>1, <2>2, <2>3, <2>4, <2>5, <2>7, <3>1 DEF Waits
  <2>8. CASE ~(Len(b) < w)
    <3>1. w \in 0 .. Len(b)
      BY <2>3, <2>5, <2>8
    <3>2. /\ head \in Seq(Cells) /\ left \in Seq(Cells) /\ Len(head) = w /\ head \o left = b
      BY <2>3, <3>1, Cut
    <3>3. part \o head \in Seq(Cells) /\ Len(part \o head) = Wanted
      <4> HIDE DEF head
      <4>1. Len(part \o head) = Len(part) + Len(head) /\ part \o head \in Seq(Cells)
        BY <1>1, <3>2, Joined, ZenonT(30)
      <4>2. QED
        BY <1>1, <2>5, <3>2, <4>1
    <3> HIDE DEF head, left, b, more
    <3>4. (part \o head) \o (left \o (more \o sbuf)) = stream
      <4>1. left \o (more \o sbuf) \in Seq(Cells)
        BY <2>6, <3>2, Joined
      <4>2. (head \o left) \o (more \o sbuf) = head \o (left \o (more \o sbuf))
        BY <2>6, <3>2, CellsAssociate
      <4>3. (part \o head) \o (left \o (more \o sbuf)) = part \o (head \o (left \o (more \o sbuf)))
        BY <1>1, <3>2, <4>1, CellsAssociate, ZenonT(30)
      <4>4. QED
        BY <2>6, <3>2, <4>2, <4>3, Zenon
    <3>5. Completes(part \o head)
      BY <2>1, <2>2, <2>4, <2>5, <2>8, <3>2, <3>3, <3>4 DEF Completes, Receiving
    <3>6. QED
      BY <3>3, <3>5
  <2>9. QED
    BY <2>7, <2>8
<1>6. QED
  BY <1>3, <1>4, <1>5

-----------------------------------------------------------------------------
(* Type correctness.                                                       *)

LEMMA TypedInit == TransferInit => Typed
<1> SUFFICES ASSUME TransferInit PROVE Typed
  OBVIOUS
<1> USE DEF TransferInit, Init, D!Init
<1>1. Published = {}
  BY DEF Published
<1>2. << >> \in Seq(Cells) /\ << >> \in Seq(Records) /\ << >> \in Seq(Chunks) /\ Len(<< >>) = 0
  BY EmptySeq
<1>3. TypeOK
  <2>1. wp \in Slots /\ used \in 0 .. Num /\ len \in 0 .. Size + 1 /\ dumpInfo \in 0 .. NRec
        /\ breaks \in 0 .. MaxBreaks
    BY Constants DEF Slots
  <2>2. data \in [Slots -> Chunks \cup {NULL}] /\ fresh \in [Classes -> 0 .. Num + 1]
        /\ freeChunk \in [Classes -> Seq(Chunks)]
    BY <1>2, Constants
  <2>3. QED
    BY <2>1, <2>2 DEF TypeOK
<1>4. D!TypeOK
  <2>1. open \in BOOLEAN
    OBVIOUS
  <2>2. /\ next \in 1 .. NRec + 1 /\ Len(queue) <= MasterNum /\ Len(sbuf) <= SendSize
        /\ Len(net) <= NetSize
    BY <1>2, Constants
  <2>3. QED
    BY <2>1, <2>2 DEF D!TypeOK
<1>5. SlaveTyped
  BY <1>1, <1>2, <1>3, Constants DEF SlaveTyped
<1>6. QED
  BY <1>2, <1>4, <1>5 DEF Typed

\* The io thread frees, allocates and fills the slot it was given.
LEMMA SetTyped == Typed /\ Set /\ UNCHANGED maxSeen => SlaveTyped'
<1> SUFFICES ASSUME Typed, Set, UNCHANGED maxSeen PROVE SlaveTyped'
  OBVIOUS
<1>1. /\ used < Num /\ ipc' = "head" /\ freeChunk' = Freed(data[wp])
      /\ UNCHANGED <<net, buf, part, len, wp, used, data, mem, fresh, rpc, dumpInfo, breaks, stale,
                     dangling, shared>>
      /\ ipc = "set"
  BY DEF Set, ring, flags
<1>2. freeChunk' \in [Classes -> Seq(Chunks)]
  <2>1. data[wp] \in Chunks \cup {NULL} /\ freeChunk \in [Classes -> Seq(Chunks)]
    BY DEF Typed, SlaveTyped, TypeOK
  <2>2. CASE data[wp] = NULL
    BY <1>1, <2>1, <2>2 DEF Freed
  <2>3. CASE data[wp] # NULL
    <3>1. data[wp][1] \in Classes /\ data[wp] \in Chunks
      BY <2>1, <2>3, Requests
    <3>2. Append(freeChunk[data[wp][1]], data[wp]) \in Seq(Chunks)
      BY <2>1, <3>1, PushPop
    <3>3. QED
      BY <1>1, <2>1, <2>3, <3>1, <3>2 DEF Freed
  <2>4. QED
    BY <2>2, <2>3
<1>3. TypeOK'
  BY <1>1, <1>2 DEF Typed, SlaveTyped, TypeOK
<1>4. Published' = Published /\ part = << >>
  BY <1>1 DEF Published, Typed, SlaveTyped
<1>5. QED
  BY <1>1, <1>3, <1>4 DEF Typed, SlaveTyped

LEMMA WaitsTyped == Typed /\ Waits /\ UNCHANGED maxSeen => SlaveTyped'
<1> SUFFICES ASSUME Typed, Waits, UNCHANGED maxSeen PROVE SlaveTyped'
  OBVIOUS
<1>1. UNCHANGED <<len, wp, used, data, mem, freeChunk, fresh, rpc, dumpInfo, breaks, stale, dangling,
               shared>>
  BY DEF Waits, ring, pool, flags
<1>2. Published' = Published
  BY <1>1 DEF Published
<1>3. /\ Wanted' = Wanted
      /\ \/ ipc \in {"head", "readHead"} /\ ipc' = "readHead"
         \/ ipc \in {"body", "readBody"} /\ ipc' = "readBody"
      /\ part' \in Seq(Cells) /\ buf' \in Seq(Cells) /\ Len(part') < Wanted
  BY <1>1 DEF Waits, Wanted
<1>4. TypeOK'
  BY <1>1, <1>3 DEF Typed, SlaveTyped, TypeOK
<1>5. QED
  BY <1>1, <1>2, <1>3, <1>4 DEF Typed, SlaveTyped

LEMMA HeadTyped ==
  ASSUME Typed, NEW cells \in Seq(Cells), Completes(cells), ipc \in {"head", "readHead"},
         UNCHANGED maxSeen
  PROVE  SlaveTyped'
<1>1. PICK size \in 1 .. Size + 1 :
        /\ len' = size /\ Class[size] \in Classes
        /\ Popped(Class[size]) \/ Carved(Class[size]) \/ NoChunk(Class[size])
  BY HeadDone
<1> DEFINE c == Class[size]
<1>2. /\ UNCHANGED <<wp, used, mem, rpc, dumpInfo, breaks, stale, dangling>>
      /\ part' = << >> /\ buf' \in Seq(Cells) /\ shared' \in BOOLEAN
  BY HeadDone DEF Completes, Hold, flags, Typed, SlaveTyped, TypeOK
<1>3. /\ used < Num /\ wp \in Slots /\ data \in [Slots -> Chunks \cup {NULL}]
      /\ freeChunk \in [Classes -> Seq(Chunks)] /\ fresh \in [Classes -> 0 .. Num + 1]
      /\ wp \notin Published /\ Published' = Published /\ Published \subseteq Slots
  BY <1>2, PublishedFacts DEF Typed, SlaveTyped, TypeOK, Published
<1> HIDE DEF c
<1>4. /\ data' \in [Slots -> Chunks \cup {NULL}] /\ \A i \in Slots : i # wp => data'[i] = data[i]
      /\ freeChunk' \in [Classes -> Seq(Chunks)] /\ fresh' \in [Classes -> 0 .. Num + 1]
      /\ ipc' \in {"body", "exit"} /\ (ipc' = "body" => data'[wp] # NULL)
  <2>0. c \in Classes
    BY <1>1 DEF c
  <2>1. CASE Popped(c)
    <3>1. Last(freeChunk[c]) \in Chunks /\ Front(freeChunk[c]) \in Seq(Chunks)
      BY <1>3, <2>0, <2>1, PushPop DEF Popped
    <3>2. QED
      BY <1>3, <2>0, <2>1, <3>1, Requests DEF Popped
  <2>2. CASE Carved(c)
    <3>1. fresh[c] + 1 \in 1 .. Num + 1 /\ fresh[c] + 1 \in 0 .. Num + 1
      BY <1>3, <2>0, <2>2, Constants DEF Carved
    <3>2. <<c, fresh[c] + 1>> \in Chunks /\ <<c, fresh[c] + 1>> # NULL
      BY <2>0, <3>1, Requests
    <3>3. QED
      BY <1>3, <2>0, <2>2, <3>1, <3>2 DEF Carved
  <2>3. CASE NoChunk(c)
    BY <1>3, <2>3 DEF NoChunk
  <2>4. QED
    BY <1>1, <2>1, <2>2, <2>3 DEF c
<1>5. TypeOK'
  BY <1>1, <1>2, <1>3, <1>4, Constants DEF Typed, SlaveTyped, TypeOK
<1>6. \A i \in Published' : data'[i] # NULL /\ mem'[data'[i]] # << >>
  BY <1>2, <1>3, <1>4 DEF Typed, SlaveTyped
<1>7. QED
  BY <1>1, <1>2, <1>3, <1>4, <1>5, <1>6 DEF Typed, SlaveTyped

LEMMA BodyTyped ==
  ASSUME Typed, NEW cells \in Seq(Cells), Completes(cells), ipc \in {"body", "readBody"},
         UNCHANGED maxSeen
  PROVE  SlaveTyped'
<1>1. /\ cells # << >> /\ data[wp] \in Chunks /\ mem' = [mem EXCEPT ![data[wp]] = cells]
      /\ wp' = SlotAfter(wp) /\ used' = used + 1 /\ used < Num /\ ipc' = "set"
      /\ UNCHANGED <<len, data, freeChunk, fresh, shared, rpc, dumpInfo, breaks, stale, dangling>>
      /\ part' = << >> /\ buf' \in Seq(Cells)
  BY BodyDone DEF Completes, flags
<1>2. /\ wp \in Slots /\ wp' \in Slots /\ Published' = Published \cup {wp} /\ used' \in 0 .. Num
      /\ used' > 0
  <2>1. TypeOK /\ wp \in Slots /\ used \in 0 .. Num
    BY DEF Typed, SlaveTyped, TypeOK
  <2>2. wp' \in Slots
    BY <1>1, <2>1, RingPlaces
  <2>3. Published' = Published \cup {wp}
    BY <1>1, <2>1, PublishedFacts
  <2>4. QED
    BY <1>1, <2>1, <2>2, <2>3, Constants
<1>3. TypeOK'
  BY <1>1, <1>2 DEF Typed, SlaveTyped, TypeOK
<1>4. mem' \in [Chunks -> Seq(Cells)]
  BY <1>1 DEF Typed, SlaveTyped
<1>5. \A i \in Published' : data'[i] # NULL /\ mem'[data'[i]] # << >>
  <2>1. ASSUME NEW i \in Published' PROVE data'[i] # NULL /\ mem'[data'[i]] # << >>
    <3>1. data' = data /\ data[wp] # NULL /\ mem \in [Chunks -> Seq(Cells)]
      BY <1>1, Requests DEF Typed, SlaveTyped
    <3>2. CASE data[i] = data[wp]
      BY <1>1, <3>1, <3>2
    <3>3. CASE data[i] # data[wp]
      <4>1. i \in Published
        BY <1>2, <3>3
      <4>2. data[i] # NULL /\ mem[data[i]] # << >> /\ data[i] \in Chunks
        BY <4>1, PublishedFacts DEF Typed, SlaveTyped, TypeOK
      <4>3. QED
        BY <1>1, <3>1, <3>3, <4>2
    <3>4. QED
      BY <3>2, <3>3
  <2>2. QED
    BY <2>1
<1>6. QED
  BY <1>1, <1>2, <1>3, <1>4, <1>5 DEF Typed, SlaveTyped

\* The redis thread takes and gives back what the io thread has published.
LEMMA TakesTyped == Typed /\ TakesRecord => SlaveTyped'
<1> SUFFICES ASSUME Typed, TakesRecord PROVE SlaveTyped'
  OBVIOUS
<1>1. /\ used \in 0 .. Num /\ TypeOK /\ dumpInfo \in 0 .. NRec /\ maxSeen \in 0 .. NRec
      /\ dumpInfo <= maxSeen
  BY DEF Typed, SlaveTyped, TypeOK
<1>2. maxSeen' = IF dumpInfo' > maxSeen THEN dumpInfo' ELSE maxSeen
  BY DEF TakesRecord
<1>3. CASE Get
  <2>1. /\ used > 0 /\ rpc = "get"
        /\ UNCHANGED <<ipc, net, buf, part, len, wp, used, data, mem, freeChunk, fresh, breaks, stale,
                       dangling, shared>>
    BY <1>3 DEF Get, ring, pool, flags
  <2>2. Published' = Published /\ Wanted' = Wanted
    BY <2>1 DEF Published, Wanted
  <2>3. mem[data[rp]] \in Seq(Cells) /\ mem[data[rp]] # << >>
    <3>1. rp \in Published /\ rp \in Slots
      BY <1>1, <2>1, PublishedFacts
    <3>2. data[rp] \in Chunks
      BY <3>1 DEF Typed, SlaveTyped, TypeOK
    <3>3. QED
      BY <3>1, <3>2 DEF Typed, SlaveTyped
  <2>4. mem[data[rp]][1] \in Cells
    BY <2>3, EmptySeq, ElementOfSeq
  <2>5. mem[data[rp]][1][1] \in 0 .. NRec
    BY <2>4, IsCell, Constants
  <2>6. dumpInfo' \in 0 .. NRec /\ rpc' \in {"use", "exit"}
    BY <1>1, <1>3, <2>5 DEF Get
  <2>7. maxSeen' \in 0 .. NRec /\ dumpInfo' <= maxSeen'
    BY <1>1, <1>2, <2>6, Constants
  <2>8. TypeOK'
    BY <2>1, <2>6 DEF Typed, SlaveTyped, TypeOK
  <2>9. QED
    BY <2>1, <2>2, <2>6, <2>7, <2>8 DEF Typed, SlaveTyped
<1>4. CASE GetAdvance
  <2>1. /\ used > 0 /\ used' = used - 1 /\ rpc' = "get"
        /\ UNCHANGED <<ipc, net, buf, part, len, wp, data, mem, freeChunk, fresh, dumpInfo, breaks,
                       stale, dangling, shared>>
    BY <1>4 DEF GetAdvance, pool, flags, Typed, SlaveTyped
  <2>2. Published' \subseteq Published /\ Wanted' = Wanted
    BY <1>1, <2>1, PublishedFacts DEF Wanted
  <2>3. used' \in 0 .. Num /\ used' <= used
    BY <1>1, <2>1, Constants
  <2>4. maxSeen' = maxSeen
    BY <1>1, <1>2, <2>1
  <2>5. TypeOK'
    BY <2>1, <2>3 DEF Typed, SlaveTyped, TypeOK
  <2>6. \A i \in Published' : data'[i] # NULL /\ mem'[data'[i]] # << >>
    BY <2>1, <2>2 DEF Typed, SlaveTyped
  <2>7. ipc' \in {"head", "readHead", "body", "readBody"} => used' < Num
    BY <1>1, <2>1, <2>3, Constants DEF Typed, SlaveTyped
  <2>8. QED
    BY <1>1, <2>1, <2>2, <2>4, <2>5, <2>6, <2>7 DEF Typed, SlaveTyped
<1>5. QED
  BY <1>3, <1>4 DEF TakesRecord, RedisThread

\* A connection comes and goes.
LEMMA LinkTyped ==
  ASSUME Typed, UNCHANGED maxSeen, Connect \/ Break \/ RecvTooBig \/ Stop
  PROVE  SlaveTyped'
<1>1. /\ UNCHANGED <<buf, len, wp, used, data, mem, freeChunk, fresh, shared, dumpInfo>>
      /\ rpc' \in {rpc, "exit"} /\ part' \in {part, << >>}
      /\ \/ ipc = "connect" /\ ipc' = "set" /\ part' = part
         \/ ipc' = "connect" /\ part' = << >>
         \/ ipc' = "stopped"
      /\ breaks' \in 0 .. MaxBreaks /\ stale' \in BOOLEAN /\ dangling' \in BOOLEAN
  <2>1. /\ breaks \in 0 .. MaxBreaks /\ stale \in BOOLEAN /\ dangling \in BOOLEAN
        /\ ipc = "body" => part = << >>
    BY DEF Typed, SlaveTyped, TypeOK
  <2>2. CASE Connect
    BY <2>1, <2>2 DEF Connect, ring, pool
  <2>3. CASE Break
    <3>1. breaks + 1 \in 0 .. MaxBreaks
      BY <2>1, <2>3, Constants DEF Break
    <3>2. QED
      BY <2>1, <2>3, <3>1 DEF Break, ring, pool
  <2>4. CASE RecvTooBig
    BY <2>1, <2>4 DEF RecvTooBig, ring, pool, flags
  <2>5. CASE Stop
    BY <2>1, <2>5 DEF Stop, ring, pool, flags
  <2>6. QED
    BY <2>2, <2>3, <2>4, <2>5
<1>2. Published' = Published
  BY <1>1 DEF Published
<1>3. TypeOK'
  BY <1>1 DEF Typed, SlaveTyped, TypeOK
<1>4. part' \in Seq(Cells)
  BY <1>1, EmptySeq DEF Typed, SlaveTyped
<1>5. QED
  BY <1>1, <1>2, <1>3, <1>4 DEF Typed, SlaveTyped

LEMMA RecordCells ==
  ASSUME NEW r \in Records
  PROVE  /\ D!Record(r) \in Seq(Cells) /\ Len(D!Record(r)) = Body[r] + 1
         /\ \A k \in 1 .. Body[r] + 1 : D!Record(r)[k] = <<r, k - 1>>
<1> DEFINE n == Body[r] + 1
           s == [k \in 1 .. n |-> <<r, k - 1>>]
<1>1. n \in Nat /\ Body[r] \in Nat
  BY Constants
<1>2. \A k \in 1 .. n : <<r, k - 1>> \in Cells
  BY <1>1, CellOf
<1>3. s \in [1 .. n -> Cells]
  <2> HIDE DEF n
  <2>1. QED
    BY <1>2
<1>4. s \in Seq(Cells) /\ DOMAIN s = 1 .. n
  <2> HIDE DEF n
  <2>1. QED
    BY <1>1, <1>3, SeqDef
<1>5. Len(s) = n
  <2> HIDE DEF s, n
  <2>1. QED
    BY <1>1, <1>4, LenProperties
<1>6. QED
  BY <1>4, <1>5 DEF D!Record

\* The session of the master: its ring, its buffer and the connection.
LEMMA SendsTyped ==
  ASSUME Typed, D!Next
  PROVE  /\ D!TypeOK' /\ net' \in Seq(Cells) /\ sbuf' \in Seq(Cells) /\ queue' \in Seq(Records)
<1> USE DEF D!TypeOK
<1>1. /\ dpc \in {"free", "get", "send", "sendRest", "spin", "select"}
      /\ next \in 1 .. NRec + 1 /\ open \in BOOLEAN
      /\ Len(queue) <= MasterNum /\ Len(sbuf) <= SendSize /\ Len(net) <= NetSize
      /\ net \in Seq(Cells) /\ sbuf \in Seq(Cells) /\ queue \in Seq(Records)
      /\ Len(net) \in Nat /\ Len(sbuf) \in Nat /\ Len(queue) \in Nat
  BY LenProperties DEF Typed
<1>2. CASE D!Publish
  <2>1. next \in Records /\ next + 1 \in 1 .. NRec + 1
    BY <1>1, <1>2, Constants DEF D!Publish
  <2>2. queue' \in Seq(Records) /\ Len(queue') = Len(queue) + 1
    BY <1>1, <1>2, <2>1, AppendProperties DEF D!Publish
  <2>3. Len(queue') <= MasterNum
    BY <1>1, <1>2, <2>2, Constants DEF D!Publish
  <2>4. QED
    BY <1>1, <1>2, <2>1, <2>2, <2>3 DEF D!Publish
<1>3. CASE D!Fill
  <2>1. queue # << >> /\ queue' = Tail(queue) /\ sbuf' = sbuf \o D!Record(Head(queue))
    BY <1>3 DEF D!Fill
  <2>2. Head(queue) \in Records /\ queue' \in Seq(Records) /\ Len(queue') = Len(queue) - 1
    BY <1>1, <2>1, HeadTailProperties
  <2>3. sbuf' \in Seq(Cells) /\ Len(sbuf') = Len(sbuf) + (Body[Head(queue)] + 1)
    BY <1>1, <2>1, <2>2, RecordCells, ConcatProperties
  <2>4. Len(sbuf') <= SendSize
    BY <1>1, <1>3, <2>2, <2>3, Constants, SMTT(30) DEF D!Fill, D!Fits
  <2>5. UNCHANGED <<dpc, next, open, net>>
    BY <1>3 DEF D!Fill
  <2>6. Len(queue') <= MasterNum
    BY <1>1, <2>2, Constants
  <2>7. QED
    BY <1>1, <2>2, <2>3, <2>4, <2>5, <2>6
<1>4. ASSUME NEW n \in 1 .. SendSize, D!Write(n)
      PROVE  D!TypeOK' /\ net' \in Seq(Cells) /\ sbuf' \in Seq(Cells) /\ queue' \in Seq(Records)
  <2>1. CASE open
    <3>1. /\ net' = net \o SubSeq(sbuf, 1, n) /\ sbuf' = SubSeq(sbuf, n + 1, Len(sbuf))
          /\ Len(net) + n <= NetSize /\ n <= Len(sbuf)
          /\ UNCHANGED <<dpc, next, queue, open>>
      BY <1>4, <2>1 DEF D!Write
    <3>2. n \in 0 .. Len(sbuf) /\ n \in Nat
      BY <1>1, <3>1, Constants
    <3>3. /\ SubSeq(sbuf, 1, n) \in Seq(Cells) /\ sbuf' \in Seq(Cells)
          /\ Len(SubSeq(sbuf, 1, n)) = n /\ Len(sbuf') = Len(sbuf) - n
      BY <1>1, <3>1, <3>2, Cut
    <3>4. net' \in Seq(Cells) /\ Len(net') = Len(net) + n
      BY <1>1, <3>1, <3>3, ConcatProperties
    <3>5. Len(net') <= NetSize /\ Len(sbuf') <= SendSize
      BY <1>1, <3>1, <3>2, <3>3, <3>4, Constants
    <3>6. QED
      BY <1>1, <3>1, <3>3, <3>4, <3>5
  <2>2. CASE ~open
    <3>1. dpc' = "free" /\ UNCHANGED <<net, sbuf, next, queue, open>>
      BY <1>4, <2>2 DEF D!Write
    <3>2. QED
      BY <1>1, <3>1
  <2>3. QED
    BY <2>1, <2>2
<1>5. CASE D!FlushFull \/ D!FlushEmpty \/ D!Written \/ D!Spin \/ D!Select
  <2>1. /\ UNCHANGED <<next, queue, sbuf, open, net>>
        /\ dpc' \in {"free", "get", "send", "sendRest", "spin", "select"}
    BY <1>5 DEF D!FlushFull, D!FlushEmpty, D!Written, D!Spin, D!Select
  <2>2. QED
    BY <1>1, <2>1
<1>6. QED
  BY <1>2, <1>3, <1>4, <1>5 DEF D!Next, D!DumpThread

LEMMA TypedStep == Typed /\ [TransferNext]_all => Typed'
<1> SUFFICES ASSUME Typed, [TransferNext]_all PROVE Typed'
  OBVIOUS
<1>1. /\ net \in Seq(Cells) /\ sbuf \in Seq(Cells) /\ queue \in Seq(Records) /\ D!TypeOK
      /\ Len(net) \in Nat /\ Len(net) <= NetSize
      /\ << >> \in Seq(Cells) /\ << >> \in Seq(Records) /\ Len(<< >>) = 0
  BY LenProperties, EmptySeq DEF Typed, D!TypeOK
<1>2. ASSUME SlaveTyped', UNCHANGED <<session, open>>, net' \in Seq(Cells), Len(net') <= Len(net)
      PROVE  Typed'
  <2>1. Len(net') <= NetSize
    BY <1>1, <1>2, LenProperties, Constants
  <2>2. QED
    BY <1>1, <1>2, <2>1 DEF Typed, D!TypeOK, session
<1>3. CASE Connects
  <2>1. /\ dpc' = "get" /\ next' = dumpInfo + 1 /\ queue' = << >> /\ sbuf' = << >>
        /\ open' = TRUE /\ net' = << >>
    BY <1>3 DEF Connects, D!Start
  <2>2. dumpInfo + 1 \in 1 .. NRec + 1
    BY Constants DEF Typed, SlaveTyped, TypeOK
  <2>3. D!TypeOK'
    BY <1>1, <2>1, <2>2, Constants DEF D!TypeOK
  <2>4. SlaveTyped'
    BY <1>3, LinkTyped DEF Connects
  <2>5. QED
    BY <1>1, <2>1, <2>3, <2>4 DEF Typed
<1>4. CASE Closes
  <2>1. net' = << >> /\ open' = FALSE /\ UNCHANGED session
    BY <1>4 DEF Closes, Break, RecvTooBig, Stop
  <2>2. D!TypeOK'
    <3>1. Len(net') <= NetSize
      BY <1>1, <2>1, Constants
    <3>2. open' \in BOOLEAN
      BY <2>1
    <3>3. QED
      BY <1>1, <2>1, <3>1, <3>2 DEF D!TypeOK, session
  <2>3. SlaveTyped'
    BY <1>4, LinkTyped DEF Closes
  <2>4. QED
    BY <1>1, <2>1, <2>2, <2>3 DEF Typed, session
<1>5. CASE Receives
  <2>1. UNCHANGED <<session, open>> /\ UNCHANGED maxSeen
    BY <1>5 DEF Receives
  <2>2. CASE Set
    <3>1. net' = net
      BY <2>2 DEF Set
    <3>2. QED
      BY <1>1, <1>2, <2>1, <2>2, <3>1, SetTyped
  <2>3. CASE RecvBuffered \/ RecvStart \/ \E n \in 1 .. Size : Read(n)
    <3>1. CASE Waits
      <4>1. SlaveTyped'
        BY <2>1, <3>1, WaitsTyped
      <4>2. QED
        BY <1>2, <2>1, <3>1, <4>1 DEF Waits
    <3>2. ASSUME NEW cells \in Seq(Cells), Completes(cells) PROVE Typed'
      <4>1. ipc \in {"head", "readHead", "body", "readBody"}
        BY <3>2 DEF Completes, Receiving
      <4>2. SlaveTyped'
        BY <2>1, <3>2, <4>1, HeadTyped, BodyTyped
      <4>3. QED
        BY <1>2, <2>1, <3>2, <4>2 DEF Completes
    <3>3. QED
      BY <2>3, <3>1, <3>2, Reading
  <2>4. QED
    BY <1>5, <2>2, <2>3 DEF Receives, Receive
<1>6. CASE TakesRecord
  <2>1. net' = net /\ UNCHANGED <<session, open>>
    BY <1>6 DEF TakesRecord, RedisThread, Get, GetAdvance
  <2>2. QED
    BY <1>1, <1>2, <1>6, <2>1, TakesTyped
<1>7. CASE Sends
  <2>1. D!Next /\ UNCHANGED <<slave, maxSeen>>
    BY <1>7 DEF Sends
  <2>2. SlaveTyped'
    BY <2>1 DEF slave, ring, pool, flags, Typed, SlaveTyped, TypeOK, Published, Wanted
  <2>3. QED
    BY <2>1, <2>2, SendsTyped DEF Typed
<1>8. CASE UNCHANGED all
  <2>1. SlaveTyped'
    BY <1>8 DEF all, vars, ring, pool, flags, Typed, SlaveTyped, TypeOK, Published, Wanted
  <2>2. QED
    BY <1>1, <1>2, <1>8, <2>1, Constants DEF all, vars
<1>9. QED
  BY <1>3, <1>4, <1>5, <1>6, <1>7, <1>8 DEF TransferNext

-----------------------------------------------------------------------------
(* The chunks.                                                             *)

LEMMA HoldingFinite ==
  ASSUME NEW c
  PROVE  /\ Holding(c) \subseteq Slots /\ IsFiniteSet(Holding(c)) /\ Cardinality(Holding(c)) \in Nat
         /\ ipc \in {"head", "readHead"} /\ wp \in Slots =>
              wp \notin Holding(c) /\ Cardinality(Holding(c)) < Num
<1>1. Holding(c) \subseteq Slots
  BY DEF Holding
<1>2. IsFiniteSet(Slots) /\ Cardinality(Slots) = Num
  <2>1. 0 \in Int /\ Num - 1 \in Int /\ ~(0 > Num - 1) /\ (Num - 1) - 0 + 1 = Num
    BY Constants
  <2>2. IsFiniteSet(0 .. Num - 1) /\ Cardinality(0 .. Num - 1) = (Num - 1) - 0 + 1
    BY <2>1, FS_Interval
  <2>3. QED
    BY <2>1, <2>2 DEF Slots
<1>3. IsFiniteSet(Holding(c)) /\ Cardinality(Holding(c)) \in Nat
  <2>1. IsFiniteSet(Holding(c))
    BY <1>1, <1>2, FS_Subset
  <2>2. QED
    BY <2>1, FS_CardinalityType
<1>4. ASSUME ipc \in {"head", "readHead"}, wp \in Slots
      PROVE  wp \notin Holding(c) /\ Cardinality(Holding(c)) < Num
  <2>1. wp \notin Holding(c)
    BY <1>4 DEF Holding
  <2>2. IsFiniteSet(Slots \ {wp}) /\ Cardinality(Slots \ {wp}) = Num - 1
    BY <1>2, <1>4, FS_RemoveElement
  <2>3. Holding(c) \in SUBSET (Slots \ {wp})
    BY <1>1, <2>1
  <2>4. Cardinality(Holding(c)) <= Num - 1
    BY <2>2, <2>3, FS_Subset
  <2>5. QED
    BY <1>3, <2>1, <2>4, Constants
<1>5. QED
  BY <1>1, <1>3, <1>4

LEMMA HandedInit == TransferInit => Handed
<1> SUFFICES ASSUME TransferInit PROVE Handed
  OBVIOUS
<1>1. /\ \A c \in Classes : fresh[c] = 0 /\ freeChunk[c] = << >>
      /\ \A i \in Slots : data[i] = NULL
  BY DEF TransferInit, Init
<1>2. Range(<< >>) = {} /\ Len(<< >>) = 0
  BY EmptySeq DEF Range
<1>3. \A c \in Classes : fresh[c] <= Len(freeChunk[c]) + Cardinality(Holding(c))
  BY <1>1, <1>2, HoldingFinite
<1>4. QED
  BY <1>1, <1>2, <1>3, Constants DEF Handed, NoLeak

\* A slot that gets its chunk back loses none.
LEMMA HandedFrame ==
  ASSUME Typed, Handed, UNCHANGED <<data, freeChunk, fresh>>,
         ipc' \in {"head", "readHead"} => ipc \in {"head", "readHead"} /\ wp' = wp,
         ipc = "stopped" => ipc' = "stopped"
  PROVE  Handed'
<1>1. ASSUME ipc' # "stopped", NEW c \in Classes
      PROVE  fresh'[c] <= Len(freeChunk'[c]) + Cardinality(Holding(c)')
  <2>1. Holding(c) \subseteq Holding(c)' /\ Holding(c)' \subseteq Slots
    BY DEF Holding
  <2>2. IsFiniteSet(Holding(c)') /\ Cardinality(Holding(c)') \in Nat
    <3>1. IsFiniteSet(Slots)
      BY FS_Interval, Constants DEF Slots
    <3>2. IsFiniteSet(Holding(c)')
      BY <2>1, <3>1, FS_Subset
    <3>3. QED
      BY <3>2, FS_CardinalityType
  <2>3. Cardinality(Holding(c)) <= Cardinality(Holding(c)')
    BY <2>1, <2>2, FS_Subset
  <2>4. fresh[c] <= Len(freeChunk[c]) + Cardinality(Holding(c))
    BY <1>1 DEF Handed
  <2>5. fresh[c] \in Nat /\ Len(freeChunk[c]) \in Nat /\ Cardinality(Holding(c)) \in Nat
    <3>1. fresh[c] \in Nat /\ freeChunk[c] \in Seq(Chunks)
      BY Constants DEF Typed, SlaveTyped, TypeOK
    <3>2. QED
      BY <3>1, LenProperties, HoldingFinite
  <2>6. QED
    BY <2>2, <2>3, <2>4, <2>5
<1>2. QED
  BY <1>1 DEF Handed, NoLeak

LEMMA HandedSet == Typed /\ Handed /\ Set => Handed'
<1> SUFFICES ASSUME Typed, Handed, Set PROVE Handed'
  OBVIOUS
<1>1. /\ ipc = "set" /\ ipc' = "head" /\ freeChunk' = Freed(data[wp])
      /\ UNCHANGED <<wp, data, fresh>>
  BY DEF Set, ring
<1>2. /\ data \in [Slots -> Chunks \cup {NULL}] /\ freeChunk \in [Classes -> Seq(Chunks)]
      /\ wp \in Slots /\ fresh \in [Classes -> 0 .. Num + 1]
  BY DEF Typed, SlaveTyped, TypeOK
<1>3. \A c \in Classes : /\ \A x \in Range(freeChunk[c]) : x[1] = c /\ x[2] <= fresh[c]
                         /\ fresh[c] <= Len(freeChunk[c]) + Cardinality(Holding(c))
                         /\ freeChunk[c] \in Seq(Chunks) /\ Len(freeChunk[c]) \in Nat
  BY <1>1, <1>2, LenProperties DEF Handed
<1>4. CASE data[wp] = NULL
  <2>1. freeChunk' = freeChunk /\ \A c \in Classes : Holding(c)' = Holding(c)
    BY <1>1, <1>4 DEF Freed, Holding
  <2>2. QED
    BY <1>1, <1>3, <2>1 DEF Handed, NoLeak
<1>5. CASE data[wp] # NULL
  <2> DEFINE x == data[wp]
             k == data[wp][1]
  <2>1. x \in Chunks /\ k \in Classes /\ x[2] <= fresh[k]
    BY <1>2, <1>5, Requests DEF Handed
  <2>2. freeChunk' = [freeChunk EXCEPT ![k] = Append(@, x)]
    BY <1>1, <1>5 DEF Freed
  <2>3. /\ Len(Append(freeChunk[k], x)) = Len(freeChunk[k]) + 1
        /\ Range(Append(freeChunk[k], x)) = Range(freeChunk[k]) \cup {x}
    <3>1. freeChunk[k] \in Seq(Chunks)
      BY <1>2, <2>1
    <3> HIDE DEF x, k
    <3>2. QED
      BY <2>1, <3>1, PushPop, ZenonT(30)
  <2>4. ASSUME NEW c \in Classes
        PROVE  /\ \A y \in Range(freeChunk'[c]) : y[1] = c /\ y[2] <= fresh[c]
               /\ fresh[c] <= Len(freeChunk'[c]) + Cardinality(Holding(c)')
    <3>1. CASE c = k
      <4>1. freeChunk'[c] = Append(freeChunk[k], x)
        BY <1>2, <2>2, <3>1
      <4>2. Holding(c)' = Holding(c) \ {wp} /\ wp \in Holding(c)
        BY <1>1, <1>2, <1>5, <3>1 DEF Holding
      <4>3. Cardinality(Holding(c)') = Cardinality(Holding(c)) - 1
        BY <4>2, HoldingFinite, FS_RemoveElement
      <4>4. fresh[c] <= (Len(freeChunk[k]) + 1) + (Cardinality(Holding(c)) - 1)
        <5>1. Cardinality(Holding(c)) \in Nat /\ Len(freeChunk[k]) \in Nat
          BY <1>3, <2>1, HoldingFinite
        <5>2. QED
          BY <1>3, <3>1, <5>1
      <4>5. \A y \in Range(freeChunk[k]) \cup {x} : y[1] = k /\ y[2] <= fresh[k]
        BY <1>3, <2>1
      <4> HIDE DEF x, k
      <4>6. QED
        BY <2>3, <3>1, <4>1, <4>3, <4>4, <4>5
    <3>2. CASE c # k
      <4>1. freeChunk'[c] = freeChunk[c]
        BY <1>2, <2>2, <3>2
      <4>2. Holding(c)' = Holding(c)
        BY <1>1, <3>2 DEF Holding
      <4>3. QED
        BY <1>3, <4>1, <4>2
    <3>3. QED
      BY <3>1, <3>2
  <2>5. QED
    BY <1>1, <2>4 DEF Handed, NoLeak
<1>6. QED
  BY <1>4, <1>5

\* A new chunk is taken from the slab only when all others are in other slots.
LEMMA HandedHead ==
  ASSUME Typed, Handed, NEW cells \in Seq(Cells), Completes(cells), ipc \in {"head", "readHead"}
  PROVE  Handed' /\ ipc' = "body" /\ \E c \in Classes : Popped(c) \/ Carved(c)
<1>1. PICK size \in 1 .. Size + 1 :
        /\ Class[size] \in Classes
        /\ Popped(Class[size]) \/ Carved(Class[size]) \/ NoChunk(Class[size])
  BY HeadDone
<1> DEFINE k == Class[size]
<1>2. /\ data \in [Slots -> Chunks \cup {NULL}] /\ freeChunk \in [Classes -> Seq(Chunks)]
      /\ wp \in Slots /\ fresh \in [Classes -> 0 .. Num + 1] /\ wp' = wp
  BY HeadDone DEF Typed, SlaveTyped, TypeOK
<1>3. \A c \in Classes : /\ \A x \in Range(freeChunk[c]) : x[1] = c /\ x[2] <= fresh[c]
                         /\ fresh[c] <= Len(freeChunk[c]) + Cardinality(Holding(c))
                         /\ freeChunk[c] \in Seq(Chunks) /\ Len(freeChunk[c]) \in Nat
                         /\ fresh[c] <= Num /\ fresh[c] \in Nat
  BY <1>2, LenProperties, Constants DEF Handed, NoLeak
<1>4. \A i \in Slots : data[i] # NULL => data[i][2] <= fresh[data[i][1]] /\ data[i][1] \in Classes
  BY <1>2, Requests DEF Handed
<1>5. k \in Classes /\ ~NoChunk(k) /\ (Popped(k) \/ Carved(k))
  <2>0. k \in Classes /\ (Popped(k) \/ Carved(k) \/ NoChunk(k))
    BY <1>1
  <2> HIDE DEF k
  <2>1. ~(fresh[k] > Num)
    <3>1. fresh[k] <= Num /\ fresh[k] \in Nat /\ Num \in Nat
      BY <1>3, <2>0, Constants
    <3>2. QED
      BY <3>1
  <2>2. QED
    BY <2>0, <2>1 DEF NoChunk
<1> HIDE DEF k
<1>6. ASSUME NEW x \in Chunks, x[1] = k, data' = [data EXCEPT ![wp] = x], ipc' = "body"
      PROVE  /\ \A c \in Classes : c # k => Holding(c)' = Holding(c)
             /\ Cardinality(Holding(k)') = Cardinality(Holding(k)) + 1
  <2>1. x # NULL
    BY Requests
  <2>2. \A c \in Classes : c # k => Holding(c)' = Holding(c)
    BY <1>2, <1>6 DEF Holding
  <2>3. Holding(k)' = Holding(k) \cup {wp} /\ wp \notin Holding(k)
    BY <1>2, <1>6, <2>1 DEF Holding
  <2>4. QED
    BY <2>2, <2>3, HoldingFinite, FS_AddElement
<1>7. Cardinality(Holding(k)) \in Nat /\ Cardinality(Holding(k)) < Num
  BY <1>2, HoldingFinite
<1>8. CASE Popped(k)
  <2> DEFINE f == freeChunk[k]
             x == Last(f)
  <2>1. /\ f # << >> /\ data' = [data EXCEPT ![wp] = x] /\ ipc' = "body" /\ fresh' = fresh
        /\ freeChunk' = [freeChunk EXCEPT ![k] = Front(f)]
    BY <1>8 DEF Popped
  <2>2. x \in Chunks /\ x \in Range(f) /\ Len(Front(f)) = Len(f) - 1 /\ Range(Front(f)) \subseteq Range(f)
    BY <1>3, <1>5, <2>1, PushPop
  <2>3. x[1] = k /\ x[2] <= fresh[k]
    BY <1>3, <1>5, <2>2
  <2>4. /\ \A c \in Classes : c # k => Holding(c)' = Holding(c)
        /\ Cardinality(Holding(k)') = Cardinality(Holding(k)) + 1
    BY <1>6, <2>1, <2>2, <2>3
  <2>5. ASSUME NEW c \in Classes
        PROVE  /\ \A y \in Range(freeChunk'[c]) : y[1] = c /\ y[2] <= fresh'[c]
               /\ fresh'[c] <= Len(freeChunk'[c]) + Cardinality(Holding(c)')
    <3>1. CASE c = k
      <4>1. freeChunk'[c] = Front(f)
        BY <1>2, <2>1, <3>1
      <4>2. fresh[k] <= Len(f) + Cardinality(Holding(k)) /\ Len(f) \in Nat
        BY <1>3, <1>5
      <4> HIDE DEF x, f
      <4>3. fresh[k] <= Len(Front(f)) + Cardinality(Holding(k)')
        BY <1>3, <1>5, <1>7, <2>2, <2>4, <4>2
      <4>4. \A y \in Range(f) : y[1] = k /\ y[2] <= fresh[k]
        BY <1>3, <1>5 DEF f
      <4>5. QED
        BY <2>1, <2>2, <3>1, <4>1, <4>3, <4>4
    <3>2. CASE c # k
      BY <1>2, <1>3, <2>1, <2>4, <3>2
    <3>3. QED
      BY <3>1, <3>2
  <2>6. \A i \in Slots : data'[i] # NULL => data'[i][2] <= fresh'[data'[i][1]]
    BY <1>2, <1>4, <2>1, <2>3
  <2>7. NoLeak'
    BY <1>3, <2>1 DEF NoLeak
  <2>8. QED
    BY <1>5, <1>8, <2>1, <2>5, <2>6, <2>7 DEF Handed
<1>9. CASE Carved(k)
  <2> DEFINE n == fresh[k] + 1
             x == <<k, n>>
  <2>1. /\ freeChunk[k] = << >> /\ freeChunk' = freeChunk /\ data' = [data EXCEPT ![wp] = x]
        /\ fresh' = [fresh EXCEPT ![k] = n] /\ ipc' = "body"
    BY <1>9 DEF Carved
  <2>2. n \in 1 .. Num /\ fresh[k] <= Cardinality(Holding(k)) /\ fresh[k] \in Nat
    <3>1. Len(freeChunk[k]) = 0
      BY <2>1, EmptySeq
    <3>2. fresh[k] <= 0 + Cardinality(Holding(k)) /\ fresh[k] \in Nat
      BY <1>3, <1>5, <3>1
    <3>3. QED
      BY <1>7, <3>2, Constants
  <2>3. x \in Chunks /\ x[1] = k /\ x[2] = n
    BY <1>5, <2>2, Requests, Constants
  <2>4. /\ \A c \in Classes : c # k => Holding(c)' = Holding(c)
        /\ Cardinality(Holding(k)') = Cardinality(Holding(k)) + 1
    BY <1>6, <2>1, <2>3
  <2>5. \A c \in Classes : fresh'[c] \in Nat /\ fresh[c] <= fresh'[c] /\ fresh'[c] <= Num
    BY <1>2, <1>3, <2>1, <2>2, Constants
  <2>6. \A c \in Classes : \A y \in Range(freeChunk'[c]) : y[1] = c /\ y[2] <= fresh'[c]
    <3>1. ASSUME NEW c \in Classes, NEW y \in Range(freeChunk[c]) PROVE y[1] = c /\ y[2] <= fresh'[c]
      <4>1. y[1] = c /\ y[2] <= fresh[c] /\ y \in Chunks
        <5>1. Range(freeChunk[c]) \subseteq Chunks
          BY <1>2, LenProperties DEF Range
        <5>2. QED
          BY <1>3, <5>1
      <4>2. y[2] \in Nat
        BY <4>1, Requests, Constants
      <4>3. QED
        BY <1>3, <2>5, <4>1, <4>2
    <3>2. QED
      BY <2>1, <3>1
  <2>7. \A i \in Slots : data'[i] # NULL => data'[i][2] <= fresh'[data'[i][1]]
    <3>1. ASSUME NEW i \in Slots, data'[i] # NULL PROVE data'[i][2] <= fresh'[data'[i][1]]
      <4>1. CASE i = wp
        BY <1>2, <1>5, <2>1, <2>2, <2>3, <4>1
      <4>2. CASE i # wp
        <5>1. data'[i] = data[i] /\ data[i] \in Chunks /\ data[i][1] \in Classes
              /\ data[i][2] <= fresh[data[i][1]]
          BY <1>2, <1>4, <2>1, <3>1, <4>2
        <5>2. data[i][2] \in Nat
          BY <5>1, Requests, Constants
        <5>3. QED
          BY <1>3, <2>5, <5>1, <5>2
      <4>3. QED
        BY <4>1, <4>2
    <3>2. QED
      BY <3>1
  <2>8. \A c \in Classes : fresh'[c] <= Len(freeChunk'[c]) + Cardinality(Holding(c)')
    <3>1. fresh'[k] <= Len(freeChunk'[k]) + Cardinality(Holding(k)')
      <4>1. fresh'[k] = fresh[k] + 1 /\ Len(freeChunk'[k]) = 0
        BY <1>2, <1>5, <2>1, EmptySeq
      <4>2. QED
        BY <1>7, <2>2, <2>4, <4>1
    <3>2. ASSUME NEW c \in Classes, c # k
          PROVE  fresh'[c] <= Len(freeChunk'[c]) + Cardinality(Holding(c)')
      <4>1. fresh'[c] = fresh[c] /\ freeChunk'[c] = freeChunk[c] /\ Holding(c)' = Holding(c)
        BY <1>2, <2>1, <2>4, <3>2
      <4>2. QED
        BY <1>3, <4>1
    <3>3. QED
      BY <3>1, <3>2
  <2>9. QED
    BY <1>5, <1>9, <2>1, <2>5, <2>6, <2>7, <2>8 DEF Handed, NoLeak
<1>10. QED
  BY <1>5, <1>8, <1>9

\* What each action does that no chunk is taken or freed by.
LEMMA ChunksKept ==
  ASSUME Typed, \/ Connects \/ Closes \/ TakesRecord \/ Sends \/ UNCHANGED all
                \/ Receives /\ Waits
                \/ Receives /\ \E cells \in Seq(Cells) : Completes(cells) /\ ipc \in {"body", "readBody"}
  PROVE  /\ UNCHANGED <<data, freeChunk, fresh, shared>>
         /\ ipc' \in {"head", "readHead"} => ipc \in {"head", "readHead"} /\ wp' = wp
         /\ ipc = "stopped" => ipc' = "stopped"
         /\ ipc \in {"head", "readHead", "stopped"} => wp' = wp
         /\ \/ ipc' \in {"head", "readHead", "stopped"} \/ ipc \notin {"head", "readHead", "stopped"}
            \/ dangling' \/ data[wp] = NULL
         /\ dangling => dangling'
<1>1. CASE Connects
  BY <1>1 DEF Connects, Connect, ring, pool
<1>2. CASE Closes
  <2>1. CASE Break
    <3>1. UNCHANGED <<data, freeChunk, fresh, shared, wp>> /\ ipc' = "connect" /\ ipc \in {"readHead", "readBody"}
      BY <2>1 DEF Break, ring, pool
    <3>2. dangling' = (dangling \/ (ipc = "readHead" /\ data[wp] # NULL))
      BY <2>1 DEF Break
    <3>3. (dangling => dangling') /\ (ipc = "readHead" /\ data[wp] # NULL => dangling')
      BY <3>2, Zenon
    <3>4. QED
      BY <3>1, <3>3
  <2>2. CASE RecvTooBig \/ Stop
    BY <2>2 DEF RecvTooBig, Stop, ring, pool, flags
  <2>3. QED
    BY <1>2, <2>1, <2>2 DEF Closes
<1>3. CASE TakesRecord
  BY <1>3 DEF TakesRecord, RedisThread, Get, GetAdvance, ring, pool, flags
<1>4. CASE Sends
  BY <1>4 DEF Sends, slave, ring, pool, flags
<1>5. CASE UNCHANGED all
  BY <1>5 DEF all, vars, ring, pool, flags
<1>6. CASE Waits
  BY <1>6 DEF Waits, ring, pool, flags
<1>7. ASSUME NEW cells \in Seq(Cells), Completes(cells), ipc \in {"body", "readBody"}
      PROVE  /\ UNCHANGED <<data, freeChunk, fresh, shared, dangling>> /\ ipc' = "set"
  BY <1>7, BodyDone DEF Completes, flags
<1>8. QED
  BY <1>1, <1>2, <1>3, <1>4, <1>5, <1>6, <1>7

\* A step of the io thread frees the chunk of the slot, takes one for it, or
\* neither.
LEMMA ReceiveCases ==
  ASSUME Typed, Receives
  PROVE  \/ Set \/ Waits
         \/ \E cells \in Seq(Cells) : Completes(cells) /\ ipc \in {"body", "readBody"}
         \/ \E cells \in Seq(Cells) : Completes(cells) /\ ipc \in {"head", "readHead"}
BY Reading DEF Receives, Receive, Completes, Receiving

LEMMA HandedStep == Typed /\ Handed /\ [TransferNext]_all => Handed'
<1> SUFFICES ASSUME Typed, Handed, [TransferNext]_all PROVE Handed'
  OBVIOUS
<1>1. CASE Connects \/ Closes \/ TakesRecord \/ Sends \/ UNCHANGED all
  BY <1>1, ChunksKept, HandedFrame
<1>2. CASE Receives
  <2>1. CASE Set
    BY <2>1, HandedSet
  <2>2. CASE Waits \/ \E cells \in Seq(Cells) : Completes(cells) /\ ipc \in {"body", "readBody"}
    BY <1>2, <2>2, ChunksKept, HandedFrame
  <2>3. CASE \E cells \in Seq(Cells) : Completes(cells) /\ ipc \in {"head", "readHead"}
    BY <2>3, HandedHead
  <2>4. QED
    BY <1>2, <2>1, <2>2, <2>3, ReceiveCases
<1>3. QED
  BY <1>1, <1>2 DEF TransferNext

\* What ChunkExclusive says, with the stacks as sets.
LEMMA ExclusiveFacts ==
  ChunkExclusive <=>
    /\ \A i, j \in Owners : data[i] = data[j] => i = j
    /\ \A i \in Owners : \A c \in Classes : data[i] \notin Range(freeChunk[c])
    /\ \A c \in Classes : IsInjective(freeChunk[c])
BY DEF ChunkExclusive, ToSet, Range

LEMMA ExclusiveInit == TransferInit => ChunkExclusive
<1> SUFFICES ASSUME TransferInit PROVE ChunkExclusive
  OBVIOUS
<1>1. Owners = {} /\ \A c \in Classes : freeChunk[c] = << >>
  BY DEF TransferInit, Init, Owners
<1>2. IsInjective(<< >>)
  BY EmptySeq DEF IsInjective
<1>3. QED
  BY <1>1, <1>2, ExclusiveFacts

LEMMA ExclusiveFrame ==
  ASSUME ChunkExclusive, UNCHANGED <<data, freeChunk>>, Owners' \subseteq Owners
  PROVE  ChunkExclusive'
BY DEF ChunkExclusive

LEMMA ExclusiveSet == Typed /\ Handed /\ ChunkExclusive /\ Set => ChunkExclusive'
<1> SUFFICES ASSUME Typed, Handed, ChunkExclusive, Set PROVE ChunkExclusive'
  OBVIOUS
<1>1. /\ ipc = "set" /\ ipc' = "head" /\ freeChunk' = Freed(data[wp])
      /\ UNCHANGED <<wp, data, fresh>>
  BY DEF Set, ring
<1>2. /\ data \in [Slots -> Chunks \cup {NULL}] /\ freeChunk \in [Classes -> Seq(Chunks)]
      /\ wp \in Slots
  BY DEF Typed, SlaveTyped, TypeOK
<1>3. Owners' = Owners \ {wp} /\ (data[wp] # NULL => wp \in Owners)
  BY <1>1, <1>2 DEF Owners
<1>4. CASE data[wp] = NULL
  <2>1. freeChunk' = freeChunk
    BY <1>1, <1>4 DEF Freed
  <2>2. QED
    BY <1>1, <1>3, <2>1, ExclusiveFrame
<1>5. CASE data[wp] # NULL
  <2> DEFINE x == data[wp]
             k == data[wp][1]
  <2>1. x \in Chunks /\ k \in Classes /\ wp \in Owners
    BY <1>2, <1>3, <1>5, Requests
  <2>2. freeChunk' = [freeChunk EXCEPT ![k] = Append(@, x)]
    BY <1>1, <1>5 DEF Freed
  <2>3. x \notin Range(freeChunk[k])
    BY <2>1, ExclusiveFacts
  <2>4. /\ Range(Append(freeChunk[k], x)) = Range(freeChunk[k]) \cup {x}
        /\ IsInjective(Append(freeChunk[k], x))
    <3>1. freeChunk[k] \in Seq(Chunks) /\ IsInjective(freeChunk[k])
      BY <1>2, <2>1, ExclusiveFacts
    <3> HIDE DEF x, k
    <3>2. QED
      BY <2>1, <2>3, <3>1, PushPop
  <2>5. \A i \in Owners' : i \in Owners /\ data[i] # x
    BY <1>3, <2>1, ExclusiveFacts
  <2> HIDE DEF x, k
  <2>6. ASSUME NEW c \in Classes
        PROVE  IsInjective(freeChunk'[c]) /\ Range(freeChunk'[c]) \subseteq Range(freeChunk[c]) \cup {x}
    <3>1. CASE c = k
      BY <1>2, <2>1, <2>2, <2>4, <3>1
    <3>2. CASE c # k
      BY <1>2, <2>1, <2>2, <3>2, ExclusiveFacts
    <3>3. QED
      BY <3>1, <3>2
  <2>7. /\ \A i, j \in Owners' : data'[i] = data'[j] => i = j
        /\ \A i \in Owners' : \A c \in Classes : data'[i] \notin Range(freeChunk'[c])
    BY <1>1, <2>5, <2>6, ExclusiveFacts
  <2>8. QED
    BY <2>6, <2>7 DEF ChunkExclusive, ToSet, Range
<1>6. QED
  BY <1>4, <1>5

LEMMA ExclusiveHead ==
  ASSUME Typed, Handed, ChunkExclusive,
         NEW cells \in Seq(Cells), Completes(cells), ipc \in {"head", "readHead"}
  PROVE  ChunkExclusive' /\ (~shared => ~shared')
<1>1. PICK k \in Classes : Popped(k) \/ Carved(k)
  BY HandedHead
<1>2. /\ data \in [Slots -> Chunks \cup {NULL}] /\ freeChunk \in [Classes -> Seq(Chunks)]
      /\ wp \in Slots /\ wp' = wp /\ ipc' = "body" /\ fresh[k] \in Nat /\ freeChunk[k] \in Seq(Chunks)
  <2>1. wp' = wp /\ ipc' = "body"
    BY HeadDone, HandedHead
  <2>2. QED
    BY <2>1, Constants DEF Typed, SlaveTyped, TypeOK
<1>3. \A c \in Classes : \A x \in Range(freeChunk[c]) : x[1] = c /\ x[2] <= fresh[c]
  BY DEF Handed
<1>4. \A i \in Slots : data[i] # NULL => data[i][2] <= fresh[data[i][1]]
  BY DEF Handed
<1>5. wp \notin Owners /\ \A i \in Owners : i \in Slots /\ data[i] # NULL /\ i # wp
  BY DEF Owners
<1>6. ASSUME NEW x \in Chunks, data' = [data EXCEPT ![wp] = x],
             \A i \in Owners : data[i] # x,
             \A c \in Classes : /\ IsInjective(freeChunk'[c]) /\ x \notin Range(freeChunk'[c])
                                /\ Range(freeChunk'[c]) \subseteq Range(freeChunk[c])
      PROVE  ChunkExclusive' /\ (~shared => ~shared')
  <2>1. Owners' \subseteq Owners \cup {wp}
    BY <1>2, <1>6 DEF Owners
  <2>2. data'[wp] = x /\ \A i \in Owners : data'[i] = data[i]
    BY <1>2, <1>5, <1>6
  <2>3. \A i, j \in Owners' : data'[i] = data'[j] => i = j
    BY <1>6, <2>1, <2>2, ExclusiveFacts
  <2>4. \A i \in Owners' : \A c \in Classes : data'[i] \notin Range(freeChunk'[c])
    BY <1>6, <2>1, <2>2, ExclusiveFacts, SMTT(30)
  <2>5. ~shared => ~shared'
    <3>1. Hold(data'[wp])
      BY HeadDone
    <3>2. \A i \in Slots \ {wp} : data[i] # NULL => i \in Owners
      BY DEF Owners
    <3>3. shared' = (shared \/ \E i \in Slots \ {wp} : data[i] = x /\ x # NULL)
      BY <2>2, <3>1 DEF Hold
    <3>4. \A i \in Slots \ {wp} : ~(data[i] = x /\ x # NULL)
      BY <1>6, <3>2
    <3>5. QED
      BY <3>3, <3>4, Zenon
  <2>6. ChunkExclusive'
    BY <1>6, <2>3, <2>4 DEF ChunkExclusive, ToSet, Range
  <2>7. QED
    BY <2>5, <2>6
<1>7. CASE Popped(k)
  <2> DEFINE f == freeChunk[k]
             x == Last(freeChunk[k])
  <2>1. /\ f # << >> /\ data' = [data EXCEPT ![wp] = x]
        /\ freeChunk' = [freeChunk EXCEPT ![k] = Front(f)]
    BY <1>7 DEF Popped
  <2>2. /\ x \in Chunks /\ x \in Range(f) /\ Range(Front(f)) \subseteq Range(f)
        /\ IsInjective(Front(f)) /\ x \notin Range(Front(f))
    BY <1>2, <2>1, PushPop, ExclusiveFacts
  <2>3. \A i \in Owners : data[i] # x
    BY <2>2, ExclusiveFacts
  <2>4. x[1] = k
    BY <1>3, <2>2
  <2> HIDE DEF x
  <2>5. ASSUME NEW c \in Classes
        PROVE  /\ IsInjective(freeChunk'[c]) /\ x \notin Range(freeChunk'[c])
               /\ Range(freeChunk'[c]) \subseteq Range(freeChunk[c])
    <3>1. CASE c = k
      BY <1>2, <2>1, <2>2, <3>1
    <3>2. CASE c # k
      BY <1>2, <1>3, <2>1, <2>4, <3>2, ExclusiveFacts
    <3>3. QED
      BY <3>1, <3>2
  <2>6. QED
    BY <1>6, <2>1, <2>2, <2>3, <2>5
<1>8. CASE Carved(k)
  <2> DEFINE n == fresh[k] + 1
             x == <<k, n>>
  <2>1. data' = [data EXCEPT ![wp] = x] /\ freeChunk' = freeChunk /\ fresh[k] <= Num
    BY <1>8 DEF Carved
  <2>2. n \in 1 .. Num + 1 /\ ~(n <= fresh[k])
    BY <1>2, <2>1, Constants
  <2>3. x \in Chunks /\ x[1] = k /\ x[2] = n
    BY <2>2, Requests
  <2> HIDE DEF n, x
  <2>4. \A i \in Owners : data[i] # x
    BY <1>4, <1>5, <2>2, <2>3
  <2>5. \A c \in Classes : x \notin Range(freeChunk'[c])
    BY <1>3, <2>1, <2>2, <2>3
  <2>6. QED
    BY <1>6, <2>1, <2>3, <2>4, <2>5, ExclusiveFacts
<1>9. QED
  BY <1>1, <1>7, <1>8

LEMMA ExclusiveStep ==
  Typed /\ Handed /\ ChunkExclusiveIfClean /\ [TransferNext]_all => ChunkExclusiveIfClean'
<1> SUFFICES ASSUME Typed, Handed, ChunkExclusiveIfClean, [TransferNext]_all, ~dangling'
             PROVE  ChunkExclusive' /\ ~shared'
  BY DEF ChunkExclusiveIfClean
<1>1. ASSUME \/ Connects \/ Closes \/ TakesRecord \/ Sends \/ UNCHANGED all
             \/ Receives /\ Waits
             \/ Receives /\ \E cells \in Seq(Cells) : Completes(cells) /\ ipc \in {"body", "readBody"}
      PROVE  ChunkExclusive' /\ ~shared'
  <2>1. /\ UNCHANGED <<data, freeChunk, fresh, shared>>
        /\ ipc' \in {"head", "readHead"} => ipc \in {"head", "readHead"} /\ wp' = wp
        /\ ipc \in {"head", "readHead", "stopped"} => wp' = wp
        /\ \/ ipc' \in {"head", "readHead", "stopped"} \/ ipc \notin {"head", "readHead", "stopped"}
           \/ data[wp] = NULL
        /\ ~dangling
    BY <1>1, ChunksKept
  <2>2. Owners' \subseteq Owners
    BY <2>1 DEF Owners
  <2>3. QED
    BY <2>1, <2>2, ExclusiveFrame DEF ChunkExclusiveIfClean
<1>2. CASE Receives
  <2>1. CASE Set
    <3>1. ~dangling /\ shared' = shared
      BY <2>1 DEF Set, flags
    <3>2. QED
      BY <2>1, <3>1, ExclusiveSet DEF ChunkExclusiveIfClean
  <2>2. CASE \E cells \in Seq(Cells) : Completes(cells) /\ ipc \in {"head", "readHead"}
    <3>1. ~dangling
      BY <2>2 DEF Completes, flags
    <3>2. QED
      BY <2>2, <3>1, ExclusiveHead DEF ChunkExclusiveIfClean
  <2>3. QED
    BY <1>1, <1>2, <2>1, <2>2, ReceiveCases
<1>3. QED
  BY <1>1, <1>2 DEF TransferNext

LEMMA ApartInit == TransferInit => Apart
BY DEF TransferInit, Init, Apart

\* Only an allocation gives a slot another chunk, and it takes note of it when
\* another slot has the same.
LEMMA ApartStep == Typed /\ Apart /\ [TransferNext]_all => Apart'
<1> SUFFICES ASSUME Typed, Apart, [TransferNext]_all PROVE Apart'
  OBVIOUS
<1>1. ASSUME UNCHANGED <<data, shared>> PROVE Apart'
  BY <1>1 DEF Apart
<1>2. CASE Receives /\ Set
  BY <1>1, <1>2 DEF Set
<1>3. CASE Receives /\ \E cells \in Seq(Cells) : Completes(cells) /\ ipc \in {"head", "readHead"}
  <2>1. Hold(data'[wp])
    BY <1>3, HeadDone
  <2>2. data \in [Slots -> Chunks \cup {NULL}] /\ wp \in Slots
    BY DEF Typed, SlaveTyped, TypeOK
  <2>3. SUFFICES ASSUME ~shared',
                        NEW i \in Slots, NEW j \in Slots, data'[i] = data'[j], data'[i] # NULL
                 PROVE  i = j
    BY DEF Apart
  <2>4. ~shared /\ \A s \in Slots \ {wp} : data[s] = data'[wp] => data'[wp] = NULL
    <3> DEFINE x == data'[wp]
    <3>1. shared' = (shared \/ \E s \in Slots \ {wp} : data[s] = x /\ x # NULL)
      BY <2>1 DEF Hold
    <3> HIDE DEF x
    <3>2. ~shared /\ \A s \in Slots \ {wp} : data[s] = x => x = NULL
      BY <2>3, <3>1, Zenon
    <3>3. QED
      BY <3>2 DEF x
  <2>5. \A s \in Slots \ {wp} : data'[s] = data[s]
    BY <2>1, <2>2 DEF Hold
  <2>6. QED
    BY <2>3, <2>4, <2>5 DEF Apart
<1>4. CASE \/ Connects \/ Closes \/ TakesRecord \/ Sends \/ UNCHANGED all
           \/ Receives /\ Waits
           \/ Receives /\ \E cells \in Seq(Cells) : Completes(cells) /\ ipc \in {"body", "readBody"}
  BY <1>1, <1>4, ChunksKept
<1>5. QED
  BY <1>2, <1>3, <1>4, ReceiveCases DEF TransferNext

-----------------------------------------------------------------------------
(* The stream.                                                             *)

\* The places of two sequences in the one they make.
LEMMA Places ==
  ASSUME NEW s \in Seq(Cells), NEW t \in Seq(Cells)
  PROVE  /\ s \o t \in Seq(Cells) /\ Len(s) \in Nat /\ Len(t) \in Nat /\ Len(s \o t) = Len(s) + Len(t)
         /\ \A i \in 1 .. Len(s) : (s \o t)[i] = s[i] /\ s[i] \in Cells
         /\ \A i \in 1 .. Len(t) : (s \o t)[Len(s) + i] = t[i] /\ t[i] \in Cells
<1>1. /\ s \o t \in Seq(Cells) /\ Len(s) \in Nat /\ Len(t) \in Nat /\ Len(s \o t) = Len(s) + Len(t)
      /\ \A i \in 1 .. Len(s \o t) : (s \o t)[i] = IF i <= Len(s) THEN s[i] ELSE t[i - Len(s)]
  BY ConcatProperties, LenProperties
<1>2. /\ \A i \in 1 .. Len(s) : s[i] \in Cells
      /\ \A i \in 1 .. Len(t) : t[i] \in Cells
  BY ElementOfSeq
<1>3. ASSUME NEW i \in 1 .. Len(s) PROVE (s \o t)[i] = s[i]
  <2>1. i \in 1 .. Len(s \o t) /\ i <= Len(s)
    BY <1>1
  <2>2. QED
    BY <1>1, <2>1
<1>4. ASSUME NEW i \in 1 .. Len(t) PROVE (s \o t)[Len(s) + i] = t[i]
  <2>1. Len(s) + i \in 1 .. Len(s \o t) /\ ~(Len(s) + i <= Len(s)) /\ (Len(s) + i) - Len(s) = i
    BY <1>1
  <2>2. QED
    BY <1>1, <2>1
<1>5. QED
  BY <1>1, <1>2, <1>3, <1>4

\* The record a cell belongs to, and what of it is left.
LEMMA RestOf ==
  ASSUME NEW c \in Cells
  PROVE  /\ c[1] \in Records /\ c[1] \in Nat /\ c[1] > 0 /\ c[1] <= NRec
         /\ c[2] \in Nat /\ Body[c[1]] \in Nat /\ Body[c[1]] > 0 /\ Body[c[1]] - c[2] \in Nat
<1>1. c[1] \in Records /\ c[2] \in Nat /\ c[2] <= Body[c[1]]
  BY IsCell
<1>2. c[1] \in Nat /\ c[1] > 0 /\ c[1] <= NRec /\ Body[c[1]] \in Nat /\ Body[c[1]] > 0
  BY <1>1, Constants
<1>3. QED
  BY <1>1, <1>2

\* What Run says of one cell.
CellRuns(s, i) ==
  LET rest == Body[s[i][1]] - s[i][2]
  IN  /\ i + rest <= Len(s)
      /\ \A m \in 0 .. rest : s[i + m] = <<s[i][1], s[i][2] + m>>
      /\ i + rest < Len(s) => s[i + rest + 1] = <<s[i][1] + 1, 0>>

LEMMA RunCells == ASSUME NEW s PROVE Run(s) <=> \A i \in 1 .. Len(s) : CellRuns(s, i)
BY DEF Run, CellRuns

\* Cells taken from the front leave a run.
LEMMA RunDrop ==
  ASSUME NEW a \in Seq(Cells), NEW b \in Seq(Cells), Run(a \o b)
  PROVE  Run(b)
<1> DEFINE s == a \o b
<1>1. /\ Len(a) \in Nat /\ Len(b) \in Nat /\ Len(s) = Len(a) + Len(b)
      /\ \A i \in 1 .. Len(b) : s[Len(a) + i] = b[i] /\ b[i] \in Cells
  BY Places
<1>2. \A i \in 1 .. Len(s) : CellRuns(s, i)
  BY RunCells
<1> HIDE DEF s
<1>3. ASSUME NEW i \in 1 .. Len(b) PROVE CellRuns(b, i)
  <2> DEFINE k == Len(a) + i
             r == b[i][1]
             n == b[i][2]
             rest == Body[r] - n
  <2>1. k \in 1 .. Len(s) /\ s[k] = b[i] /\ k \in Nat /\ i \in Nat
    BY <1>1
  <2>2. rest \in Nat
    BY <1>1, RestOf
  <2>3. /\ k + rest <= Len(s)
        /\ \A m \in 0 .. rest : s[k + m] = <<r, n + m>>
        /\ k + rest < Len(s) => s[k + rest + 1] = <<r + 1, 0>>
    BY <1>2, <2>1 DEF CellRuns
  <2> HIDE DEF r, n, rest
  <2>4. i + rest <= Len(b)
    BY <1>1, <2>1, <2>2, <2>3
  <2>5. ASSUME NEW m \in 0 .. rest PROVE b[i + m] = <<r, n + m>>
    <3>1. i + m \in 1 .. Len(b) /\ k + m = Len(a) + (i + m)
      BY <1>1, <2>1, <2>2, <2>4
    <3>2. QED
      BY <1>1, <2>3, <3>1
  <2>6. ASSUME i + rest < Len(b) PROVE b[i + rest + 1] = <<r + 1, 0>>
    <3>1. i + rest + 1 \in 1 .. Len(b) /\ k + rest + 1 = Len(a) + (i + rest + 1) /\ k + rest < Len(s)
      BY <1>1, <2>1, <2>2, <2>6
    <3>2. QED
      BY <1>1, <2>3, <3>1
  <2>7. QED
    BY <2>4, <2>5, <2>6 DEF CellRuns, r, n, rest
<1>4. QED
  BY <1>3, RunCells

\* A record after the last one of a run makes a run.
LEMMA RunAppend ==
  ASSUME NEW s \in Seq(Cells), Run(s), NEW q \in Records,
         s # << >> => s[Len(s)] = <<q - 1, Body[q - 1]>>
  PROVE  Run(s \o D!Record(q))
<1> DEFINE t == D!Record(q)
           u == s \o t
           z == Len(s)
<1>1. t \in Seq(Cells) /\ Len(t) = Body[q] + 1 /\ \A k \in 1 .. Body[q] + 1 : t[k] = <<q, k - 1>>
  BY RecordCells
<1> HIDE DEF t
<1>2. /\ z \in Nat /\ Body[q] \in Nat /\ Len(u) = z + (Body[q] + 1) /\ q \in Nat
      /\ \A i \in 1 .. z : u[i] = s[i] /\ s[i] \in Cells
      /\ \A k \in 1 .. Body[q] + 1 : u[z + k] = <<q, k - 1>>
  <2>1. /\ z \in Nat /\ Len(u) = z + Len(t)
        /\ \A i \in 1 .. z : u[i] = s[i] /\ s[i] \in Cells
        /\ \A k \in 1 .. Len(t) : u[z + k] = t[k]
    BY <1>1, Places
  <2>2. Body[q] \in Nat /\ q \in Nat
    BY Constants
  <2> HIDE DEF u, z
  <2>3. QED
    BY <1>1, <2>1, <2>2
<1>3. \A i \in 1 .. z : CellRuns(s, i)
  BY RunCells
<1>4. z > 0 => s[z] = <<q - 1, Body[q - 1]>>
  BY EmptySeq
<1> HIDE DEF u, z
<1>5. ASSUME NEW i \in 1 .. z PROVE CellRuns(u, i)
  <2> DEFINE r == s[i][1]
             n == s[i][2]
             rest == Body[r] - n
  <2>1. rest \in Nat /\ n \in Nat /\ r \in Nat /\ Body[r] \in Nat /\ i \in Nat /\ u[i] = s[i]
    <3>1. s[i] \in Cells /\ u[i] = s[i] /\ i \in Nat
      BY <1>2
    <3>2. QED
      BY <3>1, RestOf
  <2>2. /\ i + rest <= z
        /\ \A m \in 0 .. rest : s[i + m] = <<r, n + m>>
        /\ i + rest < z => s[i + rest + 1] = <<r + 1, 0>>
    BY <1>3 DEF CellRuns, z
  <2>3. n + rest = Body[r]
    BY <2>1
  <2> HIDE DEF r, n, rest
  <2>4. i + rest <= Len(u) /\ \A m \in 0 .. rest : u[i + m] = <<r, n + m>>
    <3>1. ASSUME NEW m \in 0 .. rest PROVE u[i + m] = <<r, n + m>>
      <4>0. m \in Nat /\ m <= rest /\ i \in Nat /\ i > 0 /\ i + rest <= z /\ rest \in Nat
        BY <1>2, <2>1, <2>2
      <4>1. i + m \in 1 .. z
        BY <1>2, <4>0
      <4>2. u[i + m] = s[i + m] /\ s[i + m] = <<r, n + m>>
        BY <1>2, <2>2, <4>1
      <4>3. QED
        BY <4>2
    <3>2. i + rest <= Len(u)
      BY <1>2, <2>1, <2>2, SMTT(30)
    <3>3. QED
      BY <3>1, <3>2
  <2>5. u[i + rest + 1] = <<r + 1, 0>>
    <3>1. CASE i + rest < z
      <4>0. i \in Nat /\ rest \in Nat /\ z \in Nat
        BY <1>2, <2>1
      <4>1. i + rest + 1 \in 1 .. z
        BY <3>1, <4>0
      <4>2. QED
        BY <1>2, <2>2, <3>1, <4>1
    <3>2. CASE i + rest = z
      <4>1. s[z] = <<r, Body[r]>>
        <5>1. rest \in 0 .. rest
          BY <2>1
        <5>2. QED
          BY <2>2, <2>3, <3>2, <5>1
      <4>2. z > 0
        BY <1>2, <2>1
      <4>3. r = q - 1
        BY <1>4, <4>1, <4>2
      <4>4. u[z + 1] = <<q, 0>>
        <5>1. 1 \in 1 .. Body[q] + 1 /\ 1 - 1 = 0
          BY <1>2
        <5>2. QED
          BY <1>2, <5>1
      <4>5. r + 1 = q
        BY <1>2, <4>3
      <4>6. QED
        BY <3>2, <4>4, <4>5
    <3>3. QED
      BY <1>2, <2>1, <2>2, <3>1, <3>2, SMTT(30)
  <2>6. QED
    BY <2>1, <2>4, <2>5 DEF CellRuns, r, n, rest
<1>6. ASSUME NEW i \in 1 .. Len(u), i > z PROVE CellRuns(u, i)
  <2> DEFINE k == i - z
             rest == Body[q] - (k - 1)
  <2>1. k \in 1 .. Body[q] + 1 /\ i = z + k /\ k \in Nat /\ rest \in Nat /\ i + rest = Len(u)
    BY <1>2, <1>6
  <2>2. u[i] = <<q, k - 1>>
    BY <1>2, <2>1
  <2> HIDE DEF k
  <2>3. ASSUME NEW m \in 0 .. rest PROVE u[i + m] = <<q, (k - 1) + m>>
    <3>1. k + m \in 1 .. Body[q] + 1 /\ i + m = z + (k + m) /\ (k + m) - 1 = (k - 1) + m
      BY <1>2, <2>1
    <3>2. QED
      BY <1>2, <3>1
  <2>4. u[i][1] = q /\ u[i][2] = k - 1
    BY <2>2
  <2> HIDE DEF rest
  <2>5. ~(i + rest < Len(u)) /\ i + rest <= Len(u)
    BY <1>2, <2>1, SMTT(30)
  <2>6. QED
    BY <2>3, <2>4, <2>5 DEF CellRuns, rest
<1>7. \A i \in 1 .. Len(u) : CellRuns(u, i)
  BY <1>2, <1>5, <1>6
<1>8. QED
  BY <1>7, RunCells DEF u, t

\* The header of a record is taken: its body comes next.
LEMMA RunHead ==
  ASSUME NEW c \in Seq(Cells), NEW t \in Seq(Cells), NEW e \in Records, Len(c) = 1,
         Run(c \o t), (c \o t)[1] = <<e, 0>>
  PROVE  /\ c[1] = <<e, 0>> /\ t # << >> /\ t[1] = <<e, 1>> /\ Run(t)
         /\ t[Len(t)] = (c \o t)[Len(c \o t)]
<1> DEFINE s == c \o t
<1>1. /\ s \in Seq(Cells) /\ Len(t) \in Nat /\ Len(s) = 1 + Len(t)
      /\ \A i \in 1 .. 1 : s[i] = c[i]
      /\ \A i \in 1 .. Len(t) : s[1 + i] = t[i]
  <2>1. /\ s \in Seq(Cells) /\ Len(t) \in Nat /\ Len(s) = Len(c) + Len(t)
        /\ \A i \in 1 .. Len(c) : s[i] = c[i]
        /\ \A i \in 1 .. Len(t) : s[Len(c) + i] = t[i]
    BY Places
  <2> HIDE DEF s
  <2>2. QED
    BY <2>1
<1>2. Run(t)
  BY RunDrop
<1>3. Body[e] \in Nat /\ Body[e] > 0
  BY Constants
<1>4. s[1] = <<e, 0>> /\ CellRuns(s, 1)
  <2>1. 1 \in 1 .. Len(s)
    <3> HIDE DEF s
    <3>1. QED
      BY <1>1
  <2>2. QED
    BY <2>1, RunCells
<1> HIDE DEF s
<1>5. /\ 1 + Body[e] <= Len(s) /\ s[2] = <<e, 1>>
  <2>1. Body[s[1][1]] - s[1][2] = Body[e]
    BY <1>3, <1>4
  <2>2. s[1][1] = e /\ s[1][2] = 0
    BY <1>4
  <2>3. 1 + Body[e] <= Len(s) /\ \A m \in 0 .. Body[e] : s[1 + m] = <<e, 0 + m>>
    BY <1>4, <2>1, <2>2 DEF CellRuns
  <2>4. s[1 + 1] = <<e, 0 + 1>>
    BY <1>3, <2>3
  <2>5. QED
    BY <2>3, <2>4
<1>6. Len(t) \in 1 .. Len(t) /\ 1 \in 1 .. Len(t)
  BY <1>1, <1>3, <1>5
<1>7. t[1] = <<e, 1>> /\ t[Len(t)] = s[Len(s)] /\ c[1] = <<e, 0>>
  BY <1>1, <1>4, <1>5, <1>6, SMTT(30)
<1>8. t # << >>
  BY <1>6, EmptySeq
<1>9. QED
  BY <1>2, <1>7, <1>8 DEF s

\* The body is taken: it is the whole record, and the next one comes.
LEMMA RunBody ==
  ASSUME NEW c \in Seq(Cells), NEW t \in Seq(Cells), NEW e \in Records, Len(c) = Body[e],
         Run(c \o t), (c \o t)[1] = <<e, 1>>
  PROVE  /\ c = Frame(e) /\ Run(t)
         /\ t = << >> => (c \o t)[Len(c \o t)] = <<e, Body[e]>>
         /\ t # << >> => t[1] = <<e + 1, 0>> /\ t[Len(t)] = (c \o t)[Len(c \o t)]
<1> DEFINE s == c \o t
           n == Body[e]
<1>1. /\ s \in Seq(Cells) /\ Len(t) \in Nat /\ Len(s) = n + Len(t)
      /\ \A i \in 1 .. n : s[i] = c[i]
      /\ \A i \in 1 .. Len(t) : s[n + i] = t[i]
  <2>1. /\ s \in Seq(Cells) /\ Len(t) \in Nat /\ Len(s) = Len(c) + Len(t)
        /\ \A i \in 1 .. Len(c) : s[i] = c[i]
        /\ \A i \in 1 .. Len(t) : s[Len(c) + i] = t[i]
    BY Places
  <2> HIDE DEF s
  <2>2. QED
    BY <2>1
<1>2. Run(t)
  BY RunDrop
<1>3. n \in Nat /\ n > 0
  BY Constants
<1>4. s[1] = <<e, 1>> /\ CellRuns(s, 1)
  <2>1. 1 \in 1 .. Len(s)
    <3> HIDE DEF s, n
    <3>1. QED
      BY <1>1, <1>3
  <2>2. QED
    BY <2>1, RunCells
<1> HIDE DEF s, n
<1>5. /\ \A m \in 0 .. n - 1 : s[1 + m] = <<e, 1 + m>>
      /\ n < Len(s) => s[n + 1] = <<e + 1, 0>>
  <2>1. s[1][1] = e /\ s[1][2] = 1
    BY <1>4
  <2>2. /\ \A m \in 0 .. n - 1 : s[1 + m] = <<e, 1 + m>>
        /\ 1 + (n - 1) < Len(s) => s[1 + (n - 1) + 1] = <<e + 1, 0>>
    BY <1>4, <2>1 DEF CellRuns, n
  <2>3. 1 + (n - 1) = n /\ 1 + (n - 1) + 1 = n + 1
    BY <1>3
  <2>4. QED
    BY <2>2, <2>3
<1>6. \A i \in 1 .. n : s[i] = <<e, i>> /\ c[i] = <<e, i>>
  <2>1. ASSUME NEW i \in 1 .. n PROVE s[i] = <<e, i>> /\ c[i] = <<e, i>>
    <3>1. i - 1 \in 0 .. n - 1 /\ 1 + (i - 1) = i
      BY <1>3
    <3>2. s[i] = <<e, i>>
      BY <1>5, <3>1
    <3>3. QED
      BY <1>1, <3>2
  <2>2. QED
    BY <2>1
<1>7. c = Frame(e)
  <2>1. c = [i \in 1 .. n |-> c[i]]
    BY LenProperties DEF n
  <2>2. c = [i \in 1 .. n |-> <<e, i>>]
    BY <1>6, <2>1
  <2>3. QED
    BY <2>2 DEF Frame, n
<1>8. ASSUME t = << >> PROVE s[Len(s)] = <<e, n>>
  <2>1. Len(s) = n
    BY <1>1, <1>3, <1>8, EmptySeq
  <2>2. QED
    BY <1>3, <1>6, <2>1
<1>9. ASSUME t # << >> PROVE t[1] = <<e + 1, 0>> /\ t[Len(t)] = s[Len(s)]
  <2>1. Len(t) \in 1 .. Len(t) /\ 1 \in 1 .. Len(t) /\ n < Len(s)
    BY <1>1, <1>3, <1>9, EmptySeq
  <2>2. QED
    BY <1>1, <1>5, <2>1
<1>10. QED
  BY <1>2, <1>7, <1>8, <1>9 DEF s, n

LEMMA StreamTyped ==
  ASSUME Typed PROVE stream \in Seq(Cells) /\ Len(stream) \in Nat /\ \A i \in 1 .. Len(stream) : stream[i] \in Cells
<1>1. part \in Seq(Cells) /\ buf \in Seq(Cells) /\ net \in Seq(Cells) /\ sbuf \in Seq(Cells)
  BY DEF Typed, SlaveTyped
<1>2. stream \in Seq(Cells)
  <2>1. net \o sbuf \in Seq(Cells)
    BY <1>1, Joined
  <2>2. buf \o (net \o sbuf) \in Seq(Cells)
    BY <1>1, <2>1, Joined
  <2>3. QED
    BY <1>1, <2>2, Joined DEF stream
<1>3. QED
  BY <1>2, LenProperties, ElementOfSeq

LEMMA StreamAfter ==
  ASSUME Typed, NEW cells \in Seq(Cells), Completes(cells), sbuf' = sbuf
  PROVE  stream' \in Seq(Cells) /\ cells \o stream' = stream
<1>1. /\ part' = << >> /\ buf' \in Seq(Cells) /\ net' \in Seq(Cells) /\ sbuf' \in Seq(Cells)
      /\ cells \o (buf' \o (net' \o sbuf')) = stream
  BY DEF Completes, Typed
<1>2. buf' \o (net' \o sbuf') \in Seq(Cells)
  <2>1. net' \o sbuf' \in Seq(Cells)
    BY <1>1, Joined
  <2>2. QED
    BY <1>1, <2>1, Joined
<1>3. << >> \o (buf' \o (net' \o sbuf')) = buf' \o (net' \o sbuf')
  BY <1>2, ConcatEmptySeq
<1>4. stream' = buf' \o (net' \o sbuf')
  BY <1>1, <1>3 DEF stream
<1>5. QED
  BY <1>1, <1>2, <1>4

\* The stream begins with a header or a body, of the record that is received.
Heads == {"set", "head", "readHead"}
Bodies == {"body", "readBody"}

LEMMA StreamStarts ==
  ASSUME Typed, NEW e, Streamed(e), NEW cells \in Seq(Cells), Completes(cells), sbuf' = sbuf
  PROVE  /\ e \in Records /\ cells \o stream' = stream /\ stream' \in Seq(Cells)
         /\ Run(cells \o stream') /\ stream # << >>
         /\ (cells \o stream')[1] = <<e, IF ipc \in Heads THEN 0 ELSE 1>>
         /\ (cells \o stream')[Len(cells \o stream')] = <<Sent - 1, Body[Sent - 1]>>
         /\ Sent - 1 \in Records
<1>1. cells \o stream' = stream /\ stream' \in Seq(Cells) /\ Len(cells) > 0 /\ Len(cells) \in Nat
  <2>1. Len(cells) = Wanted /\ Wanted > 0
    BY Constants DEF Completes, Typed, SlaveTyped, Wanted, Receiving
  <2>2. QED
    BY <2>1, StreamAfter, LenProperties
<1>2. Len(stream) > 0 /\ stream # << >> /\ Len(stream) \in Nat
  <2>1. Len(stream) = Len(cells) + Len(stream') /\ Len(stream') \in Nat
    BY <1>1, Places
  <2>2. Len(stream) > 0 /\ Len(stream) \in Nat
    BY <1>1, <2>1
  <2>3. QED
    BY <2>2, EmptySeq
<1>3. /\ Run(stream) /\ stream[1] = <<e, IF ipc \in Heads THEN 0 ELSE 1>>
      /\ stream[Len(stream)] = <<Sent - 1, Body[Sent - 1]>>
  BY <1>2 DEF Streamed, Heads
<1>4. stream[1] \in Cells /\ stream[Len(stream)] \in Cells
  BY <1>2, StreamTyped
<1>5. e \in Records /\ Sent - 1 \in Records
  BY <1>3, <1>4, IsCell
<1>6. QED
  BY <1>1, <1>2, <1>3, <1>5

\* What is sent and what is in the ring of the master do not change.
LEMMA QueueKept ==
  ASSUME UNCHANGED session
  PROVE  /\ Sent' = Sent
         /\ (\A i \in 1 .. Len(queue') : queue'[i] = Sent' + i - 1)
              <=> \A i \in 1 .. Len(queue) : queue[i] = Sent + i - 1
BY DEF session, Sent

\* The io thread receives the header of record e ...
LEMMA StreamHead ==
  ASSUME Typed, NEW cells \in Seq(Cells), Completes(cells), ipc \in {"head", "readHead"},
         UNCHANGED session, NEW e \in 1 .. NRec + 1, Streamed(e), ipc' = "body"
  PROVE  e \in Records /\ Streamed(e)'
<1>1. /\ e \in Records /\ stream' \in Seq(Cells) /\ Run(cells \o stream')
      /\ (cells \o stream')[1] = <<e, 0>>
      /\ (cells \o stream')[Len(cells \o stream')] = <<Sent - 1, Body[Sent - 1]>>
  BY StreamStarts DEF session, Heads
<1>2. Len(cells) = 1
  BY HeadDone
<1>3. /\ cells[1] = <<e, 0>> /\ stream' # << >> /\ stream'[1] = <<e, 1>> /\ Run(stream')
      /\ stream'[Len(stream')] = <<Sent - 1, Body[Sent - 1]>>
  BY <1>1, <1>2, RunHead
<1>4. len' = Body[e]
  BY <1>3, HeadDone
<1>5. Sent' = Sent /\ \A i \in 1 .. Len(queue') : queue'[i] = Sent' + i - 1
  BY QueueKept DEF Streamed
<1>6. QED
  BY <1>1, <1>3, <1>4, <1>5 DEF Streamed, Run

\* ... and its body.
LEMMA StreamBody ==
  ASSUME Typed, NEW cells \in Seq(Cells), Completes(cells), ipc \in {"body", "readBody"},
         UNCHANGED session, NEW e \in 1 .. NRec + 1, Streamed(e)
  PROVE  e \in Records /\ cells = Frame(e) /\ Streamed(e + 1)'
<1>1. /\ e \in Records /\ stream' \in Seq(Cells) /\ Run(cells \o stream')
      /\ (cells \o stream')[1] = <<e, 1>>
      /\ (cells \o stream')[Len(cells \o stream')] = <<Sent - 1, Body[Sent - 1]>>
      /\ Sent - 1 \in Records
  BY StreamStarts DEF session, Heads
<1>2. Len(cells) = Body[e]
  BY BodyDone DEF Streamed
<1>3. /\ cells = Frame(e) /\ Run(stream')
      /\ stream' = << >> => <<Sent - 1, Body[Sent - 1]>> = <<e, Body[e]>>
      /\ stream' # << >> => /\ stream'[1] = <<e + 1, 0>>
                            /\ stream'[Len(stream')] = <<Sent - 1, Body[Sent - 1]>>
  BY <1>1, <1>2, RunBody
<1>4. Sent' = Sent /\ (\A i \in 1 .. Len(queue') : queue'[i] = Sent' + i - 1) /\ ipc' = "set"
  BY QueueKept, BodyDone DEF Streamed
<1>5. stream' = << >> => e + 1 = Sent'
  <2>1. stream' = << >> => Sent - 1 = e
    BY <1>3
  <2>2. Sent \in Int /\ e \in Int
    BY <1>1, LenProperties, Constants DEF Sent, Typed, D!TypeOK
  <2>3. QED
    BY <1>4, <2>1, <2>2
<1>6. QED
  BY <1>1, <1>3, <1>4, <1>5 DEF Streamed, Run

\* Nothing moves.
LEMMA StreamKept ==
  ASSUME UNCHANGED session, stream' = stream, UNCHANGED len, NEW e, Streamed(e),
         \/ ipc \in Heads /\ ipc' \in Heads
         \/ ipc \in Bodies /\ ipc' \in Bodies
  PROVE  Streamed(e)'
<1>1. Sent' = Sent /\ \A i \in 1 .. Len(queue') : queue'[i] = Sent' + i - 1
  BY QueueKept DEF Streamed
<1>2. Run(stream)'
  BY DEF Streamed, Run
<1>3. (ipc' \in {"body", "readBody"} => len' = Body[e])
  BY DEF Streamed, Heads, Bodies
<1>4. IF stream' = << >> THEN e = Sent' /\ ipc' \in {"set", "head", "readHead"}
      ELSE /\ stream'[1] = <<e, IF ipc' \in {"set", "head", "readHead"} THEN 0 ELSE 1>>
           /\ stream'[Len(stream')] = <<Sent' - 1, Body[Sent' - 1]>>
  BY <1>1 DEF Streamed, Heads, Bodies
<1>5. QED
  BY <1>1, <1>2, <1>3, <1>4 DEF Streamed

\* What the master's io thread publishes follows what it has.
LEMMA StreamPublish ==
  ASSUME Typed, D!Publish, UNCHANGED slave, NEW e, Streamed(e)
  PROVE  Streamed(e)'
<1>1. /\ queue' = Append(queue, next) /\ next' = next + 1 /\ UNCHANGED <<sbuf, net, part, buf, ipc, len>>
  BY DEF D!Publish, slave
<1>2. queue \in Seq(Records) /\ next \in Nat /\ Len(queue) \in Nat /\ next \in Records
  BY Constants, LenProperties DEF Typed, D!TypeOK, D!Publish
<1>3. /\ Len(queue') = Len(queue) + 1 /\ queue'[Len(queue) + 1] = next
      /\ \A i \in 1 .. Len(queue) : queue'[i] = queue[i]
  BY <1>1, <1>2, AppendProperties
<1>4. Sent' = Sent /\ Sent + Len(queue) = next /\ Sent \in Int
  BY <1>1, <1>2, <1>3 DEF Sent
<1>5. ASSUME NEW i \in 1 .. Len(queue') PROVE queue'[i] = Sent' + i - 1
  <2>1. CASE i \in 1 .. Len(queue)
    BY <1>3, <1>4, <2>1 DEF Streamed
  <2>2. CASE i \notin 1 .. Len(queue)
    <3>1. i = Len(queue) + 1
      BY <1>2, <1>3, <2>2
    <3>2. QED
      BY <1>2, <1>3, <1>4, <3>1
  <2>3. QED
    BY <2>1, <2>2
<1>6. stream' = stream
  BY <1>1 DEF stream
<1>7. QED
  BY <1>1, <1>4, <1>5, <1>6 DEF Streamed, Run

\* The record that the dump thread takes follows the last one of the stream.
LEMMA StreamFill ==
  ASSUME Typed, D!Fill, UNCHANGED slave, NEW e, Streamed(e)
  PROVE  Streamed(e)'
<1> DEFINE q == Head(queue)
<1>1. /\ queue # << >> /\ queue' = Tail(queue) /\ sbuf' = sbuf \o D!Record(q)
      /\ UNCHANGED <<next, net, part, buf, ipc, len>>
  BY DEF D!Fill, slave
<1>2. /\ queue \in Seq(Records) /\ next \in Nat /\ Len(queue) \in Nat /\ Len(queue) > 0
      /\ q \in Records /\ Len(queue') = Len(queue) - 1 /\ q = queue[1]
      /\ \A i \in 1 .. Len(queue') : queue'[i] = queue[i + 1]
  <2>1. queue \in Seq(Records) /\ next \in Nat /\ Len(queue) \in Nat
    BY Constants, LenProperties DEF Typed, D!TypeOK
  <2>2. /\ q \in Records /\ Len(Tail(queue)) = Len(queue) - 1 /\ q = queue[1] /\ Len(queue) > 0
        /\ \A i \in 1 .. Len(queue) - 1 : Tail(queue)[i] = queue[i + 1]
    BY <1>1, <2>1, HeadTailProperties, EmptySeq
  <2>3. QED
    BY <1>1, <2>1, <2>2
<1> HIDE DEF q
<1>3. q = Sent /\ Sent' = Sent + 1 /\ Sent \in Int /\ q \in Nat
  <2>1. q = Sent + 1 - 1
    BY <1>2 DEF Streamed
  <2>2. Sent \in Int /\ Sent' = Sent + 1
    BY <1>1, <1>2 DEF Sent
  <2>3. q \in Nat
    BY <1>2, Constants
  <2>4. QED
    BY <2>1, <2>2, <2>3
<1>4. \A i \in 1 .. Len(queue') : queue'[i] = Sent' + i - 1
  <2>1. ASSUME NEW i \in 1 .. Len(queue') PROVE queue'[i] = Sent' + i - 1
    <3>1. i + 1 \in 1 .. Len(queue) /\ i \in Nat
      BY <1>2
    <3>2. queue'[i] = Sent + (i + 1) - 1
      BY <1>2, <3>1 DEF Streamed
    <3>3. Sent + (i + 1) - 1 = Sent' + i - 1
      BY <1>3, <3>1
    <3>4. QED
      BY <3>2, <3>3
  <2>2. QED
    BY <2>1
<1> DEFINE t == D!Record(q)
<1>5. /\ t \in Seq(Cells) /\ Len(t) = Body[q] + 1 /\ Body[q] \in Nat
      /\ t[1] = <<q, 0>> /\ t[Body[q] + 1] = <<q, Body[q]>>
  <2>1. /\ t \in Seq(Cells) /\ Len(t) = Body[q] + 1 /\ Body[q] \in Nat
        /\ \A k \in 1 .. Body[q] + 1 : t[k] = <<q, k - 1>>
    BY <1>2, RecordCells, Constants
  <2> HIDE DEF t
  <2>2. 1 \in 1 .. Body[q] + 1 /\ Body[q] + 1 \in 1 .. Body[q] + 1 /\ (Body[q] + 1) - 1 = Body[q]
    BY <2>1
  <2>3. t[1] = <<q, 1 - 1>> /\ t[Body[q] + 1] = <<q, (Body[q] + 1) - 1>>
    BY <2>1, <2>2
  <2>4. t[Body[q] + 1] = <<q, Body[q]>>
    BY <2>2, <2>3, Zenon
  <2>5. QED
    BY <2>1, <2>3, <2>4
<1>6. stream' = stream \o t
  <2>1. /\ net \in Seq(Cells) /\ sbuf \in Seq(Cells) /\ buf \in Seq(Cells) /\ part \in Seq(Cells)
    BY DEF Typed, SlaveTyped
  <2> HIDE DEF t
  <2>2. net \o sbuf \in Seq(Cells) /\ buf \o (net \o sbuf) \in Seq(Cells)
    BY <2>1, Joined
  <2>3. /\ (net \o sbuf) \o t = net \o (sbuf \o t)
        /\ (buf \o (net \o sbuf)) \o t = buf \o ((net \o sbuf) \o t)
        /\ (part \o (buf \o (net \o sbuf))) \o t = part \o ((buf \o (net \o sbuf)) \o t)
    <3>1. (net \o sbuf) \o t = net \o (sbuf \o t)
      BY <1>5, <2>1, CellsAssociate, ZenonT(30)
    <3>2. (buf \o (net \o sbuf)) \o t = buf \o ((net \o sbuf) \o t)
      BY <1>5, <2>1, <2>2, CellsAssociate, ZenonT(30)
    <3>3. (part \o (buf \o (net \o sbuf))) \o t = part \o ((buf \o (net \o sbuf)) \o t)
      BY <1>5, <2>1, <2>2, CellsAssociate, ZenonT(30)
    <3>4. QED
      BY <3>1, <3>2, <3>3
  <2>4. sbuf' = sbuf \o t /\ net' = net /\ buf' = buf /\ part' = part
    BY <1>1 DEF t
  <2>5. QED
    BY <2>3, <2>4, Zenon DEF stream
<1> HIDE DEF t
<1>7. stream # << >> => stream[Len(stream)] = <<q - 1, Body[q - 1]>>
  BY <1>3 DEF Streamed
<1>8. Run(stream') /\ stream \in Seq(Cells)
  <2>1. stream \in Seq(Cells) /\ Run(stream)
    BY StreamTyped DEF Streamed
  <2>2. QED
    BY <1>2, <1>6, <1>7, <2>1, RunAppend DEF t
<1>9. /\ stream' # << >> /\ stream'[Len(stream')] = <<q, Body[q]>>
      /\ stream'[1] = IF stream = << >> THEN <<q, 0>> ELSE stream[1]
  <2> DEFINE s == stream
  <2>1. /\ Len(s) \in Nat /\ Len(stream') = Len(s) + (Body[q] + 1)
        /\ \A i \in 1 .. Len(s) : stream'[i] = s[i]
        /\ \A i \in 1 .. Body[q] + 1 : stream'[Len(s) + i] = t[i]
    <3>1. /\ Len(s) \in Nat /\ Len(s \o t) = Len(s) + Len(t)
          /\ \A i \in 1 .. Len(s) : (s \o t)[i] = s[i]
          /\ \A i \in 1 .. Len(t) : (s \o t)[Len(s) + i] = t[i]
      BY <1>5, <1>8, Places
    <3> HIDE DEF s
    <3>2. stream' = s \o t
      BY <1>6 DEF s
    <3>3. QED
      BY <1>5, <3>1, <3>2
  <2>2. (s = << >> <=> Len(s) = 0) /\ (stream' = << >> => Len(stream') = 0)
    BY <1>8, EmptySeq
  <2> HIDE DEF s
  <2>3. stream' # << >>
    BY <1>5, <2>1, <2>2
  <2>4. stream'[Len(stream')] = <<q, Body[q]>>
    <3>1. Body[q] + 1 \in 1 .. Body[q] + 1
      BY <1>5
    <3>2. stream'[Len(s) + (Body[q] + 1)] = t[Body[q] + 1]
      BY <2>1, <3>1
    <3>3. QED
      BY <1>5, <2>1, <3>2
  <2>5. stream'[1] = IF s = << >> THEN <<q, 0>> ELSE s[1]
    <3>1. CASE s = << >>
      <4>1. stream'[0 + 1] = t[1]
        BY <1>5, <2>1, <2>2, <3>1
      <4>2. QED
        BY <1>5, <3>1, <4>1
    <3>2. CASE s # << >>
      BY <2>1, <2>2, <3>2
    <3>3. QED
      BY <3>1, <3>2
  <2>6. QED
    BY <2>3, <2>4, <2>5 DEF s
<1>10. Sent' - 1 = q
  BY <1>3
<1>11. stream'[1] = <<e, IF ipc' \in {"set", "head", "readHead"} THEN 0 ELSE 1>>
  BY <1>1, <1>3, <1>9 DEF Streamed
<1>12. QED
  BY <1>1, <1>4, <1>8, <1>9, <1>10, <1>11 DEF Streamed, Run

\* A write() moves cells from the send buffer to the connection.
LEMMA StreamWrite ==
  ASSUME Typed, NEW n \in 1 .. SendSize, D!Write(n), open, UNCHANGED <<part, buf>>
  PROVE  stream' = stream
<1> DEFINE a == SubSeq(sbuf, 1, n)
           b == SubSeq(sbuf, n + 1, Len(sbuf))
<1>1. /\ net' = net \o a /\ sbuf' = b /\ n <= Len(sbuf)
      /\ sbuf \in Seq(Cells) /\ net \in Seq(Cells) /\ buf \in Seq(Cells) /\ part \in Seq(Cells)
  BY DEF D!Write, Typed, SlaveTyped
<1>2. a \in Seq(Cells) /\ b \in Seq(Cells) /\ a \o b = sbuf
  <2>1. n \in 0 .. Len(sbuf)
    BY <1>1, LenProperties, Constants
  <2>2. QED
    BY <1>1, <2>1, Cut
<1> HIDE DEF a, b
<1>3. (net \o a) \o b = net \o (a \o b)
  BY <1>1, <1>2, CellsAssociate, ZenonT(30)
<1>4. QED
  BY <1>1, <1>2, <1>3, Zenon DEF stream

LEMMA StreamSends ==
  ASSUME Typed, D!Next, UNCHANGED slave, NEW e, Streamed(e), open,
         ipc \in Heads \cup Bodies
  PROVE  Streamed(e)' /\ open'
<1>1. UNCHANGED <<part, buf, len, ipc>>
  BY DEF slave
<1>2. CASE D!Publish
  BY <1>2, StreamPublish DEF D!Publish
<1>3. CASE D!Fill
  BY <1>3, StreamFill DEF D!Fill
<1>4. ASSUME \/ D!FlushFull \/ D!FlushEmpty \/ D!Written \/ D!Spin \/ D!Select
             \/ \E n \in 1 .. SendSize : D!Write(n)
      PROVE  Streamed(e)' /\ open'
  <2>1. UNCHANGED <<queue, next, open>>
    BY <1>4 DEF D!FlushFull, D!FlushEmpty, D!Written, D!Spin, D!Select, D!Write
  <2>2. stream' = stream
    <3>1. CASE \E n \in 1 .. SendSize : D!Write(n)
      BY <1>1, <3>1, StreamWrite
    <3>2. CASE D!FlushFull \/ D!FlushEmpty \/ D!Written \/ D!Spin \/ D!Select
      BY <1>1, <3>2 DEF stream, D!FlushFull, D!FlushEmpty, D!Written, D!Spin, D!Select
    <3>3. QED
      BY <1>4, <3>1, <3>2
  <2>3. QED
    BY <1>1, <2>1, <2>2 DEF Streamed, Run, Sent
<1>5. QED
  BY <1>2, <1>3, <1>4 DEF D!Next, D!DumpThread

-----------------------------------------------------------------------------
(* The records that come out of the stream.                                *)

\* The records of the ring are records.
LEMMA RingRecords ==
  ASSUME Typed
  PROVE  /\ used \in Nat /\ wp \in Slots /\ \A j \in 1 .. used : At(wp, j) \in Published
         /\ used > 0 => rp = At(wp, used) /\ rp \in Published
         /\ \A i \in Published : /\ i \in Slots /\ data[i] \in Chunks /\ mem[data[i]] \in Seq(Cells)
                                 /\ Rec(i) \in Nat
         /\ maxSeen \in Nat /\ dumpInfo \in Nat /\ dumpInfo <= maxSeen
<1>1. used \in 0 .. Num /\ wp \in Slots /\ TypeOK /\ used \in Nat
  BY Constants DEF Typed, SlaveTyped, TypeOK
<1>2. Published = {At(wp, j) : j \in 1 .. used} /\ rp = At(wp, used) /\ Published \subseteq Slots
      /\ (used > 0 => rp \in Published)
  BY <1>1, RingPlaces, PublishedFacts
<1>3. ASSUME NEW i \in Published
      PROVE  /\ i \in Slots /\ data[i] \in Chunks /\ mem[data[i]] \in Seq(Cells)
             /\ Rec(i) \in Nat
  <2>1. i \in Slots /\ data[i] \in Chunks /\ mem[data[i]] # << >>
    BY <1>2 DEF Typed, SlaveTyped, TypeOK
  <2>2. mem[data[i]] \in Seq(Cells)
    BY <2>1 DEF Typed, SlaveTyped
  <2>3. mem[data[i]][1] \in Cells
    BY <2>1, <2>2, EmptySeq, ElementOfSeq
  <2>4. QED
    BY <2>1, <2>2, <2>3, RestOf DEF Rec
<1>4. maxSeen \in Nat /\ dumpInfo \in Nat /\ dumpInfo <= maxSeen
  BY Constants DEF Typed, SlaveTyped, TypeOK
<1>5. QED
  BY <1>1, <1>2, <1>3, <1>4

\* A step that leaves the records of the ring as they are.
LEMMA RingKept ==
  ASSUME Typed, UNCHANGED <<wp, used, mem, dumpInfo, maxSeen>>, rpc' \in {rpc, "exit"},
         \A i \in Published : data'[i] = data[i]
  PROVE  /\ FramesIntact => FramesIntact'
         /\ Ordered => Ordered'
         /\ \A e : Follows(e) => Follows(e)'
<1>1. Published' = Published /\ rp' = rp
  BY DEF Published, rp
<1>2. \A i \in Published : Rec(i)' = Rec(i) /\ mem'[data'[i]] = mem[data[i]]
  BY DEF Rec
<1>3. FramesIntact => FramesIntact'
  BY <1>1, <1>2 DEF FramesIntact, IsFrame, Frame
<1>4. /\ used \in Nat /\ \A j \in 1 .. used : At(wp, j) \in Published /\ At(wp, j)' = At(wp, j)
      /\ used > 0 => rp \in Published
  BY RingRecords DEF At
<1>5. \A j \in 1 .. used : Rec(At(wp, j))' = Rec(At(wp, j))
  BY <1>4 DEF Rec
<1>6. used > 0 => Rec(rp)' = Rec(rp)
  BY <1>1, <1>4 DEF Rec
<1>7. Ordered => Ordered'
  <2>1. SUFFICES ASSUME Ordered PROVE Ordered'
    OBVIOUS
  <2>2. rpc' = "use" => Rec(rp)' = dumpInfo'
    <3>1. rpc = "use" => used > 0
      BY DEF Typed, SlaveTyped
    <3>2. QED
      BY <1>6, <2>1, <3>1 DEF Ordered
  <2>3. used' > 0 => Rec(rp)' <= maxSeen' + 1
    BY <1>6, <2>1 DEF Ordered
  <2>4. ASSUME NEW j \in 1 .. used' - 1
        PROVE  Rec(At(wp, j))' <= maxSeen' + 1 \/ Rec(At(wp, j))' <= Rec(At(wp, j + 1))' + 1
    <3>1. j \in 1 .. used /\ j + 1 \in 1 .. used /\ j \in 1 .. used - 1
      BY <1>4
    <3>2. Rec(At(wp, j)) <= maxSeen + 1 \/ Rec(At(wp, j)) <= Rec(At(wp, j + 1)) + 1
      BY <2>1, <3>1 DEF Ordered
    <3>3. Rec(At(wp, j))' = Rec(At(wp, j)) /\ Rec(At(wp, j + 1))' = Rec(At(wp, j + 1))
      BY <1>5, <3>1
    <3>4. QED
      BY <3>2, <3>3
  <2>5. QED
    BY <2>2, <2>3, <2>4 DEF Ordered
<1>8. ASSUME NEW e, Follows(e) PROVE Follows(e)'
  <2>1. used > 0 => Rec(At(wp, 1))' = Rec(At(wp, 1))
    BY <1>4, <1>5
  <2>2. QED
    BY <1>8, <2>1 DEF Follows
<1>9. QED
  BY <1>3, <1>7, <1>8

LEMMA NextAfter == \A m, n \in Nat : m <= n => \A k \in Nat : k <= m + 1 => k <= n + 1
OBVIOUS

\* The redis thread takes what follows.
LEMMA RingTaken ==
  ASSUME Typed, TakesRecord, FramesIntact, Ordered
  PROVE  /\ FramesIntact' /\ Ordered' /\ \A e \in 1 .. NRec + 1 : Follows(e) => Follows(e)'
         /\ dumpInfo' <= maxSeen + 1
<1>1. /\ used \in Nat /\ wp \in Slots /\ \A j \in 1 .. used : At(wp, j) \in Published
      /\ used > 0 => rp = At(wp, used) /\ rp \in Published
      /\ \A i \in Published : /\ i \in Slots /\ data[i] \in Chunks /\ Rec(i) \in Nat
      /\ maxSeen \in Nat /\ dumpInfo \in Nat /\ dumpInfo <= maxSeen
  BY RingRecords
<1>2. UNCHANGED <<wp, data, mem>> /\ maxSeen' = IF dumpInfo' > maxSeen THEN dumpInfo' ELSE maxSeen
  BY DEF TakesRecord, RedisThread, Get, GetAdvance, pool, ring
<1>3. \A j : Rec(At(wp, j))' = Rec(At(wp, j)) /\ At(wp, j)' = At(wp, j)
  BY <1>2 DEF Rec, At
<1>4. /\ \A j \in 1 .. used : Rec(At(wp, j)) \in Nat
      /\ used > 0 => Rec(rp) <= maxSeen + 1 /\ Rec(rp) = Rec(At(wp, used))
      /\ rpc = "use" => Rec(rp) = dumpInfo /\ used > 0
      /\ \A j \in 1 .. used - 1 :
           Rec(At(wp, j)) <= maxSeen + 1 \/ Rec(At(wp, j)) <= Rec(At(wp, j + 1)) + 1
  BY <1>1 DEF Ordered, Typed, SlaveTyped
<1>5. CASE Get
  <2>1. used > 0 /\ used' = used
    BY <1>5 DEF Get, ring
  <2>2. PICK r \in Records : mem[data[rp]] = Frame(r)
    BY <1>1, <2>1 DEF FramesIntact, IsFrame
  <2>3. Frame(r)[1] = <<r, 1>>
    <3>1. 1 \in 1 .. Body[r]
      BY Constants
    <3>2. QED
      BY <3>1 DEF Frame
  <2>4. rpc' = "use" /\ dumpInfo' = r /\ Rec(rp) = r /\ r \in Nat
    BY <1>5, <2>2, <2>3, Constants DEF Get, Rec
  <2>5. dumpInfo' <= maxSeen + 1 /\ maxSeen <= maxSeen' /\ maxSeen' \in Nat
    BY <1>1, <1>2, <1>4, <2>1, <2>4
  <2>6. Published' = Published /\ rp' = rp
    BY <1>2, <2>1 DEF Published, rp
  <2>7. FramesIntact'
    BY <1>2, <2>6 DEF FramesIntact, IsFrame, Frame
  <2>8. Ordered'
    <3>1. Rec(rp)' = Rec(rp)
      BY <1>2, <2>6 DEF Rec
    <3>2. Rec(rp)' = dumpInfo' /\ Rec(rp)' <= maxSeen' + 1
      <4>1. Rec(rp)' = dumpInfo' /\ dumpInfo' \in Nat
        BY <2>4, <3>1
      <4>2. dumpInfo' <= maxSeen' + 1
        <5>1. maxSeen \in Nat
          BY <1>1
        <5>2. QED
          BY <2>5, <4>1, <5>1, NextAfter
      <4>3. QED
        BY <4>1, <4>2
    <3>3. ASSUME NEW j \in 1 .. used' - 1
          PROVE  Rec(At(wp, j))' <= maxSeen' + 1 \/ Rec(At(wp, j))' <= Rec(At(wp, j + 1))' + 1
      <4>1. j \in 1 .. used - 1 /\ j \in 1 .. used
        BY <1>1, <2>1
      <4>2. Rec(At(wp, j)) \in Nat
            /\ (Rec(At(wp, j)) <= maxSeen + 1 \/ Rec(At(wp, j)) <= Rec(At(wp, j + 1)) + 1)
        BY <1>4, <4>1
      <4>3. Rec(At(wp, j))' = Rec(At(wp, j)) /\ Rec(At(wp, j + 1))' = Rec(At(wp, j + 1))
        BY <1>3
      <4>4. QED
        BY <1>1, <2>5, <4>2, <4>3
    <3>4. QED
      BY <3>2, <3>3 DEF Ordered
  <2>9. ASSUME NEW e \in 1 .. NRec + 1, Follows(e) PROVE Follows(e)'
    <3>1. Rec(At(wp, 1))' = Rec(At(wp, 1)) /\ e \in Nat
      BY <1>3, Constants
    <3>2. CASE e <= maxSeen + 1
      <4>1. e <= maxSeen' + 1
        <5>1. maxSeen \in Nat
          BY <1>1
        <5>2. QED
          BY <2>5, <3>1, <3>2, <5>1, NextAfter
      <4>2. QED
        BY <4>1 DEF Follows
    <3>3. CASE used > 0 /\ e <= Rec(At(wp, 1)) + 1
      BY <2>1, <3>1, <3>3 DEF Follows
    <3>4. QED
      BY <2>9, <3>2, <3>3 DEF Follows
  <2>10. QED
    BY <2>5, <2>7, <2>8, <2>9
<1>6. CASE GetAdvance
  <2>1. rpc = "use" /\ rpc' = "get" /\ used' = used - 1 /\ dumpInfo' = dumpInfo
    BY <1>6 DEF GetAdvance
  <2>2. maxSeen' = maxSeen /\ dumpInfo' <= maxSeen + 1 /\ used > 0 /\ Rec(rp) <= maxSeen
    BY <1>1, <1>2, <1>4, <2>1
  <2>3. Published' \subseteq Published /\ (used' > 0 => rp' = At(wp, used'))
    <3>1. Published' \subseteq Published
      BY <1>2, <2>1, <2>2, PublishedFacts DEF Typed, SlaveTyped
    <3>2. rp' = At(wp, used')
      BY <1>2 DEF rp, At
    <3>3. QED
      BY <3>1, <3>2
  <2>4. FramesIntact'
    BY <1>2, <2>3 DEF FramesIntact, IsFrame, Frame
  <2>5. used' > 0 => Rec(rp)' <= maxSeen' + 1
    <3>1. SUFFICES ASSUME used' > 0 PROVE Rec(rp)' <= maxSeen' + 1
      OBVIOUS
    <3>2. used' \in 1 .. used - 1 /\ used' + 1 = used /\ used' \in 1 .. used
      BY <1>1, <2>1, <3>1
    <3>3. Rec(At(wp, used')) <= maxSeen + 1 \/ Rec(At(wp, used')) <= Rec(At(wp, used)) + 1
      BY <1>4, <3>2
    <3>4. Rec(At(wp, used')) \in Nat /\ Rec(At(wp, used)) = Rec(rp) /\ Rec(rp) \in Nat
      BY <1>1, <1>4, <2>2, <3>2
    <3>5. Rec(rp)' = Rec(At(wp, used'))
      BY <1>2, <2>3, <3>1 DEF Rec
    <3>6. QED
      BY <1>1, <2>2, <3>3, <3>4, <3>5
  <2>6. ASSUME NEW j \in 1 .. used' - 1
        PROVE  Rec(At(wp, j))' <= maxSeen' + 1 \/ Rec(At(wp, j))' <= Rec(At(wp, j + 1))' + 1
    <3>1. j \in 1 .. used - 1
      BY <1>1, <2>1
    <3>2. Rec(At(wp, j))' = Rec(At(wp, j)) /\ Rec(At(wp, j + 1))' = Rec(At(wp, j + 1))
      BY <1>3
    <3>3. QED
      BY <1>4, <2>2, <3>1, <3>2
  <2>7. Ordered'
    BY <2>1, <2>5, <2>6 DEF Ordered
  <2>8. ASSUME NEW e \in 1 .. NRec + 1, Follows(e) PROVE Follows(e)'
    <3>1. Rec(At(wp, 1))' = Rec(At(wp, 1)) /\ e \in Nat
      BY <1>3, Constants
    <3>2. CASE used = 1
      <4>1. Rec(At(wp, 1)) = Rec(rp) /\ Rec(rp) \in Nat
        BY <1>1, <1>4, <2>2, <3>2
      <4>2. e <= maxSeen + 1
        BY <1>1, <2>2, <2>8, <3>1, <4>1 DEF Follows
      <4>3. QED
        BY <2>2, <4>2 DEF Follows
    <3>3. CASE used # 1
      <4>1. used' > 0
        BY <1>1, <2>1, <2>2, <3>3
      <4>2. QED
        BY <2>2, <2>8, <3>1, <4>1 DEF Follows
    <3>4. QED
      BY <3>2, <3>3
  <2>9. QED
    BY <2>2, <2>4, <2>7, <2>8
<1>7. QED
  BY <1>5, <1>6 DEF TakesRecord, RedisThread

\* The io thread publishes record e.
LEMMA RingFilled ==
  ASSUME Typed, ~shared, Apart, FramesIntact, Ordered,
         NEW e \in Records, Follows(e), Completes(Frame(e)), Frame(e) \in Seq(Cells),
         ipc \in {"body", "readBody"}, UNCHANGED maxSeen
  PROVE  FramesIntact' /\ Ordered' /\ Follows(e + 1)'
<1>1. /\ used \in Nat /\ wp \in Slots /\ \A j \in 1 .. used : At(wp, j) \in Published
      /\ used > 0 => rp = At(wp, used) /\ rp \in Published
      /\ \A i \in Published : i \in Slots /\ data[i] \in Chunks /\ Rec(i) \in Nat
      /\ maxSeen \in Nat
  BY RingRecords
<1>2. /\ data[wp] \in Chunks /\ mem' = [mem EXCEPT ![data[wp]] = Frame(e)]
      /\ wp' = SlotAfter(wp) /\ used' = used + 1 /\ used < Num
      /\ UNCHANGED <<data, rpc, dumpInfo, maxSeen>>
  BY BodyDone DEF Completes
<1>3. mem \in [Chunks -> Seq(Cells)] /\ e \in Nat /\ Num \in Nat
  BY Constants DEF Typed, SlaveTyped
<1>4. wp \notin Published /\ Published' = Published \cup {wp}
  BY <1>2, PublishedFacts DEF Typed, SlaveTyped
<1>5. \A i \in Published : data[i] # data[wp]
  <2>1. data[wp] # NULL /\ wp \in Slots
    BY <1>1, <1>2, Requests
  <2>2. QED
    BY <1>1, <1>4, <2>1 DEF Apart
<1>6. /\ mem'[data'[wp]] = Frame(e)
      /\ \A i \in Published : mem'[data'[i]] = mem[data[i]]
  BY <1>1, <1>2, <1>3, <1>5
<1>7. mem'[data'[wp]][1][1] = e /\ \A i \in Published : mem'[data'[i]][1][1] = Rec(i)
  <2>1. Frame(e)[1] = <<e, 1>>
    <3>1. 1 \in 1 .. Body[e]
      BY Constants
    <3>2. QED
      BY <3>1 DEF Frame
  <2>2. QED
    BY <1>6, <2>1 DEF Rec
<1>8. FramesIntact'
  <2>1. IsFrame(Frame(e)) /\ \A i \in Published : IsFrame(mem[data[i]])
    BY DEF FramesIntact, IsFrame
  <2>2. \A i \in Published' : IsFrame(mem'[data'[i]])
    BY <1>4, <1>6, <2>1
  <2>3. QED
    BY <2>2 DEF FramesIntact, IsFrame, Frame
<1>9. /\ \A j \in 1 .. used : At(wp', j + 1) = At(wp, j)
      /\ At(wp', 1) = wp
  <2>1. \A j \in 0 .. Num - 1 : At(SlotAfter(wp), j + 1) = At(wp, j)
    BY <1>1, RingPlaces
  <2>2. \A j \in 1 .. used : j \in 0 .. Num - 1
    BY <1>1, <1>2, <1>3
  <2>3. 0 \in 0 .. Num - 1 /\ 0 + 1 = 1
    BY Constants
  <2>4. At(wp, 0) = wp
    BY <1>1, RingPlaces
  <2>5. At(SlotAfter(wp), 1) = wp
    BY <2>1, <2>3, <2>4
  <2>6. QED
    BY <1>2, <2>1, <2>2, <2>5
<1> DEFINE R(j) == mem'[data'[At(wp', j)]][1][1]
<1>10. /\ \A j : Rec(At(wp, j))' = R(j)
       /\ R(1) = e /\ \A j \in 1 .. used : R(j + 1) = Rec(At(wp, j))
  <2>1. \A j : Rec(At(wp, j))' = R(j)
    BY DEF Rec, At
  <2>2. R(1) = e
    BY <1>7, <1>9
  <2>3. \A j \in 1 .. used : R(j + 1) = Rec(At(wp, j))
    BY <1>1, <1>7, <1>9
  <2>4. QED
    BY <2>1, <2>2, <2>3
<1>11. Rec(rp)' = R(used')
  <2>1. rp' = At(wp', used')
    BY DEF rp, At
  <2>2. QED
    BY <2>1 DEF Rec
<1> HIDE DEF R
<1>12. used > 0 => R(used') = Rec(rp)
  <2>1. used > 0 => used \in 1 .. used /\ rp = At(wp, used)
    BY <1>1
  <2>2. QED
    BY <1>2, <1>10, <2>1
<1>13. Follows(e + 1)'
  <2>1. used' > 0 /\ e + 1 <= R(1) + 1
    BY <1>1, <1>2, <1>3, <1>10
  <2>2. QED
    BY <1>10, <2>1 DEF Follows
<1>14. Ordered'
  <2>1. rpc' = "use" => R(used') = dumpInfo'
    BY <1>2, <1>12 DEF Ordered, Typed, SlaveTyped
  <2>2. R(used') <= maxSeen' + 1
    <3>1. CASE used > 0
      BY <1>2, <1>12, <3>1 DEF Ordered
    <3>2. CASE ~(used > 0)
      <4>1. used' = 1
        BY <1>1, <1>2, <3>2
      <4>2. QED
        BY <1>2, <1>10, <3>2, <4>1 DEF Follows
    <3>3. QED
      BY <3>1, <3>2
  <2>3. ASSUME NEW j \in 1 .. used' - 1
        PROVE  R(j) <= maxSeen' + 1 \/ R(j) <= R(j + 1) + 1
    <3>1. j \in 1 .. used /\ R(j + 1) = Rec(At(wp, j))
      BY <1>1, <1>2, <1>10
    <3>2. CASE j = 1
      BY <1>2, <1>10, <3>1, <3>2 DEF Follows
    <3>3. CASE j # 1
      <4>1. j - 1 \in 1 .. used - 1 /\ j - 1 \in 1 .. used /\ (j - 1) + 1 = j
        BY <1>1, <3>1, <3>3
      <4>2. R(j) = Rec(At(wp, j - 1))
        BY <1>10, <4>1
      <4>3. Rec(At(wp, j - 1)) <= maxSeen + 1 \/ Rec(At(wp, j - 1)) <= Rec(At(wp, j)) + 1
        BY <4>1 DEF Ordered
      <4>4. QED
        BY <1>2, <3>1, <4>2, <4>3
    <3>4. QED
      BY <3>2, <3>3
  <2>4. QED
    BY <1>10, <1>11, <2>1, <2>2, <2>3 DEF Ordered
<1>15. QED
  BY <1>8, <1>13, <1>14

-----------------------------------------------------------------------------
(* The theorems.                                                           *)

Streaming == Heads \cup Bodies

\* What Flowing promises while it does.
Whole ==
  /\ FramesIntact /\ Ordered
  /\ ipc \in Streaming => open /\ \E e \in 1 .. NRec + 1 : Streamed(e) /\ Follows(e)

LEMMA FlowingIsWhole == Flowing <=> (Clean => Whole)
<1>1. Streaming = {"set", "head", "readHead", "body", "readBody"}
  BY DEF Streaming, Heads, Bodies
<1>2. QED
  BY <1>1, Zenon DEF Flowing, Whole

LEMMA FlowingInit == TransferInit => Flowing
<1> SUFFICES ASSUME TransferInit PROVE Flowing
  OBVIOUS
<1>1. used = 0 /\ rpc = "get" /\ ipc = "connect" /\ Published = {}
  BY DEF TransferInit, Init, Published
<1>2. FramesIntact /\ Ordered
  BY <1>1 DEF FramesIntact, Ordered
<1>3. QED
  BY <1>1, <1>2 DEF Flowing

\* A new connection starts with the record after the last one taken.
LEMMA WholeConnects == Typed /\ Connects /\ ~stale' /\ Whole => Whole'
<1> SUFFICES ASSUME Typed, Connects, ~stale', Whole PROVE Whole'
  OBVIOUS
<1>1. /\ ipc = "connect" /\ ipc' = "set" /\ net' = << >> /\ open'
      /\ queue' = << >> /\ sbuf' = << >> /\ next' = dumpInfo + 1
      /\ UNCHANGED <<buf, part, wp, used, data, mem, rpc, dumpInfo, maxSeen>>
  BY DEF Connects, Connect, D!Start, ring, pool
<1>2. buf = << >>
  BY DEF Connects, Connect
<1>3. part = << >>
  BY <1>1 DEF Typed, SlaveTyped
<1>4. stream' = << >>
  <2>1. << >> \o << >> = << >>
    <3>1. << >> \in Seq(Cells)
      BY EmptySeq
    <3>2. QED
      BY <3>1, ConcatEmptySeq
  <2>2. QED
    BY <1>1, <1>2, <1>3, <2>1 DEF stream
<1>5. Sent' = dumpInfo + 1 /\ dumpInfo + 1 \in 1 .. NRec + 1 /\ Len(<< >>) = 0 /\ dumpInfo \in Nat
      /\ dumpInfo <= maxSeen /\ maxSeen \in Nat
  <2>1. dumpInfo \in 0 .. NRec /\ dumpInfo \in Nat /\ Len(<< >>) = 0
    BY EmptySeq, Constants DEF Typed, SlaveTyped, TypeOK
  <2>2. Sent' = dumpInfo + 1
    BY <1>1, <2>1 DEF Sent
  <2>3. QED
    BY <2>1, <2>2, RingRecords, Constants
<1>6. Streamed(dumpInfo + 1)'
  <2>1. Run(<< >>)
    BY <1>5 DEF Run
  <2>2. Run(stream)'
    BY <1>4, <1>5 DEF Run
  <2>3. QED
    BY <1>1, <1>4, <1>5, <2>2 DEF Streamed
<1>7. Follows(dumpInfo + 1)'
  BY <1>1, <1>5 DEF Follows
<1>8. FramesIntact' /\ Ordered'
  BY <1>1, RingKept DEF Whole
<1>9. QED
  BY <1>1, <1>5, <1>6, <1>7, <1>8 DEF Whole

\* The io thread receives.
LEMMA WholeReceives ==
  Typed /\ Handed /\ Apart /\ ~shared /\ Receives /\ Whole => Whole'
<1> SUFFICES ASSUME Typed, Handed, Apart, ~shared, Receives, Whole PROVE Whole'
  OBVIOUS
<1>1. UNCHANGED session /\ UNCHANGED open /\ UNCHANGED maxSeen /\ UNCHANGED sbuf
  BY DEF Receives, session
<1>2. FramesIntact /\ Ordered
  BY DEF Whole
<1>3. CASE Set
  <2>1. /\ ipc = "set" /\ ipc' = "head"
        /\ UNCHANGED <<net, buf, part, len, wp, used, data, mem, rpc, dumpInfo>>
    BY <1>3 DEF Set, ring
  <2>2. PICK e \in 1 .. NRec + 1 : open /\ Streamed(e) /\ Follows(e)
    BY <2>1 DEF Whole, Streaming, Heads
  <2>3. stream' = stream
    BY <1>1, <2>1 DEF stream
  <2>4. Streamed(e)'
    BY <1>1, <2>1, <2>2, <2>3, StreamKept DEF Heads
  <2>5. FramesIntact' /\ Ordered' /\ Follows(e)'
    BY <1>1, <1>2, <2>1, <2>2, RingKept
  <2>6. QED
    BY <1>1, <2>2, <2>4, <2>5 DEF Whole
<1>4. CASE Waits
  <2>1. /\ \/ ipc \in Heads /\ ipc' \in Heads
           \/ ipc \in Bodies /\ ipc' \in Bodies
        /\ UNCHANGED <<len, wp, used, data, mem, rpc, dumpInfo>>
        /\ stream' = stream
    BY <1>1, <1>4 DEF Waits, ring, pool, stream, Heads, Bodies
  <2>2. PICK e \in 1 .. NRec + 1 : open /\ Streamed(e) /\ Follows(e)
    BY <2>1 DEF Whole, Streaming
  <2>3. Streamed(e)'
    BY <1>1, <2>1, <2>2, StreamKept
  <2>4. FramesIntact' /\ Ordered' /\ Follows(e)'
    BY <1>1, <1>2, <2>1, <2>2, RingKept
  <2>5. QED
    BY <1>1, <2>2, <2>3, <2>4 DEF Whole
<1>5. ASSUME NEW cells \in Seq(Cells), Completes(cells), ipc \in {"head", "readHead"}
      PROVE  Whole'
  <2>1. PICK e \in 1 .. NRec + 1 : open /\ Streamed(e) /\ Follows(e)
    BY <1>5 DEF Whole, Streaming, Heads
  <2>2. ipc' = "body" /\ \E c \in Classes : Popped(c) \/ Carved(c)
    BY <1>5, HandedHead
  <2>3. Streamed(e)'
    BY <1>1, <1>5, <2>1, <2>2, StreamHead
  <2>4. UNCHANGED <<wp, used, mem, rpc, dumpInfo>>
    BY <1>5, HeadDone DEF Completes
  <2>5. \A i \in Published : data'[i] = data[i]
    <3>1. wp \notin Published /\ \A i \in Published : i \in Slots
      BY <1>5, PublishedFacts DEF Typed, SlaveTyped
    <3>2. data \in [Slots -> Chunks \cup {NULL}]
      BY DEF Typed, SlaveTyped, TypeOK
    <3>3. QED
      BY <2>2, <3>1, <3>2 DEF Popped, Carved
  <2>6. FramesIntact' /\ Ordered' /\ Follows(e)'
    BY <1>1, <1>2, <2>1, <2>4, <2>5, RingKept
  <2>7. QED
    BY <1>1, <2>1, <2>3, <2>6 DEF Whole
<1>6. ASSUME NEW cells \in Seq(Cells), Completes(cells), ipc \in {"body", "readBody"}
      PROVE  Whole'
  <2>1. PICK e \in 1 .. NRec + 1 : open /\ Streamed(e) /\ Follows(e)
    BY <1>6 DEF Whole, Streaming, Bodies
  <2>2. e \in Records /\ cells = Frame(e) /\ Streamed(e + 1)'
    BY <1>1, <1>6, <2>1, StreamBody
  <2>3. FramesIntact' /\ Ordered' /\ Follows(e + 1)'
    BY <1>1, <1>2, <1>6, <2>1, <2>2, RingFilled
  <2>4. e + 1 \in 1 .. NRec + 1
    BY <2>2, Constants
  <2>5. QED
    BY <1>1, <2>1, <2>2, <2>3, <2>4 DEF Whole
<1>7. QED
  BY <1>3, <1>4, <1>5, <1>6, ReceiveCases

\* What has gone wrong stays so.
LEMMA StaysClean == Typed /\ [TransferNext]_all => (Clean' => Clean)
<1> SUFFICES ASSUME Typed, [TransferNext]_all PROVE (stale => stale') /\ (shared => shared')
  BY DEF Clean
<1>1. CASE Connects
  <2>1. stale' = (stale \/ buf # << >>) /\ shared' = shared
    BY <1>1 DEF Connects, Connect, pool
  <2>2. QED
    BY <2>1, Zenon
<1>2. CASE Closes
  BY <1>2 DEF Closes, Break, RecvTooBig, Stop, pool, flags
<1>3. CASE Receives
  <2>1. UNCHANGED flags
    BY <1>3 DEF Receives, Receive, Set, RecvBuffered, RecvStart, Read
  <2>2. shared => shared'
    <3>1. CASE Set
      BY <3>1 DEF Set
    <3>2. CASE Waits \/ \E cells \in Seq(Cells) : Completes(cells) /\ ipc \in {"body", "readBody"}
      BY <1>3, <3>2, ChunksKept
    <3>3. CASE \E cells \in Seq(Cells) : Completes(cells) /\ ipc \in {"head", "readHead"}
      <4>1. Hold(data'[wp])
        BY <3>3, HeadDone
      <4>2. PICK x : shared' = (shared \/ \E i \in Slots \ {wp} : data[i] = x /\ x # NULL)
        BY <4>1 DEF Hold
      <4>3. QED
        BY <4>2, Zenon
    <3>4. QED
      BY <1>3, <3>1, <3>2, <3>3, ReceiveCases
  <2>3. QED
    BY <2>1, <2>2 DEF flags
<1>4. CASE TakesRecord \/ Sends \/ UNCHANGED all
  BY <1>4 DEF TakesRecord, RedisThread, Get, GetAdvance, Sends, slave, all, vars, pool, flags
<1>5. QED
  BY <1>1, <1>2, <1>3, <1>4 DEF TransferNext

LEMMA WholeStep == Typed /\ Handed /\ Apart /\ Flowing /\ [TransferNext]_all => Flowing'
<1> SUFFICES ASSUME Typed, Handed, Apart, Flowing, [TransferNext]_all, Clean'
             PROVE  Whole'
  <2>1. Flowing' <=> (Clean' => Whole')
    BY FlowingIsWhole, PTL
  <2>2. QED
    BY <2>1
<1>1. Clean
  BY StaysClean
<1>2. Whole /\ ~shared /\ ~stale'
  BY <1>1, FlowingIsWhole DEF Clean
<1>3. CASE Connects
  BY <1>2, <1>3, WholeConnects
<1>4. CASE Closes
  <2>1. /\ ipc' \in {"connect", "stopped"} /\ rpc' \in {rpc, "exit"}
        /\ UNCHANGED <<wp, used, data, mem, dumpInfo, maxSeen>>
    BY <1>4 DEF Closes, Break, RecvTooBig, Stop, ring, pool
  <2>2. FramesIntact' /\ Ordered'
    BY <1>2, <2>1, RingKept DEF Whole
  <2>3. QED
    BY <2>1, <2>2 DEF Whole, Streaming, Heads, Bodies
<1>5. CASE Receives
  BY <1>2, <1>5, WholeReceives
<1>6. CASE TakesRecord
  <2>1. UNCHANGED <<ipc, len, part, buf, net>> /\ UNCHANGED session /\ UNCHANGED open
    BY <1>6 DEF TakesRecord, RedisThread, Get, GetAdvance
  <2>2. FramesIntact' /\ Ordered' /\ \A e \in 1 .. NRec + 1 : Follows(e) => Follows(e)'
    BY <1>2, <1>6, RingTaken DEF Whole
  <2>3. stream' = stream
    BY <2>1 DEF stream, session
  <2>4. ipc \in Streaming => \A e : Streamed(e) => Streamed(e)'
    BY <2>1, <2>3, StreamKept DEF Streaming
  <2>5. QED
    BY <1>2, <2>1, <2>2, <2>4 DEF Whole
<1>7. CASE Sends
  <2>1. D!Next /\ UNCHANGED slave /\ UNCHANGED maxSeen
    BY <1>7 DEF Sends
  <2>2. UNCHANGED <<ipc, wp, used, data, mem, rpc, dumpInfo>>
    BY <2>1 DEF slave, ring, pool
  <2>3. FramesIntact' /\ Ordered' /\ \A e : Follows(e) => Follows(e)'
    BY <1>2, <2>1, <2>2, RingKept DEF Whole
  <2>4. ipc \in Streaming /\ open => open' /\ \A e : Streamed(e) => Streamed(e)'
    <3>1. SUFFICES ASSUME ipc \in Heads \cup Bodies, open
                   PROVE  open' /\ \A e : Streamed(e) => Streamed(e)'
      BY DEF Streaming
    <3>2. ASSUME NEW e, Streamed(e) PROVE Streamed(e)' /\ open'
      BY <2>1, <3>1, <3>2, StreamSends
    <3>3. PICK e \in 1 .. NRec + 1 : Streamed(e)
      BY <1>2, <3>1 DEF Whole, Streaming
    <3>4. QED
      BY <3>2, <3>3
  <2>5. QED
    BY <1>2, <2>2, <2>3, <2>4 DEF Whole
<1>8. CASE UNCHANGED all
  <2>1. UNCHANGED <<ipc, len, part, buf, net, wp, used, data, mem, rpc, dumpInfo, maxSeen, open>>
        /\ UNCHANGED session
    BY <1>8 DEF all, vars, ring, pool
  <2>2. FramesIntact' /\ Ordered' /\ \A e : Follows(e) => Follows(e)'
    BY <1>2, <2>1, RingKept DEF Whole
  <2>3. stream' = stream
    BY <2>1 DEF stream, session
  <2>4. ipc \in Streaming => \A e : Streamed(e) => Streamed(e)'
    BY <2>1, <2>3, StreamKept DEF Streaming
  <2>5. QED
    BY <1>2, <2>1, <2>2, <2>4 DEF Whole
<1>9. QED
  BY <1>3, <1>4, <1>5, <1>6, <1>7, <1>8 DEF TransferNext

\* The invariant holds from the first state on.
LEMMA Invariant == Spec => []IInv
<1>1. TransferInit => IInv
  BY TypedInit, HandedInit, ExclusiveInit, ApartInit, FlowingInit DEF IInv, ChunkExclusiveIfClean,
     TransferInit, Init
<1>2. IInv /\ [TransferNext]_all => IInv'
  BY TypedStep, HandedStep, ExclusiveStep, ApartStep, WholeStep DEF IInv
<1>3. QED
  BY <1>1, <1>2, PTL DEF Spec

(* The rings, the send buffer, the connection and the pool of chunks stay  *)
(* within their bounds: rs_recv_tmpbuf(), rs_send_tmpbuf() and the two     *)
(* rings never hold more than they have room for, and a connection that    *)
(* breaks between rs_palloc() and rs_ringbuf_set_advance() leaks nothing.  *)
THEOREM NothingGrows == Spec => []Bounded
<1>1. IInv => Bounded
  BY DEF IInv, Typed, SlaveTyped, Handed, Bounded
<1>2. QED
  BY <1>1, Invariant, PTL

(* Until a connection breaks between rs_pfree() of a slot's chunk and the  *)
(* rs_palloc() that follows, a chunk is in one slot or on the free stack   *)
(* of its class, once, and none is given to two slots.                     *)
THEOREM ChunksAreNotShared == Spec => []ChunkExclusiveIfClean
<1>1. IInv => ChunkExclusiveIfClean
  BY DEF IInv
<1>2. QED
  BY <1>1, Invariant, PTL

(* However the stream is cut by write(), by the kernel and by read(), each *)
(* record that rs_ringbuf_set_advance() publishes is one the master sent,  *)
(* whole, as long as no connection started on what the last one has left   *)
(* and no chunk was given to two slots.                                    *)
THEOREM RecordsAreWhole == Spec => []FramesIntactIfClean
<1>1. IInv => FramesIntactIfClean
  BY DEF IInv, Flowing, FramesIntactIfClean
<1>2. QED
  BY <1>1, Invariant, PTL

(* The redis thread is given the records in their order, from wherever a   *)
(* new connection starts: none is left out, with both rings and both       *)
(* buffers in between, wherever connections break, unless one has left     *)
(* cells in recv_buf that the next one began on, or a chunk it had freed   *)
(* was then given to two slots.                                            *)
THEOREM NoRecordIsMissedIfClean == Spec => NoneMissedIfClean
<1>1. IInv /\ [TransferNext]_all => [Clean => dumpInfo' <= maxSeen + 1]_all
  <2>1. SUFFICES ASSUME IInv, TransferNext, Clean
                 PROVE  dumpInfo' <= maxSeen + 1
    OBVIOUS
  <2>2. Typed /\ FramesIntact /\ Ordered
    BY <2>1 DEF IInv, Flowing
  <2>3. CASE TakesRecord
    BY <2>2, <2>3, RingTaken
  <2>4. CASE Connects \/ Closes \/ Receives \/ Sends
    <3>1. dumpInfo' = dumpInfo
      <4>1. CASE Connects \/ Closes
        BY <4>1 DEF Connects, Connect, Closes, Break, RecvTooBig, Stop
      <4>2. CASE Receives
        BY <4>2 DEF Receives, Receive, Set, RecvBuffered, RecvStart, Read
      <4>3. CASE Sends
        BY <4>3 DEF Sends, slave
      <4>4. QED
        BY <2>4, <4>1, <4>2, <4>3
    <3>2. dumpInfo \in Nat /\ maxSeen \in Nat /\ dumpInfo <= maxSeen
      BY <2>2, RingRecords
    <3>3. dumpInfo <= maxSeen + 1
      BY <3>2
    <3>4. QED
      BY <3>1, <3>3
  <2>5. QED
    BY <2>1, <2>3, <2>4 DEF TransferNext
<1>2. QED
  BY <1>1, Invariant, PTL DEF Spec, NoneMissedIfClean
=============================================================================
