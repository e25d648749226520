------------------------------- MODULE Palloc -------------------------------
(***************************************************************************)
(* The slab pool of src/core/rs_palloc.c, from which every other part of   *)
(* the program takes its memory.                                           *)
(*                                                                         *)
(* A pool is cut into slabs, a slab belongs to one size class and is carved*)
(* into chunks of the size of the class; a freed chunk goes on the stack of*)
(* its class.  Addresses are offsets from p->start (RS_POOL_PREALLOC; with *)
(* RS_POOL_PAGEALLOC slabs come from malloc(), disjoint as well).  Requests*)
(* above chunk_size are malloc()ed by rs_palloc() and never touch the pool.*)
(* The arrays slab and free_chunk grow as needed and are sequences here.   *)
(***************************************************************************)
EXTENDS Integers, SequencesExt, FiniteSetsExt

CONSTANTS
  Align,      \* RS_ALIGNMENT
  InitSize,   \* pool.initsize: size of the smallest class
  MemSize,    \* pool.memsize
  ChunkSize,  \* chunk_size, size of the largest class and bound of a slab
  MaxIdx,     \* RS_POOL_CLASS_IDX
  FactorNum, FactorDen,  \* pool.factor, "chunk class grow factor"
  Requests,   \* sizes asked for
  MaxLive     \* bound: allocations held at the same time

ASSUME PallocAssumption ==
  /\ {Align, InitSize, MemSize, ChunkSize, FactorNum, FactorDen} \subseteq Nat \ {0}
  /\ FactorNum >= FactorDen
  /\ MaxIdx \in Nat /\ MaxLive \in Nat
  /\ Requests \subseteq 1 .. ChunkSize

-----------------------------------------------------------------------------
(* rs_create_pool(): the size classes.                                     *)

Aligned(n) == ((n + Align - 1) \div Align) * Align

Grown[i \in 0 .. MaxIdx] ==
  Aligned(IF i = 0 THEN InitSize ELSE (Grown[i - 1] * FactorNum) \div FactorDen)

\* p->cur_idx: the last class, of one chunk of chunk_size in each slab.
CurIdx == Min({i \in 0 .. MaxIdx : i = MaxIdx \/ Grown[i] >= ChunkSize})

Classes  == 0 .. CurIdx
Size[c \in Classes]  == IF c = CurIdx THEN ChunkSize ELSE Grown[c]
Count[c \in Classes] == IF c = CurIdx THEN 1 ELSE ChunkSize \div Grown[c]

MaxSize  == Aligned(MemSize)

(* rs_palloc_id(): a binary search for the class of a size.                *)

\* <<low, high>> of the search.
Intervals == (0 .. CurIdx + 1) \X (-1 .. CurIdx)

LowOnly_mut(size) ==
  LET Search[iv \in Intervals] ==
        LET low == iv[1]
            high == iv[2]
            mid == low + (high - low) \div 2
        IN  IF low >= high THEN low
            ELSE IF Size[mid] > size THEN Search[<<low, mid - 1>>]
            ELSE IF Size[mid] < size THEN Search[<<mid + 1, high>>]
            ELSE low
  IN  Search[<<0, CurIdx>>]

PallocId(size) ==
  LET Search[iv \in Intervals] ==
        LET low == iv[1]
            high == iv[2]
            mid == low + (high - low) \div 2
        IN  IF low > high THEN low
            ELSE IF Size[mid] > size THEN Search[<<low, mid - 1>>]
            ELSE IF Size[mid] < size THEN Search[<<mid + 1, high>>]
            ELSE low
  IN  Search[<<0, CurIdx>>]

-----------------------------------------------------------------------------
VARIABLES
  cur,        \* p->cur; p->used_size is the same number
  freeSize,   \* p->free_size
  slab,       \* slab[c]: start of each slab of class c
  chunk,      \* chunk[c]: the next chunk to carve, or NoChunk
  left,       \* left[c]: c->free, chunks left to carve
  freeChunk,  \* freeChunk[c]: the stack of freed chunks
  live,       \* the callers: what is allocated and not freed
  peak        \* history: the most chunks of each class allocated at once

pool == <<cur, freeSize, slab, chunk, left, freeChunk>>
vars == <<pool, live, peak>>

NoChunk == -1

LiveIn(c) == {a \in live : a.id = c}

Init ==
  /\ cur = 0 /\ freeSize = MaxSize
  /\ slab = [c \in Classes |-> << >>]
  /\ chunk = [c \in Classes |-> NoChunk] /\ left = [c \in Classes |-> 0]
  /\ freeChunk = [c \in Classes |-> << >>]
  /\ live = {} /\ peak = [c \in Classes |-> 0]

\* The caller gets the chunk at addr, to put size bytes in it.
Give(addr, size, c) ==
  /\ live' = live \cup {[addr |-> addr, size |-> size, id |-> c]}
  /\ peak' = [peak EXCEPT ![c] = Max({@, Cardinality(LiveIn(c)) + 1})]

Peek_mut(size, c) ==
  /\ freeChunk[c] # << >>
  /\ Give(Last(freeChunk[c]), size, c)
  /\ UNCHANGED pool

\* rs_palloc() from the stack of freed chunks.
Reuse(size, c) ==
  /\ freeChunk[c] # << >>
  /\ Give(Last(freeChunk[c]), size, c)
  /\ freeChunk' = [freeChunk EXCEPT ![c] = Front(@)]
  /\ UNCHANGED <<cur, freeSize, slab, chunk, left>>

\* One chunk is carved from a slab of n chunks that starts at addr.
Take(addr, n, c) ==
  /\ left' = [left EXCEPT ![c] = n - 1]
  /\ chunk' = [chunk EXCEPT ![c] = IF n - 1 > 0 THEN addr + Size[c] ELSE NoChunk]

CarveFirst_mut(size, c) ==
  /\ chunk[c] # NoChunk
  /\ Give(chunk[c], size, c)
  /\ Take(chunk[c], left[c], c)
  /\ UNCHANGED <<cur, freeSize, slab, freeChunk>>

\* rs_palloc() from the current slab of the class.
Carve(size, c) ==
  /\ freeChunk[c] = << >> /\ chunk[c] # NoChunk
  /\ Give(chunk[c], size, c)
  /\ Take(chunk[c], left[c], c)
  /\ UNCHANGED <<cur, freeSize, slab, freeChunk>>

SlabBytes(c) == Size[c] * Count[c]

\* rs_palloc() with a new slab: rs_palloc_new() and rs_pmemalloc().  When
\* free_size is too small the caller gets NULL and nothing changes.
NewSlab(size, c) ==
  /\ freeChunk[c] = << >> /\ chunk[c] = NoChunk
  /\ SlabBytes(c) <= freeSize
  /\ cur' = cur + SlabBytes(c)
  /\ freeSize' = freeSize - SlabBytes(c)
  /\ slab' = [slab EXCEPT ![c] = Append(@, cur)]
  /\ Give(cur, size, c)
  /\ Take(cur, Count[c], c)
  /\ UNCHANGED freeChunk

Palloc(size) ==
  /\ Cardinality(live) < MaxLive
  /\ LET c == PallocId(size)
     IN  Reuse(size, c) \/ Carve(size, c) \/ NewSlab(size, c)

\* rs_pfree().  The chunk still carries what was written to it.
Pfree(a) ==
  /\ live' = live \ {a}
  /\ freeChunk' = [freeChunk EXCEPT ![a.id] = Append(@, a.addr)]
  /\ UNCHANGED <<cur, freeSize, slab, chunk, left, peak>>

Next == (\E size \in Requests : Palloc(size)) \/ (\E a \in live : Pfree(a))

Spec == Init /\ [][Next]_vars

-----------------------------------------------------------------------------
(* Types; an address is that of a chunk in the pool.                       *)
TypeOK ==
  /\ cur \in 0 .. MaxSize /\ freeSize \in 0 .. MaxSize
  /\ slab \in [Classes -> Seq(0 .. MaxSize - 1)]
  /\ chunk \in [Classes -> {NoChunk} \cup 0 .. MaxSize - 1]
  /\ left \in [Classes -> Nat] /\ \A c \in Classes : left[c] < Count[c]
  /\ freeChunk \in [Classes -> Seq(0 .. MaxSize - 1)]
  /\ \A a \in live : a.addr \in 0 .. MaxSize - 1 /\ a.size \in Requests /\ a.id \in Classes

Region(start, n) == start .. start + n - 1

\* The chunks of class c that were carved, and those that were not yet.
Carved(c)   == {s + k * Size[c] : s \in Range(slab[c]), k \in 0 .. Count[c] - 1}
               \ {chunk[c] + k * Size[c] : k \in 0 .. left[c] - 1}
Uncarved(c) == {chunk[c] + k * Size[c] : k \in 0 .. left[c] - 1}

(* The slabs of all the classes lie one after the other in the pool, as    *)
(* used_size and free_size say.                                            *)
SlabsDisjoint ==
  LET Bytes(c, i) == Region(slab[c][i], SlabBytes(c))
  IN  /\ cur + freeSize = MaxSize
      /\ \A c, d \in Classes : \A i \in DOMAIN slab[c], j \in DOMAIN slab[d] :
           <<c, i>> # <<d, j>> => Bytes(c, i) \cap Bytes(d, j) = {}
      /\ UNION {UNION {Bytes(c, i) : i \in DOMAIN slab[c]} : c \in Classes} = Region(0, cur)

(* Every chunk of every slab is in one place: with a caller, on the stack  *)
(* of its class, or still to be carved from the last slab.                 *)
ChunksPartition ==
  \A c \in Classes :
    LET held == {a.addr : a \in LiveIn(c)}
    IN  /\ Cardinality(held) = Cardinality(LiveIn(c))
        /\ IsInjective(freeChunk[c])
        /\ held \cap Range(freeChunk[c]) = {}
        /\ held \cup Range(freeChunk[c]) = Carved(c)
        /\ Uncarved(c) \subseteq Region(IF slab[c] = << >> THEN 0 ELSE Last(slab[c]), SlabBytes(c))

(* The memory of the pool is divided up: every byte is in one slab at most, *)
(* every chunk of a slab with one caller, on its stack, or uncarved.       *)
PoolPartition == TypeOK /\ SlabsDisjoint /\ ChunksPartition

\* A size for which the search stops in the middle of its interval.
Exact(size) == \E c \in Classes : Size[c] = size

\* The bytes that a caller asked for, and those of its chunk.
Asked(a) == Region(a.addr, a.size)
Chunk(a) == Region(a.addr, Size[a.id])

(* A chunk lies in the memory of the pool and shares no byte with another  *)
(* one in use; and the bytes asked for lie in the chunk, so that they are  *)
(* shared with nobody either, but for a size that is exactly that of a     *)
(* class.                                                                  *)
AllocationsDisjoint ==
  \A a \in live :
    /\ Chunk(a) \subseteq Region(0, MaxSize)
    /\ \A b \in live \ {a} : Chunk(a) \cap Chunk(b) = {}
    /\ ~Exact(a.size) =>
         /\ Asked(a) \subseteq Chunk(a)
         /\ \A b \in live \ {a} : ~Exact(b.size) => Asked(a) \cap Asked(b) = {}

(* The class of an allocation is the smallest of those that hold it,       *)
(* except for a size that is exactly that of a class, for which nothing is *)
(* said: such an allocation can get a class that is too small.             *)
ClassIsBest ==
  \A a \in live : ~Exact(a.size) =>
    /\ Size[a.id] >= a.size
    /\ \A c \in Classes : Size[c] >= a.size => a.id <= c

(* "Calc alloc size belong to which class id": a chunk is large enough for *)
(* what it was asked for.                                                  *)
ChunkHoldsRequest == \A a \in live : a.size <= Size[a.id]

(* A class takes a new slab only when it has more allocations at once than *)
(* ever before: freeing and allocating again never uses up the pool.       *)
SlabsFollowPeak ==
  \A c \in Classes : Cardinality(Carved(c)) = peak[c]
=============================================================================
