----------------------------- MODULE RowDecode -----------------------------
(***************************************************************************)
(* How the slave turns a rows event into the rows it writes to Redis:      *)
(* rs_dm_binlog_row() of rs_binlog_row.c with the handlers of              *)
(* rs_mysql_test_test.c, called by the redis thread for one event after    *)
(* the other.                                                              *)
(*                                                                         *)
(* The body of an event is a sequence of bytes, written by MySQL (Event    *)
(* and what it uses) and read by the code at position p.  A bitmap byte has*)
(* Bits bits, 8 in the code, so that tables of three columns need two.     *)
(* Strings live in chunks of the pool si->dpool: a chunk keeps what was    *)
(* written into it before, behind what is written now.                     *)
(***************************************************************************)
EXTENDS Integers, SequencesExt, FiniteSetsExt

CONSTANTS
  Tables,     \* tables with a handler: [cols, rows, used, images]
  Bits,       \* bits of a byte of a bitmap
  Small,      \* size of the chunks of the smaller slab class
  MaxEvents,  \* bound: rows events
  NULL

\* cols[i] is [type, meta, pack, to]: the type and metadata bytes of the table
\* map, the bytes MySQL needs for a length, and where pas_arr[i] puts the value.
\* rows are the rows of the table, used the column sets an event can name, and
\* images bounds the row images of an event.
ASSUME RowDecodeAssumption ==
  /\ {Bits, Small, MaxEvents} \subseteq Nat \ {0}
  /\ \A t \in Tables : \A i \in DOMAIN t.cols :
       t.cols[i].to \in {"skip", "stack", "pool"}

VARIABLES
  table,      \* the table of the events
  ev,         \* the event: [type, images, used, after, body]
  pc,         \* where rs_dm_binlog_row() is
  pos,        \* p: bytes of the body that were read
  col,        \* i: the column, from 0
  nullBits,   \* null_bits of the image
  cmp,        \* bytes of the column metadata that were passed
  meta,       \* meta_len of the last column that was parsed
  before,     \* the next image of an UPDATE is the second of its pair
  val,        \* the struct obj: its fields, of a string what len says
  held,       \* held[k]: chunk of the string in field k
  mem,        \* the content of each chunk
  freeChunk,  \* the stack of freed chunks of each slab class
  fresh,      \* chunks of each class that were handed out at least once
  calls,      \* history: handlers called for this event, with the struct
  sent,       \* history: what the SET commands of this event said
  slip,       \* history: the place in the event or the metadata is lost
  events

place == <<pos, col, nullBits, cmp, meta, before>>
obj   == <<val, held>>
dpool == <<mem, freeChunk, fresh>>
hist  == <<calls, sent, slip>>
vars  == <<table, ev, pc, place, obj, dpool, hist, events>>

Cols    == table.cols
N       == Len(Cols)
Classes == {"small", "large"}
Chunks  == Classes \X (1 .. N)

\* rs_column_meta: meta_len, fixed_len and parse_handle of the column types.
Column(m, f, h) == [meta_len |-> m, fixed_len |-> f, parse |-> h]

ColumnMeta ==
  [DECIMAL   |-> Column(0, 0, "none"), TINYINT    |-> Column(0, 1, "def"),
   SHORT     |-> Column(0, 2, "def"),  LONG       |-> Column(0, 4, "def"),
   FLOAT     |-> Column(1, 4, "def"),  DOUBLE     |-> Column(1, 8, "def"),
   NULLTYPE  |-> Column(0, 0, "none"), TIMESTAMP  |-> Column(0, 4, "def"),
   LONGLONG  |-> Column(0, 8, "def"),  INT24      |-> Column(0, 3, "def"),
   DATE      |-> Column(0, 3, "def"),  TIME       |-> Column(0, 3, "def"),
   DATETIME  |-> Column(0, 8, "def"),  YEAR       |-> Column(0, 1, "def"),
   VARCHAR   |-> Column(2, 0, "varchar"),   BIT     |-> Column(2, 0, "bit"),
   NEWDECIMAL |-> Column(2, 0, "decimal"),  BLOB    |-> Column(1, 0, "blob"),
   VARSTRING |-> Column(2, 0, "varstring"), STRING  |-> Column(2, 0, "string"),
   GEOMETRY  |-> Column(1, 0, "blob")]

-----------------------------------------------------------------------------
(* Bytes                                                                   *)

At(bytes, k)        == IF k \in DOMAIN bytes THEN bytes[k] ELSE 0
Slice(bytes, k, n)  == [j \in 1 .. n |-> At(bytes, k + j)]
Little(bytes, k, n) == SumFunction([j \in 1 .. n |-> At(bytes, k + j) * 256 ^ (j - 1)])
Bit(bytes, k)       == (At(bytes, (k \div Bits) + 1) \div 2 ^ (k % Bits)) % 2 = 1
Bytes(n)            == (n + Bits - 1) \div Bits    \* of a bitmap of n bits

-----------------------------------------------------------------------------
(* MySQL: the body of a rows event.                                        *)

Bitmap(S, n) ==
  [b \in 1 .. Bytes(n) |->
     SumSet({2 ^ k : k \in {j \in 0 .. Bits - 1 : (b - 1) * Bits + j + 1 \in S}})]

LengthBytes(n, pack) == [j \in 1 .. pack |-> (n \div 256 ^ (j - 1)) % 256]

\* An image: the nulls among the used columns, then the values of the others.
Image(row, used) ==
  LET cols == SetToSortSeq(used, <)
      null == {j \in DOMAIN cols : row[cols[j]] = NULL}
      Field(k) == IF row[k] = NULL THEN << >>
                  ELSE LengthBytes(Len(row[k]), Cols[k].pack) \o row[k]
  IN  Bitmap(null, Len(cols)) \o FlattenSeq([j \in DOMAIN cols |-> Field(cols[j])])

\* Images come in pairs in an UPDATE, the second with columns of its own.
UsedBy(e, j) == IF e.type = "update" /\ j % 2 = 0 THEN e.after ELSE e.used

Body(e) == FlattenSeq([j \in DOMAIN e.images |-> Image(e.images[j], UsedBy(e, j))])

Events ==
  {e \in [type : {"write", "update", "delete"},
          images : UNION {[1 .. n -> table.rows] : n \in 1 .. table.images},
          used : table.used, after : table.used] :
     IF e.type = "update" THEN Len(e.images) % 2 = 0
     ELSE e.after = e.used}

-----------------------------------------------------------------------------
(* The parse handlers: the bytes of the length and the length of a value.  *)
(* c bytes of the column metadata cm were passed, q bytes of the body.     *)

Cm == FlattenSeq([k \in DOMAIN Cols |-> Cols[k].meta])

\* rs_binlog_decimal_binsize()
Dig2Bytes == <<0, 1, 1, 2, 2, 3, 3, 4, 4, 4>>
Binsize(precision, scale) ==
  LET intg == precision - scale
  IN  4 * (intg \div 9) + Dig2Bytes[(intg % 9) + 1]
      + 4 * (scale \div 9) + Dig2Bytes[(scale % 9) + 1]

\* The length of a CHAR above 255 has its high bits in the type byte, inverted.
CharMax(c) ==
  LET high == (At(Cm, c + 1) \div 16) % 4
  IN  At(Cm, c + 2) + 256 * (3 - high)

ShortPrefix_mut(h, c) ==
  CASE h = "varchar"   -> IF Little(Cm, c, 2) <= 256 THEN 1 ELSE 2
    [] h = "string"    -> IF CharMax(c) < 256 THEN 1 ELSE 2
    [] h = "blob"      -> At(Cm, c + 1)
    [] h = "varstring" -> At(Cm, c + 2)
    [] OTHER           -> 0

Prefix(h, c) ==
  CASE h = "varchar"   -> IF Little(Cm, c, 2) < 256 THEN 1 ELSE 2
    [] h = "string"    -> IF CharMax(c) < 256 THEN 1 ELSE 2
    [] h = "blob"      -> At(Cm, c + 1)
    [] h = "varstring" -> At(Cm, c + 2)
    [] OTHER           -> 0

ValueLen(m, c, q) ==
  CASE m.parse = "def"     -> m.fixed_len
    [] m.parse = "bit"     -> At(Cm, c + 1) \div 8
    [] m.parse = "decimal" -> Binsize(At(Cm, c + 1), At(Cm, c + 2))
    [] OTHER               -> Little(ev.body, q, Prefix(m.parse, c))

-----------------------------------------------------------------------------
Fields == [k \in 1 .. N |-> NULL]

Init ==
  /\ table \in Tables
  /\ ev = NULL /\ pc = "idle" /\ events = 0
  /\ pos = 0 /\ col = 0 /\ nullBits = << >> /\ cmp = 0 /\ meta = NULL
  /\ before = FALSE
  /\ val = Fields /\ held = Fields
  /\ mem = [c \in Chunks |-> << >>]
  /\ freeChunk = [c \in Classes |-> << >>] /\ fresh = [c \in Classes |-> 0]
  /\ calls = << >> /\ sent = << >> /\ slip = FALSE

\* rs_redis_dml_data() calls rs_dm_test_test() for a rows event of the table.
Handle ==
  /\ pc \in {"idle", "done"} /\ events < MaxEvents
  /\ \E e \in Events :
       ev' = [type |-> e.type, images |-> e.images, used |-> e.used,
              after |-> e.after, body |-> Body(e)]
  /\ pc' = "image" /\ events' = events + 1
  /\ pos' = 0 /\ meta' = NULL /\ before' = FALSE
  /\ calls' = << >> /\ sent' = << >> /\ slip' = FALSE
  /\ UNCHANGED <<table, col, nullBits, cmp, obj, dpool>>

\* use_bits or use_bits_after
Used == Bitmap(IF ev.type = "update" /\ before THEN ev.after ELSE ev.used, N)

KeepStruct_mut ==
  /\ pc = "image" /\ pos < Len(ev.body)
  /\ nullBits' = Slice(ev.body, pos, Bytes(N))
  /\ pos' = pos + Bytes(N)
  /\ col' = 0 /\ cmp' = 0
  /\ slip' = (slip \/ Used # Bitmap(1 .. N, N))
  /\ pc' = "column"
  /\ UNCHANGED <<table, ev, meta, before, obj, dpool, calls, sent, events>>

\* The null bits are as many as the used bits; before_parse_handle empties obj.
StartImage ==
  /\ pc = "image" /\ pos < Len(ev.body)
  /\ nullBits' = Slice(ev.body, pos, Bytes(N))
  /\ pos' = pos + Bytes(N)
  /\ col' = 0 /\ cmp' = 0
  /\ val' = Fields /\ held' = Fields
  /\ slip' = (slip \/ Used # Bitmap(1 .. N, N))
  /\ pc' = "column"
  /\ UNCHANGED <<table, ev, meta, before, dpool, calls, sent, events>>

Skipped(k) == ~Bit(Used, k) \/ Bit(nullBits, k)
Type(k)    == ColumnMeta[Cols[k + 1].type]

\* Not used, or null: the metadata of the column that was parsed last is
\* passed, and before there is one a NULL pointer is read.
SkipColumn ==
  /\ pc = "column" /\ col < N /\ Skipped(col)
  /\ IF meta = NULL
     THEN pc' = "undefined" /\ UNCHANGED <<col, cmp, slip>>
     ELSE /\ col' = col + 1 /\ cmp' = cmp + meta
          /\ slip' = (slip \/ (col + 1 < N /\ meta # Type(col).meta_len))
          /\ UNCHANGED pc
  /\ UNCHANGED <<table, ev, pos, nullBits, meta, before, obj, dpool, calls,
                 sent, events>>

\* There is no parse handle: RS_ERR, and the slave stops.
Unsupported ==
  /\ pc = "column" /\ col < N /\ ~Skipped(col) /\ Type(col).parse = "none"
  /\ pc' = "error" /\ meta' = Type(col).meta_len
  /\ UNCHANGED <<table, ev, pos, col, nullBits, cmp, before, obj, dpool, hist,
                 events>>

\* rs_palloc_id() and rs_palloc(): a freed chunk first.  What the chunk held
\* stays behind the new value.
Store(v) ==
  LET c == IF Len(v) <= Small THEN "small" ELSE "large"
      chunk == IF freeChunk[c] # << >> THEN Last(freeChunk[c]) ELSE <<c, fresh[c] + 1>>
  IN  /\ held' = [held EXCEPT ![col + 1] = chunk]
      /\ mem' = [mem EXCEPT ![chunk] = v \o SubSeq(@, Len(v) + 1, Len(@))]
      /\ IF freeChunk[c] # << >>
         THEN freeChunk' = [freeChunk EXCEPT ![c] = Front(@)] /\ UNCHANGED fresh
         ELSE fresh' = [fresh EXCEPT ![c] = @ + 1] /\ UNCHANGED freeChunk

\* The length of a BIT is taken from the wrong byte, and an ENUM or a SET, which
\* is a STRING to the table map, is taken for a CHAR.
Misread(c) == c.type = "BIT" \/ (c.type = "STRING" /\ c.meta[1] \in {247, 248})

\* A value is parsed and put where pas_arr says.  What follows a length that
\* leads out of the record, and an empty string for the pool (class -1), is
\* undefined.
ParseColumn ==
  LET m  == Type(col)
      to == Cols[col + 1].to
      q  == pos + Prefix(m.parse, cmp)
      n  == ValueLen(m, cmp, pos)
      v  == Slice(ev.body, q, n)
  IN  /\ pc = "column" /\ col < N /\ ~Skipped(col) /\ m.parse # "none"
      /\ IF Prefix(m.parse, cmp) > 4 \/ q + n > Len(ev.body) \/ (to = "pool" /\ n = 0)
         THEN /\ pc' = IF to = "pool" /\ n = 0 THEN "undefined" ELSE "outside"
              /\ UNCHANGED <<pos, col, cmp, meta, obj, dpool>>
         ELSE /\ pos' = q + n /\ col' = col + 1
              /\ meta' = m.meta_len /\ cmp' = cmp + m.meta_len
              /\ val' = IF to = "skip" THEN val ELSE [val EXCEPT ![col + 1] = v]
              /\ IF to = "pool" THEN Store(v) ELSE UNCHANGED <<held, dpool>>
              /\ UNCHANGED pc
      /\ slip' = (slip \/ Misread(Cols[col + 1]))
      /\ UNCHANGED <<table, ev, nullBits, before, calls, sent, events>>

-----------------------------------------------------------------------------
(* The image is complete: handler, and free_handle.                        *)

Op == IF ev.type # "update" THEN ev.type
      ELSE IF before THEN "update" ELSE "before_update"

\* "SET test_%d %s": strings are read from their chunk to the next zero.
Sets == Op \in {"write", "update"}
Said == [k \in 1 .. N |-> IF Cols[k].to = "pool" THEN mem[held[k]] ELSE val[k]]

\* rs_free_test_test() gives the strings back.
Given(c) == SelectSeq(held, LAMBDA chunk : chunk # NULL /\ chunk[1] = c)

EndImage ==
  /\ pc = "column" /\ col = N
  /\ before' = (ev.type = "update" /\ ~before)
  /\ IF Sets /\ \E k \in 1 .. N : Cols[k].to = "pool" /\ held[k] = NULL
     THEN pc' = "undefined" /\ UNCHANGED <<freeChunk, calls, sent>>
     ELSE /\ pc' = "image"
          /\ calls' = Append(calls, <<Op, val>>)
          /\ sent' = IF Sets THEN Append(sent, Said) ELSE sent
          /\ freeChunk' = [c \in Classes |-> freeChunk[c] \o Given(c)]
  /\ UNCHANGED <<table, ev, pos, col, nullBits, cmp, meta, obj, mem, fresh, slip,
                 events>>

\* RS_OK
Return ==
  /\ pc = "image" /\ pos >= Len(ev.body)
  /\ pc' = "done"
  /\ UNCHANGED <<table, ev, place, obj, dpool, hist, events>>

Next == \/ Handle \/ StartImage \/ SkipColumn \/ Unsupported \/ ParseColumn
        \/ EndImage \/ Return

Spec == Init /\ [][Next]_vars

-----------------------------------------------------------------------------
(* Types; the struct has a field for every column, the position stays in   *)
(* the event.                                                              *)
TypeOK ==
  /\ pc \in {"idle", "image", "column", "done", "error", "undefined", "outside"}
  /\ pos \in Nat /\ (ev # NULL /\ ~slip => pos <= Len(ev.body))
  /\ col \in 0 .. N /\ cmp \in Nat /\ meta \in {NULL, 0, 1, 2}
  /\ before \in BOOLEAN /\ slip \in BOOLEAN /\ events \in 0 .. MaxEvents
  /\ DOMAIN val = 1 .. N /\ held \in [1 .. N -> Chunks \cup {NULL}]
  /\ freeChunk \in [Classes -> Seq(Chunks)] /\ fresh \in [Classes -> 0 .. N]

\* What the handlers ought to get: the images MySQL has written.
Expected ==
  [j \in DOMAIN ev.images |->
     <<IF ev.type # "update" THEN ev.type
       ELSE IF j % 2 = 1 THEN "before_update" ELSE "update",
       [k \in 1 .. N |-> IF Cols[k].to = "skip" THEN NULL ELSE ev.images[j][k]]>>]

(* The handlers are called with the rows of the event, all of them, in     *)
(* their order, the two images of an UPDATE by turns, whatever the types   *)
(* and the lengths, and with NULLs, as long as no column is passed with    *)
(* the metadata of another one or read with the length of another type.    *)
(* Then no length leads out of the event, either.                          *)
RowsDecodedUnlessSlip ==
  ev # NULL /\ ~slip =>
    /\ IsPrefix(calls, Expected)
    /\ pc = "done" => calls = Expected
    /\ pc # "outside"

(* Between two images the pool has all its strings back, each once.        *)
StringsReturned ==
  /\ TypeOK
  /\ pc \in {"image", "done"} =>
       \A c \in Classes : IsInjective(freeChunk[c]) /\ Len(freeChunk[c]) = fresh[c]

(* What Redis is told is the row: a string ends where its value ends.      *)
RedisGetsRow ==
  ev # NULL /\ ~slip =>
    sent = [j \in DOMAIN sent |->
              LET sets == SelectSeq(calls, LAMBDA c : c[1] \in {"write", "update"})
              IN  sets[j][2]]
=============================================================================
