# MySQL-Syncer: a TLA+ verification project

MySQL-Syncer replicates a MySQL server into other data stores. A **master**
process runs beside MySQL, follows its binlog files and streams the rows of
selected tables to **slave** processes; a slave hands each row to a handler
registered for its table, and the handler writes to Redis. Both are C programs
with a few threads, joined by a lock-free ring buffer and a slab allocator.

This directory holds TLA+ modules translated from that code, TLC configurations
that check them on small instances, and proofs checked by TLAPS. Paths below are
relative to the root of the repository (`src/core/rs_buf.c`, ...); in
`PROJECT.json` they carry one more `src/` in front.

## 1. Inventory

### The path of a row

    MySQL --files--> binlog io thread --ring--> dump thread --TCP--> io thread
      (master)       rs_read_binlog             rs_start_dump_   --ring--> redis thread --> Redis
                     rs_parse_binlog            thread           (slave)   (slave)     \-> slave.info
                     rs_filter_binlog

The position of the last record the redis thread took (`dump_info`) goes back to
the master in the dump command when a connection is opened, and to the file
`slave.info` from time to time.

### Components

| Component | Source | State it keeps | Operations | What makes it correct |
|---|---|---|---|---|
| ring buffer | `core/rs_buf.c` | `wn`, `rn` (unsigned counters), `wp`, `rp`, slots | `create`, `set`, `set_advance`, `get`, `get_advance`, `spin_wait` | a bounded FIFO queue without a lock; a slot is used by one thread at a time |
| temporary buffers | `core/rs_buf.c`, `core/rs_io.c` | `pos`, `last` | `rs_recv_tmpbuf`, `rs_send_tmpbuf` | bytes are delivered in order whatever a `read()` returns; no overrun |
| slab pool | `core/rs_palloc.c` | `cur`, `free_size`, slabs, chunk to carve and freed chunks of each class | `create`, `palloc_id`, `palloc`, `pfree` | live chunks are disjoint and large enough; no chunk is lost |
| slave io thread | `slave/rs_io_thread.c` | socket, `recv_buf`, the slot under `wp` | connect, dump command, receive, retry | every record arrives whole, in order, in memory of its own |
| slave redis thread | `slave/rs_redis_thread.c`, `rs_redis.c` | `cmdn`, `cur_binlog_save`, `dump_info` | take, handle, commit, flush | every command is executed; the saved position is safe to resume from |
| slave process | `slave/rs_slave.c`, `rs_slave_info.c` | `slave.info` | start, stop, reload | a restart replays, and loses nothing |
| dump sessions | `master/rs_request_dump.c`, `rs_dump_listen.c` | slots `rd->data`, free list, mutex, exit bits | accept, get, create, tear down, free all | no slot is lost or shared; the resources are freed once nobody uses them |
| binlog reader | `master/rs_read_binlog.c`, `rs_parse_binlog.c` | `dump_num`, `dump_pos`, file, `io_buf`, inotify | read at the end of file, skip, stop, next file | stays aligned with the events, reads all of them |
| event handlers | `master/rs_parse_binlog.c`, `rs_read_binlog.h` | `tran`, `filter`, `db`, `tb`, `skip_n` | one handler for each type of event | the wanted rows are sent, with the right table and a position to resume from |
| record production | `master/rs_filter_binlog.c` | the slot under `wp` | `rs_binlog_create_data` | as above, and slots as in the ring buffer |
| send loop | `master/rs_request_dump.c` | `send_buf` | fill, send, wait | no record is torn or dropped; the session of a slave that has gone ends |
| dump command | `slave/rs_io_thread.c`, `master/rs_request_dump.c` | - | format, parse | parsing gives back what was formatted |
| master process | `master/rs_master.c`, `rs_master_info.c`, `core/rs.c`, `rs_core_info.c` | master info (pool, socket, accept thread, `req_dump`), pid file | start, reload, quit | it serves the address of its configuration with one accept thread; nothing of an old info is left; a quit signal ends it |
| row decoder | `slave/rs_binlog_row.c` | the places in the event and in the column metadata, the struct of the row | images, columns, parse handlers | decodes what MySQL encodes |
| handlers | `slave/rs_register_tables.c`, `rs_mysql_test_test.c` | strings in `si->dpool` | one for each table | the command says what the row says; the strings go back to the pool |
| configuration, hash | `core/rs_conf.c`, `rs_hash.c` | chains of registered keys, flags of the parser | register, parse, look up | a file means what its lines say |
| daemon, pid file, signals, strings, logs | `core/rs_process.c`, `rs_string.c`, `rs_log.c` | - | set up, format | the pid file follows the process |

### What is hard here

* two threads share a ring with no lock, and free and allocate the memory behind
  its slots while the other reads;
* a connection can break between any two calls, and what is left in buffers,
  slots and the ring is carried over to the next one;
* the process can stop between sending to Redis and saving the position;
* a dump session starts at any position the slave has seen, with fresh flags;
* MySQL appends to the file, rotates or crashes at any moment of the reading;
* the threads of a session and the main thread tear down the same slot;
* a reload builds a second master info out of parts of the first, and can fail at
  any step of it, when some of the parts have moved and others not;
* a rows event is decoded with places in two byte strings that move separately, and
  its strings live in memory that was used before.

`PROJECT.json` lists each hazard at its line with the properties aimed at it.

## 2. The modules

| Module | Models | Composition |
|---|---|---|
| `BoundedFifo` | what the ring buffer promises: a queue of at most `Cap` records | abstract |
| `RingBuf` | `rs_buf.c` (ring), one action for each access to a shared field | implements `BoundedFifo` by the refinement mapping `Queue` |
| `RingBufProofs` | theorems about `RingBuf` | extends `RingBuf` |
| `SlaveIo` | io thread of the slave: connection, receive buffer, slab chunks, slots | the ring as a pointer and a number of records |
| `DumpSend` | dump thread of the master: ring, send buffer, short writes, the wait | the ring as a FIFO |
| `Transfer` | a slave and its dump session, joined by the connection | extends `SlaveIo`, has an instance of `DumpSend` |
| `TransferProofs` | theorems about `Transfer` | extends `Transfer` |
| `Slave` | the slave process: io thread, redis thread, hiredis, Redis, `slave.info`, stops | uses the ring as a FIFO, which `RingBufProofs` justifies |
| `SlaveProofs` | theorems about `Slave` | extends `Slave` |
| `BinlogReader` | reading the files while MySQL writes them | MySQL as environment |
| `BinlogReaderProofs` | theorems about `BinlogReader` | extends `BinlogReader` |
| `BinlogParse` | the handlers and the production of records, over whole binlogs | the reader as a sequence of events, which `BinlogReader` justifies |
| `BinlogParseProofs` | theorems about `BinlogParse` | extends `BinlogParse` |
| `Reqdump` | dump sessions of the master: accept, teardown, reload | - |
| `ReqdumpProofs` | theorems about `Reqdump` | extends `Reqdump` |
| `Palloc` | the slab pool | - |
| `PallocProofs` | theorems about `Palloc` | extends `Palloc` |
| `RowDecode` | `rs_dm_binlog_row()` and the handlers of the test table, on the bytes of rows events | - |
| `ConfFile` | configuration parser and hash, as operators, and what a file means | pure |
| `Master` | the life of the master process: start, reload, quit, accept thread | extends `ConfFile` |
| `MasterProofs` | theorems about `Master`, and that `Parse` computes `Meaning` | extends `Master` |

`MC*.tla` give a module the constants of its runs. Operators named `*_mut` are
variants of the operator that follows them in which one plausible mistake has
been made; no specification uses them. They serve to see that a property
depends on what it is about.

### State and actions against the code

**RingBuf.** `wn`, `rn`, `wp`, `rp` are the fields of `rs_ringbuf_t`; the
counters live modulo `Width` (2^64 in the code). `ppc` and `cpc` are the places of
the two threads. `SetOk` is an `rs_ringbuf_set()` that returns `RS_OK`, `FreeOld`
and `Fill` what the producer does to the slot, `SetAdvancePtr` and `SetAdvanceCnt`
the two stores of `rs_ringbuf_set_advance()`, and likewise for `get`. `RS_FULL` and
`RS_EMPTY` change nothing and are no actions. `Abandon` is a slave that loses its
connection between `set` and `set_advance`. The stores become visible in program
order: the code has compiler barriers, and the hardware it is written for is x86.

**SlaveIo.** The connection carries cells, a header cell `<<r, 0>>` for the
length and `Body[r]` cells for the record. `RecvBuffered`, `RecvStart`, `Read` and
`RecvTooBig` are the branches of `rs_recv_tmpbuf()`; `Read(n)` is a `read()` that
returns `n` cells. `Alloc` is `rs_palloc()`, `Freed` `rs_pfree()`; `data[i]` is
`rbd->data` of slot `i`, which the code leaves in place after the free. `stale`,
`dangling` and `shared` are history: they remember that a connection began with
left-over bytes, that one broke while the slot pointed at a freed chunk, and that a
chunk was given to a slot while another one had it (`Hold`), which is what a chunk that
is freed twice leads to, if the ring allocates it twice.

**DumpSend, Transfer.** `dpc` is the place of the dump thread; `Fill`, `FlushFull`
and `FlushEmpty` are what it does with the record under `rp`, `Write(n)` a
`write()` that takes `n` cells, or fails when the slave has closed, `Select` the
timed wait in which it learns that. `Publish` is the io thread of the session,
reduced to the records it puts into the ring. In `Transfer` the cells the dump thread
writes are those the slave reads; `Connects` starts a session at the slave's
`dump_info`, `Closes` is a lost connection or a slave that stops. The session before
is gone when a new one starts: what two sessions do to each other is in `Reqdump`.
`maxSeen` is history, here and in `Slave`: the last record the redis thread ever had.

**Slave.** A record is an event number; `next` is the one the connection brings
next. `rpc` is the place of the redis thread in its loop: `get`, `drain` (nothing
there: read the replies), `spin`, `idle` (flush, sleep), `take` and `nul` (the two
halves of the copy to `dump_info`), `dml`, `commit`, `flush`, `advance`; `cut` and `idleCut` lie between the `write()` and the `truncate()` of
`slave.info`, and `tail` says that the file still has the end of a longer position.
`StartTorn` is a start from such a file. `obuf` is what
hiredis has buffered, `wire` what was sent and not answered. `Stop` covers a crash,
a signal and a thread that ends after an error; it executes any prefix of the wire,
loses the memory and keeps Redis and `slave.info`.

**BinlogReader.** `rs_eof_read_binlog2()` is cut where MySQL can interfere:
`TakeBuffered`, `Fill` (an `fread()` that brings something), `Eof`, `LookForNext`
(watches, then index), `Wake`. `Header` is `rs_binlog_header_handler()` with the seek
of a skipped event and the reopening of the file after an unknown one, `Body` the
return to `rs_binlog_finish_handler()`, `Stop` the waiting for the next file after a
ROTATE or STOP event. MySQL writes events in pieces, rotates, or crashes and leaves
one torn. An event carries the offset it was written at (`at`); the reader never
looks at it, as the code adds up lengths and overwrites the next position of the header (`bi->np`).

**BinlogParse.** One action for each kind of handler; `Finish` is
`rs_binlog_finish_handler()`, which every handler but the rotation ends in.
`SendRows` and `SendPosition` are `rs_binlog_create_data()`. `Resume(p)` ends a
session and begins one at a position the slave may have seen. `RowsFollowMap` says what the
handlers take for granted about a binlog: rows lie in a transaction, behind the map of their
table or behind other rows of it, unless their statement has announced several tables.

**Reqdump.** `word` is the word that the bit fields `open`, `io_thread_exit` and
`dump_thread_exit` share; setting one is a read and a write (`LoadExit`,
`StoreExit`, `Lock`/`Close`). `Release` is the end of `sleep(10)`: it does not wait
for the cancelled threads, and `faults` remembers when one was `late`, when a thread
tore down a `foreign` session, when a session got an `orphan` io thread after it was
closed, and when a thread cancelled `self`.

**Palloc.** `Grown`, `Size`, `Count` are computed by `rs_create_pool()`; `PallocId` is
the binary search; `Reuse`, `Carve`, `NewSlab` the three ways of `rs_palloc()`, in
its order.

**RowDecode.** The body of an event is a sequence of bytes that MySQL's half of the
module (`Image`, `Body`) writes and the code's half reads at `pos`, with `cmp` as its place in
the column metadata; only the bitmaps have fewer bits in a byte (`Bits`), so that a small
table has two. `StartImage`, `SkipColumn`, `ParseColumn`, `Unsupported` and `EndImage` are
the loop of `rs_dm_binlog_row()`. `slip` remembers that a column was passed with the metadata
length of another one, or was read as another type. A chunk of the pool (`mem`) keeps what
was in it behind a shorter string.

**ConfFile, Master.** `Step` is one round of the parser's loop, on tokens; `Run`
takes it over a text, `Parse` is what comes out. `Meaning` is the reference: sections, entries, the last of
several, errors. `WellWritten` says which lines are like the examples. In `Master` every info has the number
of the reload it was made in; `conf`, `acc`, `sock`, `dump` are its fields, and `dump[g]` is the info
whose pool the `req_dump` was allocated from. `CancelOld` to `CreateThread` are
`rs_init_master_info()` in its order, `InitFails` its `free:`, `FreeCancels` and `FreeJoins`
`rs_free_master()`. A thread that was joined gives its identifier (`Threads`) back, and
`Join` waits for whoever has it now. `dead` is a process that has read through a `NULL`
pointer.

## 3. The runs

### Passing

| Run | Shows | Bounds and why they do |
|---|---|---|
| `ringbuf` | the ring is a FIFO queue, no slot is shared, a record is stable while read, everything published is read | 3 slots, counters modulo 7 (no multiple of the slots, so that both wrap at different times), two items |
| `slave` | replies are counted exactly; no gap and a bounded replay over reconnections and restarts; a stop loses fewer than `CommitNum` commands; `slave.info` is whole but between two calls; every position reaches it | 5 events on two keys, with no, one and two commands; a ring of 2, so that it is full and is replayed; one position shorter than the one before; 2 lost connections, 2 stops |
| `transfer` | until a connection begins on left-over bytes or a chunk freed twice is in two slots, records arrive whole and none is missed, and all of them come in the end; until a connection breaks at a freed chunk, chunks are not shared; none leaks, whatever breaks; the session of a slave that has gone ends | 4 records of one and two cells; send buffer and receive buffer of 3: a record fills it exactly, does not fit, and a read or a write may end anywhere; rings of 2, and bodies in an order in which a chunk that was freed twice comes into both slots; 2 lost connections |
| `rows` | the handlers get the rows that MySQL has written, in order, and the strings go back | 6 tables of two to four columns: NULLs, unused columns, metadata of 0, 1 and 2 bytes before one another, lengths of 1, 2 and 3 bytes at 255, 256 and 300; two events of up to four images |
| `parse` | a session that starts between transactions sends all wanted rows, only those, under their table, but for statements on several tables; positions are commits or rows | all binlogs of two units (DDL, rotation, transactions of one and two statements out of four) and statements on two tables; 3 sessions |
| `reader` | file offset, buffer and `dump_pos` stay together; files are taken one after the other; a file is left with events unread only if it has grown after its end was met; all of the last file is read | header of 2 and buffer of 4 units, bodies of 1 and 3: both are torn by the buffer and by MySQL; 3 files, 2 events of five kinds |
| `palloc` | every byte in one slab, every chunk in one place; classes are the best fit but for exact sizes; slabs are only taken for more allocations at once than ever before | 5 classes with 6 to 1 chunks, a pool of 36 bytes that runs out, 4 live allocations |
| `reqdump` | every slot is in one place, a running session has its own resources, an ended session gives its slot back, all this while no thread outlives its ten seconds; the mutex comes back unless its holder was cancelled in its sleep | 2 slots, 2 slaves and a reload, or 3 slaves of which the last finds a slot or none |
| `master` | the file means what its lines say; a master that waits serves its address with one accept thread; nothing of an older info is left; a quit signal ends it | every file of up to 4 of 12 lines at the start (keys that are prefixes of others, foreign sections, comments, broken lines), 8 files on 2 reloads that change pid file, address, index and ring, or are faulty; every failure; 2 thread identifiers, so that one is reused |

The properties with `IfClean`, `FromBoundary`, `UnlessGrown`, `UnlessCancelled`,
`UnlessSlip`, `Delivered`, `ClassIsBest` and those of `Reqdump` that begin with `faults = {}` hold up to a
condition. Each condition is a defect of section 4, and the part without the
condition is what TLC refutes there. The models stay in the runs beyond the
condition wherever another property still has something to say.

`reqdump` uses two state constraints: `Small` (slaves and reloads together; a third
slave is followed only until it has found a slot or none), and `Clean`, which cuts
a behaviour after the state in which a thread was late: the next states work on
freed memory, and mean nothing.

Deadlock is checked in `ringbuf`, `slave`, `palloc` and `master` (whose end stutters). The others can stop: all
records were delivered, all rows decoded, the binlog is at its end, MySQL writes no more, the master
has died in `GetNull`.

The modules, configurations and properties of the runs:

| Run | Module, configuration | Properties |
|---|---|---|
| `ringbuf` | `MCRingBuf`, `MCRingBuf.cfg` | `TypeOK`, `RingInv`, `StableWhileRead`, `ImplementsFifo`, `WaitingIsRead` |
| `slave` | `MCSlave`, `MCSlave.cfg` | `TypeOK`, `RepliesCounted`, `LossBound`, `InfoWhole`, `ConvergesAfterBreak`, `NoGap`, `ReplayBounded`, `PositionCatchesUp` |
| `slave_converge` | `MCSlave`, `MCSlaveConverge.cfg` | `Converges` |
| `transfer` | `MCTransfer`, `MCTransfer.cfg` | `Bounded`, `FramesIntactIfClean`, `ChunkExclusiveIfClean`, `Delivered`, `NoneMissedIfClean`, `SessionEnds` |
| `rows` | `MCRowDecode`, `MCRowDecode.cfg` | `RowsDecodedUnlessSlip`, `StringsReturned` |
| `rows_redis` | `MCRowDecode`, `MCRowsRedis.cfg` | `RedisGetsRow` |
| `parse` | `MCBinlogParse`, `MCBinlogParse.cfg` | `TypeOK`, `CompleteFromBoundary`, `OwnTableFromBoundary`, `PointsAreCommitsOrRows` |
| `parse_resume` | `MCBinlogParse`, `MCBinlogResume.cfg` | `RowsComplete` |
| `reader` | `MCBinlogReader`, `MCBinlogReader.cfg` | `Aligned`, `TailReadUnlessGrown`, `CatchesUp` |
| `palloc` | `MCPalloc`, `MCPalloc.cfg` | `PoolPartition`, `ClassIsBest`, `SlabsFollowPeak` |
| `reqdump` | `MCReqdump`, `MCReqdump.cfg` | `SlotsPartition`, `RunsOnOwn`, `MutexReleasedUnlessCancelled`, `SlotComesBack` |
| `master` | `MCMaster`, `MCMaster.cfg` | `ConfMeansFile`, `ServesAddress`, `OneAcceptor`, `NothingLeft`, `QuitEnds` |

### Violations

| Run | Property | What TLC finds |
|---|---|---|
| `slave_converge` | `Converges` | two lost connections: the replay puts an old event behind the last one in the ring; the second connection resumes after the last one; Redis keeps the old value |
| `parse_resume` | `RowsComplete` | a session that resumes after the first of two rows events of a statement drops the second |
| `rows_redis` | `RedisGetsRow` | a short string in a chunk that held a longer one is sent with the end of that |

## 4. Deviations met while modelling

Besides the three above, these were found with TLC on the same modules. They have
no run of their own; the operators in parentheses can be put into a configuration.

* Bytes left over from a lost connection are read as a length on the next one
  (`FramesIntact` of `SlaveIo`, in `MCTransfer`).
* Events written between the end of file and the look into the index are never read
  (`TailRead` of `BinlogReader`).
* A request of exactly a class size gets a chunk of a smaller class
  (`ChunkHoldsRequest` of `Palloc`, with 3 and 6 among the `Requests`).
* A reload that keeps the `req_dump` destroys the pool it lives in
  (`ReqdumpAlive` of `Master`).
* A record that is larger than the send buffer is never sent, and its session
  neither sends nor notices that the slave has gone (`Delivered` and `SessionEnds` with
  `SendSize = 2` in `MCTransfer`).
* A column that is NULL or unused passes the metadata by the length of the column parsed
  before it; the first one reads through `NULL`. BIT, ENUM and SET columns are read with
  the wrong length. An empty string for the pool has class -1 (`RowsDecodedUnlessSlip`
  without `~slip`; states `undefined`).
* A failed reload frees the socket it has taken over, and the master goes on without
  an accept thread; a later reload with another address reads a `req_dump` that is
  `NULL`. A reload whose core section fails ends the process (`CoreFails`), and so does one with
  no `pid` in either file (`ServesAddress` without `~broken`, `mpc = "dead"`).
* `nd` asks for a new `req_dump` only when the index file *and* the size of the rings have
  changed (`NewDump`): a new index file alone is ignored by the sessions there are.
* The old accept thread is joined twice. If the new one was given its identifier, the second
  join waits for it, and the master answers no signal any more (place `freejoin`).
* `slave.info` is written with a position whose commands are still buffered in
  hiredis (`InfoBehindRedis` of `Slave`); `LossBound` says by how much.
* A connection that breaks between `rs_pfree()` and the next allocation leaves
  `rbd->data` pointing at the freed chunk, which is freed again
  (`NoSharedChunk` of `SlaveIo`). Once the ring has gone round, every break at a length
  is one of these. It does harm when both copies of the chunk are taken from the stack for two
  slots (`shared`): the records in them overwrite each other, and one is lost
  (`NoneMissedIfClean` without `~shared` in `Clean`).
* `rs_recv_tmpbuf()` reads `b->size` bytes to `b->last`, also when a short read has
  moved it: the buffer can be overrun (`ReadFits` of `SlaveIo`).
* A session that resumes inside a transaction has `tran = 0`, and rows of an unwanted
  table clear the filter (`RowsWanted` of `BinlogParse`, for a session that is
  not at a boundary).
* A statement on two tables has two table maps before its rows; the rows of the
  first get the name of the second, or its filter (`Joined` of `BinlogParse`
  excepts them).
* `skip_n` is set to 1 whenever a record is withheld, so a session sends a position
  of its own once and never again (`TypeOK` of `BinlogParse`: it stays below 2).
* `rs_eof_read_binlog2()` calls `fread()` again on a stream whose end-of-file flag
  is set. With a sticky flag (ISO C; glibc since 2.28) nothing that MySQL appends
  is read any more (`CatchesUp` of `BinlogReader` with `StickyEof = TRUE`).
* A thread that gets to `rs_free_reqdump_data()` after its slot was given to the next
  slave tears that session down (`OwnTeardown` of `Reqdump`).
* With no free slot `rs_get_reqdump_data()` tests the wrong pointer and reads
  through `NULL` (`FullIsRefused` of `Reqdump`).
* `open` and the exit flags share a word: a lost update lets a thread cancel itself,
  and it dies in `sleep(10)` with the mutex (`MutexReleased` of `Reqdump`).

## 5. Fairness

* `ringbuf`: weak fairness of the consumer, which polls for ever.
* `slave`: weak fairness of each thread, of the clock and of the restart; the master
  accepts connections and Redis answers. `Break` and `Stop` are bounded and owe
  nothing.
* `transfer`: weak fairness of each thread on both sides; a `read()` or `write()` that can
  take some cells does in the end. Connections need not break, slaves need not stop.
* `master`: weak fairness of the main thread in `rs_free_master()`, and of a cancelled accept thread, which is
  in `accept()`, a cancellation point. No signal, failure or success need come.
* `reader`: the io thread runs. MySQL owes nothing. (`parse`, `palloc` and `rows` check safety only.)
* `reqdump`: threads run, `sleep()` ends, a cancelled thread comes to a cancellation
  point. A slave need never connect nor leave. Weak fairness is enough for the mutex:
  only finitely many threads ever ask for it.

## 6. What is proved

`RingBufProofs`, for every number of slots, every width of the counters above it and
every set of items (`NumAssumption`, `WidthAssumption`, `HoleAssumption`; the code has
`Num` up to 2^32 - 1 and `Width` = 2^64, and `Num = 0` is a ring in which nothing happens):

| Theorem | States |
|---|---|
| `TypeCorrect` | `Spec => []TypeOK` |
| `RingInvariant` | `Spec => []RingInv` |
| `Exclusion` | `Spec => []SlotExclusive` |
| `RecordStable` | `Spec => StableWhileRead` |
| `Refinement` | `Spec => ImplementsFifo` |

`SlotExclusive` is not inductive: nothing in it says why the producer, having asked
for a slot while one was free, has not run into the consumer since. `RingInv` says
it, in three parts: the counters and the pointers agree
(`CountersMatchPointers`: the slot of the producer is `Used` slots after that of the
consumer, a pointer that is ahead of its counter being taken back one slot); what a
thread has been told stays true while it acts on it (`AnswersStayTrue`); and all the
slots between the counters are filled (`PublishedAreFilled`). It is inductive together
with `TypeOK`. Each step moves one counter or pointer, and `RingFrame` deals once with
those that leave the three quantities alone. Exclusion follows because two equal
indices `Used` slots apart need `Used = 0` or `Used = Num`, which `AnswersStayTrue` rules
out; the refinement because incrementing `wn` appends the filled slot to `Queue`, and
incrementing `rn` drops its head.

`SlaveProofs`, for every binlog (`N`, `Cmds`, `Key`), every size of the ring and of the
batches and any number of breaks and stops (`SlaveAssumption`; `Num = 0`, the default of
`ringbuf.num`, is left out, a slave with it receives nothing):

| Theorem | States |
|---|---|
| `TypeCorrect` | `Spec => []TypeOK` |
| `RepliesAreExact` | `Spec => []RepliesCounted` |
| `InfoIsWhole` | `Spec => []InfoWhole` |
| `NothingIsSkipped` | `Spec => NoGap`, until a start from a half-written position (`torn`) |
| `LossIsBounded` | `Spec => []LossBound`, until `torn` |
| `ReplayIsBounded` | `Spec => ReplayBounded`, until `torn` |
| `ConvergesOnce` | `Spec => []ConvergesAfterBreak`, if one connection breaks at most and the process is never stopped |

`TypeOK` becomes inductive with two facts about the place of the redis thread: a record
that is being handled is still in the ring (`AtHead`), and `cur_binlog_save` passes
`binlog.save` only between a record and the flush after it (`SaveDue`). `RepliesCounted` is
inductive with these. `InfoWhole` is inductive together with `TypeOK`: the only step that sets `tail` goes to
the place before the truncation, and a start clears it. `NoGap` needs `NoGapInv`: `dump_info` and `slave.info` are at most the
last record ever taken (`Seen`), and each record in the ring, and the one the connection
brings next, either follows the one before it or is at most one ahead of what has been
taken (`Consecutive`). A reconnection and a restart can only produce the second case,
because they resume after a position that `Seen` bounds; taking a record can only help,
because the bound grows; giving it back leaves its successor at most one ahead. The
exception for `torn` is real: a half-written `dump_info`, or a `slave.info` that was not
truncated, may ask for any position.

`LossBound` and `ReplayBounded` follow from `ReplayInv`. A life of the process has two ends that no variable holds, so the
invariant quantifies over them: the position `b` it read from `slave.info`, and the last event `h`
it has taken. `Stream(b, h)` says that the ring and the connection begin behind `b` and never
run ahead of `h`; `Handled(b, h)` that the commands between `b` and `h` are executed, on the wire
or in the client buffer, that each life lost fewer than `CommitNum` commands, and that `slave.info` is
ahead of Redis by fewer; `Replays(h)` that nothing that is taken, queued or to come is further
behind `h` than one ring for each break of the connection; `Saved(b, h)` that `slave.info` is at most
`max(1, SaveNum - 1)` records old. `Down` is what is left of these between two lives. The loss is
counted in commands, and a replay executes some of them again, so the sets
`CommandsUpTo(p)` are compared as sets: finite, and growing event by event (`UpToProperties`).

`ConvergesAfterBreak` says what Redis holds when everything was taken, sent and answered, if the
connection broke at most once and nothing stopped. The commands that were not answered yet are
in `obuf` and `wire`, so the proof looks at each key as if they were executed already: `Promised(k)`
is the value of the last command for `k` in `wire \o obuf`, and what Redis has if there is none. `PassInv`
then follows the events taken. In the first pass the promise is the last event of `k` up to the
last one taken (`LastUpTo(k, h)`). When the connection breaks, the slave asks again from a position `p`
that is at most the last one it has taken, but records up to some `m >= p` are still in the ring; what the
new connection brings begins behind `p` (`GoesBack`). In the second pass (`SecondPass`) the
events behind `p` are handled again, in order: a key that has one by now has the last of them, any other key
still the one of the first pass, which was up to `m`. At the end all events behind `p` were handled again, and the last of each key
is right whether it lies before `p` or behind. A second break would add a third pass that begins behind
the first: that is the counterexample of `slave_converge`.

`TransferProofs`, for every sequence of records, every size of the two rings and the three buffers,
any chunk classes and any number of breaks (`SlaveIoAssumption`, `TransferAssumption`):

| Theorem | States |
|---|---|
| `NothingGrows` | `Spec => []Bounded` |
| `ChunksAreNotShared` | `Spec => []ChunkExclusiveIfClean`, until a connection breaks at a freed chunk (`dangling`) |
| `RecordsAreWhole` | `Spec => []FramesIntactIfClean`, until one begins on left-over bytes (`stale`) or a chunk is in two slots (`shared`) |
| `NoRecordIsMissedIfClean` | `Spec => NoneMissedIfClean`, until the same |

The invariant is `Typed /\ Handed /\ ChunkExclusiveIfClean /\ Apart /\ Flowing`. `Handed` counts: the chunks of a
class that were ever carved are on its stack or held by a slot, and there are no more slots
than `Num`, so `NoLeak`, which alone says nothing about the stack, is preserved by an allocation.
`Apart` says that two slots have two chunks until one is given to both: that is all the stream
needs of the pool, so a break at a freed chunk does no harm by itself.
`Flowing`, while no connection has begun with left-over bytes and no chunk is in two slots, says that
the cells in `part`, `buf`, the connection and `sbuf`, in this order, are one run of whole records
(`Run`) behind the first; that the run begins with the record `e` the io thread is in, at the header or
behind it according to its place (`Streamed(e)`), and continues in the master's ring; and that
each record in the slave's ring, and `e`, follows the one before it or is at most one after
`maxSeen` (`Ordered`, `Follows`). A read, a write, a flush moves cells inside the run and leaves it
alone; `StreamHead` and `StreamBody` take a header or a body off its front, `StreamFill` appends
a record. That bodies arrive whole and that none is missed is then one fact: the length
read is a header's, because the place of the io thread says that a header comes next.

`ReqdumpProofs`, for every number of slots, slaves and reloads (`ReqdumpAssumption`):

| Theorem | States |
|---|---|
| `SlotsPartitioned` | `Spec => []SlotsPartition` |
| `ThreadsRunOnOwn` | `Spec => []RunsOnOwn` |
| `TeardownsExclude` | between the lock and the unlock of `thr_mutex` there is one thread, the one that holds it |

`Base` (types, and at which places each thread can be) holds whatever goes wrong, and gives
`TeardownsExclude` by itself. `Strong` holds while `faults = {}`: `Own`, which is most of `RunsOnOwn`, is
preserved by `Release` only if nobody still runs in the slot after the ten seconds. That is
`Doomed`: the teardown has cancelled every thread that was running. It has found them because
each exit bit is clear until its thread has set it (`Bits`), in the word *and* in every copy that
a thread has read and will write back, which is where a lost update would break the argument;
and because `io_thread` and `dump_thread` name the threads that run (`Tids`).

`MasterProofs`, for every number of reloads and thread identifiers and any content of the files
(`MasterAssumption`); the last one for every set of keys, hash function and set of files of `ConfAssumption`:

| Theorem | States |
|---|---|
| `AtMostOneAcceptor` | `Spec => []OneAcceptor` |
| `NothingIsLeft` | `Spec => []NothingLeft` |
| `AddressIsServed` | `Spec => []ServesAddress` |
| `ConfigurationIsRead` | `Spec => []ConfMeansFile` |

The first three speak about a master that waits, and are lost in the middle of a reload. The invariant
follows the main thread: which of the two infos has which pool and socket at each place
(`Resources`), where the pid file is (`PidFile`), whose accept thread can be there (`Acceptor`: from
`take` to `create` none, as the old one was joined), and, while nothing has failed, that the
info in use listens on its own address (`Service`). None of their lemmas opens `Parse`.

`ConfigurationIsRead` is about nothing else: for a file of any number of lines, each of any length that fits its
buffer, the parser that goes from character to character with its flags and buffers, and looks the
keys up by prefix in the chains of the hash, computes what `Meaning` reads off the lines. It assumes of the files that
each line is `WellWritten`, of the hash function only its range, and that the keys could be
registered: `ConfAssumption`, which TLC evaluates for the instance of `master`. That a key is found
although another one begins like it is due to the order of registration: `rs_shash_add()` refuses a key that begins
one of its chain, so that the first of the chain that begins like `log` is `log`
(`AddKeeps`, `LookupIs`), whatever the function puts together. The argument goes up from one character
(`Step...`), over words that fill a buffer (`WordModule`, `WordKey`, `WordValue`), to lines: `Leads(w, a, b)` says that
the text `w` takes the parser from `a` to `b` behind any text, and `LineLeads` that a line
has the `Effect` its kind asks for. Between two lines the parser is idle or expects a key, as the last
header was another or that of the section (`Between`, `Own`). `Followed` is the
invariant over the lines: a line so far was wrong and the parser has failed, or it has stored pairs whose last one
for every key is the last entry for it in the section (`Agrees`). Behind the last line that is `Meaning`.

`PallocProofs`, for every alignment, sizes of pool, chunks and smallest class, any growth factor of at least 1 and
every set of requests (`PallocAssumption`). A factor below 1 is left out because the code does not survive it: the size of a
class reaches 0, and `rs_create_pool()` divides by it.

| Theorem | States |
|---|---|
| `PoolIsPartitioned` | `Spec => []PoolPartition` |
| `AllocationsAreDisjoint` | `Spec => []AllocationsDisjoint`: the chunks of two allocations share no byte, of one class or of two, and lie in the pool; the bytes asked for lie in the chunk, and so share none either, unless a size is exactly that of a class |
| `SlabsAreReused` | `Spec => []SlabsFollowPeak` |
| `ClassesAreBest` | `Spec => []ClassIsBest`: the class holds the size and is the smallest that does, unless the size is exactly that of a class |

The first part is arithmetic: the sizes of the classes do not shrink, a slab holds `Count` chunks of
`Size` and no more than `ChunkSize` bytes (`ClassProperties`, `ChunkFits`). Both the sizes
(`Grown`) and the binary search of `PallocId` are recursive functions, and what they return is shown
for every class and every interval by a least counterexample (`LeastElement`): the set of the
indices, or of the lengths of an interval, at which the claim fails has no least member and is
empty. The second is `PoolInv`: the slabs lie one behind the other below `cur` and do not overlap
(`SlabsDisjoint`); a chunk on a stack, or with a caller, starts at a multiple of its size in a slab of its class,
before the place where the next one is carved (`Carving`, `Places`); it is on the stack once or with one caller,
never both (`Callers`); and the chunks of a class that were ever carved are as many as it had
callers at its peak, as nothing is carved while the stack has one (`Peaks`). Two chunks of one class
then differ by a multiple of its size, two of different classes lie in different slabs.

`BinlogParseProofs`, for every set of binlogs that satisfy `RowsFollowMap`, every choice of tables and
any number of sessions (`BinlogAssumption`; `SkipNum > 1`, the code has 900):

| Theorem | States |
|---|---|
| `TypeCorrect` | `Spec => []TypeOK` |
| `RowsAreSent` | `Spec => []CompleteFromBoundary`, unless a session started right before rows (`midRows`), but for statements on several tables (`Joined`) |
| `RowsKeepTheirTable` | `Spec => []OwnTableFromBoundary`, unless one started inside a transaction (`midTran`), but for statements on several tables |
| `PositionsAreSafe` | `Spec => []PointsAreCommitsOrRows`, unless `midTran` |

What the handlers remember is compared with the binlog: `tran` is set exactly inside a transaction
(`TranRight`); where rows come next, `filter` is clear if their table is wanted (`FilterReady`), and
`table` is theirs and `filter` says exactly whether it is wanted (`TableReady`). Each of the three has
the exception of the property it serves, `midRows` or `midTran`, and a new session satisfies it with
fresh flags because at its position either no rows come next or it counts as begun in the middle. `RowsFollowMap` gives what comes
before rows: the map of their table or other rows of it, inside a transaction.

`BinlogReaderProofs`, for every length of headers, bodies and buffer, any events and files, and
both kinds of end-of-file flag (`ReaderAssumption`):

| Theorem | States |
|---|---|
| `ReaderIsAligned` | `Spec => []Aligned` |
| `TailIsRead` | `Spec => TailReadUnlessGrown` |

`Aligned` alone does not say that a header that has been read is one of the file: after a skip that
sought beyond what MySQL has written, the offset may lie behind the end. The invariant adds to
it (`Place`) that this can only be before the first byte of a header, and (`Log`) that the events
of a file follow each other without a gap, with a ROTATE or STOP event at the end only. A full header then lies inside the
file, so there is an event at `dump_pos` and its end is the next position. `Grown` says what a step of MySQL leaves alone,
and `PlaceInGrowing` that `Place` speaks of nothing else. For `TailIsRead`: a read that met the end
has got less than it needs, so the end of the event at hand, and of every later one, is behind the offset.

Two properties were false as they stood before their proofs were tried, and TLC confirmed each
on an instance with larger bounds. `ReplayBounded` had allowed one ring of records however often the
connection breaks: each break can put an old record behind the last one of the ring, and the next
connection starts behind that. It had also allowed no replay after a restart with `SaveNum = 1`, where the
record that was being handled comes again. `NoneMissedIfClean` had said `dumpInfo' <= dumpInfo + 1`:
a connection that breaks twice over a ring of three brings old records behind newer ones, so that
`dumpInfo` goes back and then forward by more than one, to records it has had. The bound is now
one ring for each break, and `NoneMissedIfClean` is stated against `maxSeen`. A master that waits needed `DefaultAddr # NULL` as an assumption.

Only model-checked: `RowDecode`, whose handlers read what sums and concatenations over
a whole event have written; liveness (`WaitingIsRead`, `CatchesUp`, `SlotComesBack`, `MutexReleasedUnlessCancelled`, `QuitEnds`, ...), which needs
fairness and `ENABLED`. Where a proof needs induction (over classes, events, commands, characters or lines), the
predicate is a set of numbers, and the lemmas `SetInduction` and `LeastElement` say that a set which contains 0 and
with each number the next one contains all of them.

## 7. What is not modelled, and why

* `malloc()` and `realloc()` that fail, and requests above `chunk_size`, which never
  touch the pool; pools of flag `RS_POOL_PAGEALLOC`, whose slabs are `malloc()`ed one by
  one and differ in nothing else.
* What overrun or freed memory contains: the models stop at the fault.
* Weak memory orders other than x86.
* Interrupted `select()`: every signal the program expects is blocked in all threads.
* A partial `write()` of `slave.info`; a slave that is stopped while its threads wait
  (`rs_free_slave()` cancels and joins them, then frees what they used).
* The text of the dump command. The branch for "no filter tables" cannot be reached: the
  test for a distance of 2 before it refuses ",,".
* The fork of the daemon. A reload that turns `daemon` on forks as well, and the threads stay
  behind in the parent, which exits. User, group, working directory, log file.
* Of configuration files: a comment behind an entry, which swallows the newline that ends
  it; an entry without value, which takes the next line for it; a tab, which does not
  end a key; the last line of a file that does not end in a newline, which is not
  applied; a section whose name begins with the one looked for (`[master2]`), which is
  read as well; the lengths of names against their buffers. `Step` has all of them,
  `ConfMeansFile` speaks of files that are written as the examples in `etc/` (`WellWritten`).
* Number conversion, formatting, logging.
* Tables with more than 250 columns (packed integers of more than one byte).

## 8. Plan

Done, in this order: `RingBuf` with its proofs, `Slave` with its first proofs, `SlaveIo`, `BinlogParse`,
`BinlogReader`, `Palloc`, `Reqdump`, `RowDecode`, `ConfFile` and `Master`, `DumpSend` and `Transfer`, the
truncation of `slave.info` in `Slave`.

Could still be modelled: an abstract specification of the whole path (each wanted row
reaches its handler, in order) and the composition of `BinlogParse` and `Slave` that
implements it as far as section 4 allows; `rs_free_slave()` step by step.

Proved since: the loss, the replays and the convergence of `Slave`; `Transfer`; the safety of
`Reqdump`, `Master`, `BinlogParse` and `BinlogReader`; `Palloc`; the configuration file.

To be proved: `RowDecode`, `StringsReturned` first, for which the chunks can be counted without
the bytes.
