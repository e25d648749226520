---------------------------- MODULE BinlogReader ----------------------------
(***************************************************************************)
(* How the master's binlog io thread follows the binlog files while MySQL  *)
(* appends to them: rs_eof_read_binlog2() and rs_has_next_binlog() of      *)
(* rs_read_binlog.c, the header, skip, stop and finish handlers of         *)
(* rs_parse_binlog.c and the file loop of rs_start_io_thread().            *)
(*                                                                         *)
(* A file is a sequence of events, an event a header of HeaderLen units    *)
(* and a body of dl units, written at offset "at"; a unit stands for some  *)
(* bytes.  Offsets count units after the magic number.  What the handlers  *)
(* make of an event is BinlogParse; here only how far they read matters.   *)
(***************************************************************************)
EXTENDS Naturals, Sequences, SequencesExt, FiniteSetsExt

CONSTANTS
  HeaderLen,  \* RS_BINLOG_EVENT_HEADER_LEN
  BufSize,    \* io_buf->size
  Events,     \* the events MySQL writes: a type t and a body length dl
  StickyEof,  \* fread() stops at the end-of-file flag (ISO C, glibc >= 2.28)
  MaxFiles,   \* bound: binlog files
  MaxEvents   \* bound: events of all the files

\* What the reader does with an event: it reads the body of a "read" event,
\* skips a "skip" event, does not know an "unknown" one (type > 27); "rotate"
\* is a ROTATE or STOP event, "foreign" one with another server's id.
Types == {"read", "skip", "unknown", "rotate", "foreign"}

ASSUME ReaderAssumption ==
  /\ HeaderLen \in Nat \ {0} /\ BufSize \in Nat \ {0}
  /\ StickyEof \in BOOLEAN
  /\ \A e \in Events : e.t \in Types /\ e.dl \in Nat \ {0}
  /\ MaxFiles \in Nat \ {0} /\ MaxEvents \in Nat \ {0}

VARIABLES
  files,    \* the binlog: a sequence of sequences of events
  written,  \* units of the last file that MySQL has written
  ends,     \* units each earlier file was left with
  num,      \* rd->dump_num
  pos,      \* rd->dump_pos
  off,      \* offset of rd->binlog_fp
  eof,      \* its end-of-file flag
  buf,      \* io_buf->last - io_buf->pos
  got,      \* units of the header or body read so far (ms)
  ev,       \* the event at hand (bi->t, bi->dl)
  phase,    \* "head", "body", or "stop": waiting in rs_binlog_stop_handler()
  step,     \* "read", "eof", "wait": where rs_eof_read_binlog2() is; "dead"
  armed,    \* rd->notify_fd # -1
  modified, \* an inotify event is pending
  seen      \* events of the file dealt with

mysql == <<files, written, ends>>
file  == <<num, off, eof>>
watch == <<armed, modified>>
vars  == <<mysql, file, pos, buf, got, ev, phase, step, watch, seen>>

-----------------------------------------------------------------------------
SizeOf(e) == HeaderLen + e.dl

EndOf(f) == IF f = << >> THEN 0 ELSE Last(f).at + SizeOf(Last(f))

\* Offset at which event i of a file starts, or the next one will.
StartOf(f, i) == IF i <= Len(f) THEN f[i].at ELSE EndOf(f)

Size(n) == IF n = Len(files) THEN written ELSE ends[n]

\* The number of events of file n that are there in full.
Complete(n) ==
  Cardinality({i \in DOMAIN files[n] : StartOf(files[n], i + 1) <= Size(n)})

-----------------------------------------------------------------------------
(* MySQL *)

Current == files[Len(files)]

Closed == Current # <<>> /\ Last(Current).t = "rotate"

Notify == modified' = armed

\* MySQL starts the next event of the current file, and writes part of it.
WriteEvent(e) ==
  /\ ~Closed /\ written = EndOf(Current)
  /\ Cardinality(UNION {{n} \X DOMAIN files[n] : n \in DOMAIN files}) < MaxEvents
  /\ files' = [files EXCEPT ![Len(files)] =
                  Append(@, [t |-> e.t, dl |-> e.dl, at |-> EndOf(Current)])]
  /\ written' \in written + 1 .. written + SizeOf(e)
  /\ UNCHANGED ends

Flush ==
  /\ written < EndOf(Current)
  /\ written' \in written + 1 .. EndOf(Current)
  /\ UNCHANGED <<files, ends>>

\* The next file appears in the index: after a rotation, or when the server
\* starts again after a crash, which leaves the last event of a file torn.
NextFile ==
  /\ Len(files) < MaxFiles
  /\ files' = Append(files, << >>) /\ written' = 0
  /\ ends' = Append(ends, written)

MySQL ==
  /\ \/ \E e \in Events : WriteEvent(e)
     \/ Flush
     \/ NextFile
  /\ Notify
  /\ UNCHANGED <<file, pos, buf, got, ev, phase, step, armed, seen>>

-----------------------------------------------------------------------------
(* rs_eof_read_binlog2() *)

Need == IF phase = "head" THEN HeaderLen ELSE ev.dl

Reading == step = "read" /\ phase # "stop" /\ got < Need

Available == off < Size(num) /\ ~(StickyEof /\ eof)

TakeBuffered ==
  /\ Reading /\ buf > 0
  /\ LET ms == Min({buf, Need - got}) IN got' = got + ms /\ buf' = buf - ms
  /\ UNCHANGED <<mysql, file, pos, ev, phase, step, watch, seen>>

\* fread() gets a buffer full, or what there is, which sets the flag.
Fill ==
  /\ Reading /\ buf = 0 /\ Available
  /\ LET n  == Min({BufSize, Size(num) - off})
         ls == Min({n, Need - got})
     IN off' = off + n /\ got' = got + ls /\ buf' = n - ls
  /\ eof' = (eof \/ Size(num) - off < BufSize)
  /\ UNCHANGED <<mysql, num, pos, ev, phase, step, watch, seen>>

\* fread() gets nothing.
Eof ==
  /\ Reading /\ buf = 0 /\ ~Available
  /\ eof' = TRUE /\ step' = "eof"
  /\ UNCHANGED <<mysql, num, off, pos, buf, got, ev, phase, watch, seen>>

\* The io thread opens a file and seeks to dump_pos; nothing is buffered.
Open(n, p) ==
  /\ num' = n /\ pos' = p /\ off' = p /\ eof' = FALSE
  /\ buf' = 0 /\ got' = 0 /\ phase' = "head" /\ step' = "read"
  /\ armed' = FALSE /\ modified' = FALSE

\* rs_has_next_binlog(): the first file of the index after dump_num.
HasNext == Len(files) > num

NextNum == num + 1

\* The file has ended: the watches are set, then the index is read.
LookForNext ==
  /\ step = "eof"
  /\ IF HasNext
     THEN Open(NextNum, 0) /\ seen' = 0 /\ UNCHANGED ev
     ELSE /\ step' = "wait" /\ armed' = TRUE
          /\ UNCHANGED <<modified, file, pos, buf, got, ev, phase, seen>>
  /\ UNCHANGED mysql

NotifiedOnly_mut == step = "wait" /\ modified

\* rs_timed_select() returns, with an inotify event or after
\* RS_BINLOG_EOF_WAIT_SEC.
Waited == step = "wait"

Wake ==
  /\ Waited
  /\ step' = "read" /\ modified' = FALSE
  /\ UNCHANGED <<mysql, file, pos, buf, got, ev, phase, armed, seen>>

\* inotify, select() or the index fails: the thread ends.
Fail ==
  /\ step \in {"eof", "wait"} \/ (step = "read" /\ phase = "stop")
  /\ step' = "dead" /\ armed' = FALSE /\ modified' = FALSE
  /\ UNCHANGED <<mysql, file, pos, buf, got, ev, phase, seen>>

-----------------------------------------------------------------------------
(* rs_read_binlog() *)

\* The call returns: the end-of-file flag is cleared and the watches closed.
Returned == got' = 0 /\ eof' = FALSE /\ armed' = FALSE /\ modified' = FALSE

\* The event whose header has been read.
Parsed == files[num][seen + 1]

NoSeek_mut(e, next) ==
  /\ buf' = IF buf >= e.dl THEN buf - e.dl ELSE 0
  /\ off' = off

\* rs_binlog_finish_handler() of a skipped event: its body is stepped over in
\* the buffer or in the file.
StepOver(e, next) ==
  IF buf >= e.dl
  THEN buf' = buf - e.dl /\ off' = off
  ELSE buf' = 0 /\ off' = next

AnyServer_mut(e) == e.t \in {"rotate", "foreign"}

\* rs_binlog_stop_handler() minds the events of the dumped server only.
IsStop(e) == e.t = "rotate"

\* rs_binlog_header_handler(), then the handler of the type.
Header ==
  /\ step = "read" /\ phase = "head" /\ got = HeaderLen
  /\ LET e == Parsed
         next == pos + SizeOf(e)
     IN \/ /\ e.t = "read"
           /\ phase' = "body" /\ pos' = next /\ ev' = e
           /\ Returned
           /\ UNCHANGED <<num, off, buf, step, seen>>
        \/ /\ e.t \in {"skip", "foreign"} /\ ~IsStop(e)
           /\ StepOver(e, next) /\ pos' = next /\ ev' = e
           /\ Returned
           /\ seen' = seen + 1
           /\ UNCHANGED <<num, phase, step>>
        \/ /\ IsStop(e)
           /\ phase' = "stop" /\ pos' = next /\ ev' = e
           /\ Returned
           /\ seen' = seen + 1
           /\ UNCHANGED <<num, off, buf, step>>
        \/ /\ e.t = "unknown"
           /\ Open(num, next) /\ ev' = e
           /\ seen' = seen + 1
  /\ UNCHANGED mysql

\* The handler has read the body; rs_binlog_finish_handler().
Body ==
  /\ step = "read" /\ phase = "body" /\ got = ev.dl
  /\ phase' = "head" /\ seen' = seen + 1
  /\ Returned
  /\ UNCHANGED <<mysql, num, off, pos, buf, ev, step>>

\* rs_binlog_stop_handler() has found the next file; until then it sleeps.
Stop ==
  /\ step = "read" /\ phase = "stop" /\ HasNext
  /\ Open(NextNum, 0) /\ seen' = 0
  /\ UNCHANGED <<mysql, ev>>

Reader ==
  \/ TakeBuffered \/ Fill \/ Eof \/ LookForNext \/ Wake
  \/ Header \/ Body \/ Stop

Init ==
  /\ files = << <<>> >> /\ written = 0 /\ ends = <<>>
  /\ num = 1 /\ pos = 0 /\ off = 0 /\ eof = FALSE
  /\ buf = 0 /\ got = 0 /\ ev = [t |-> "skip", dl |-> 0, at |-> 0]
  /\ phase = "head" /\ step = "read" /\ armed = FALSE /\ modified = FALSE
  /\ seen = 0

Next == MySQL \/ Reader \/ Fail

Spec == Init /\ [][Next]_vars

\* The io thread runs.  MySQL owes nothing, and no error is ever due.
FairSpec == Spec /\ WF_vars(Reader)

-----------------------------------------------------------------------------
\* Types of the variables; the buffer of create_tmpbuf() is never overrun and
\* no call of rs_eof_read_binlog2() copies more than it was asked for.
TypeOK ==
  /\ files \in Seq(Seq([t : Types, dl : Nat \ {0}, at : Nat]))
  /\ written \in 0 .. EndOf(Current) /\ Len(ends) = Len(files) - 1
  /\ num \in DOMAIN files /\ {pos, off, seen} \subseteq Nat
  /\ {eof, armed, modified} \subseteq BOOLEAN
  /\ buf \in 0 .. BufSize /\ got \in 0 .. Need \cup {0}
  /\ phase \in {"head", "body", "stop"}
  /\ step \in {"read", "eof", "wait", "dead"}

\* The bytes the reader will see next are those of the event it thinks it is
\* at: file offset, io_buf and the part of a read already done agree with
\* dump_pos, which ends the event at hand.  The buffer, the fseek() over a
\* skipped body, the reopening after an unknown event and the return from a
\* read that met the end of the file each move some of these and not others.
Aligned ==
  /\ TypeOK
  /\ off = (pos - IF phase = "head" THEN 0 ELSE ev.dl) + got + buf
  /\ pos = StartOf(files[num], seen + (IF phase = "body" THEN 2 ELSE 1))

\* The files are taken one after the other, and a file is left with complete
\* events unread only by a read that met its end and only if it has grown
\* since; never after a ROTATE or STOP event.
TailReadUnlessGrown ==
  [][num' # num => /\ num' = num + 1
                   /\ \/ seen >= Complete(num)
                      \/ step = "eof" /\ off < Size(num)]_vars

\* No complete event of a file is left behind when the reader goes on to the
\* next one: what a program that parses the binlog promises.
TailRead == [][num' # num => seen >= Complete(num)]_vars

\* Once MySQL has stopped writing, every event of the last file is read in the
\* end, although inotify misses what is written before the watches are set.
CatchesUp ==
  <>[](step = "dead" \/ (num = Len(files) /\ seen >= Complete(num)))
=============================================================================
