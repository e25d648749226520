------------------------- MODULE BinlogReaderProofs -------------------------
(***************************************************************************)
(* Theorems about BinlogReader, for every length of headers, bodies and    *)
(* buffer, every set of events and any number of files, and both kinds of  *)
(* end-of-file flag: where the reader is in the file, and what it leaves   *)
(* behind when it goes on to the next one.                                 *)
(*                                                                         *)
(* Log says what MySQL has written: events that follow each other without  *)
(* a gap (Sound), and at most the last of them torn.  Place says that file *)
(* offset, buffer and dump_pos are at one of these events; an offset       *)
(* behind what is written can only come from a body that was skipped.      *)
(***************************************************************************)
EXTENDS BinlogReader, SequenceTheorems, FiniteSetTheorems, TLAPS

-----------------------------------------------------------------------------
(* The invariant.                                                          *)

Logged == [t : Types, dl : Nat \ {0}, at : Nat]

\* The events of a file: each begins where the one before it ends, behind all
\* the others, and a ROTATE or STOP event is the last one.
Sound(f) ==
  /\ f \in Seq(Logged)
  /\ f # << >> => f[1].at = 0
  /\ \A i \in 1 .. Len(f) - 1 : f[i + 1].at = f[i].at + SizeOf(f[i])
  /\ \A i, j \in 1 .. Len(f) : i < j => f[i].at + SizeOf(f[i]) <= f[j].at
  /\ \A i \in 1 .. Len(f) : f[i].t = "rotate" => i = Len(f)

Log ==
  /\ files \in Seq(Seq(Logged)) /\ Len(files) >= 1
  /\ \A n \in 1 .. Len(files) : Sound(files[n])
  /\ ends \in Seq(Nat) /\ Len(ends) = Len(files) - 1
  /\ written \in Nat
  /\ \A n \in 1 .. Len(files) : Size(n) \in Nat /\ Size(n) <= EndOf(files[n])

\* The event the reader will read next.
Coming == seen + (IF phase = "body" THEN 2 ELSE 1)

Place ==
  /\ num \in 1 .. Len(files) /\ {pos, off, seen, got, buf} \subseteq Nat
  /\ {eof, armed, modified} \subseteq BOOLEAN
  /\ phase \in {"head", "body", "stop"} /\ step \in {"read", "eof", "wait", "dead"}
  /\ buf <= BufSize /\ ev.dl \in Nat
  /\ got <= Need /\ (phase = "stop" => got = 0)
  /\ Coming <= Len(files[num]) + 1 /\ pos = StartOf(files[num], Coming)
  /\ phase = "body" => ev = files[num][seen + 1]
  /\ off = (pos - IF phase = "head" THEN 0 ELSE ev.dl) + got + buf
  /\ off <= Size(num) \/ (phase = "head" /\ got = 0 /\ buf = 0)
  /\ phase = "stop" => seen > 0 /\ files[num][seen].t = "rotate"
  /\ step \in {"eof", "wait"} => phase # "stop" /\ got < Need /\ buf = 0

IInv == Log /\ Place

-----------------------------------------------------------------------------
(* Files.                                                                  *)

LEMMA Constants ==
  /\ HeaderLen \in Nat /\ HeaderLen > 0 /\ BufSize \in Nat /\ BufSize > 0
  /\ \A e \in Events : e.t \in Types /\ e.dl \in Nat /\ e.dl > 0
BY ReaderAssumption

\* Offsets in a file.
LEMMA Offsets ==
  ASSUME NEW f, Sound(f)
  PROVE  /\ Len(f) \in Nat /\ DOMAIN f = 1 .. Len(f) /\ (f = << >> <=> Len(f) = 0)
         /\ \A i \in 1 .. Len(f) :
              /\ f[i].t \in Types /\ f[i].at \in Nat /\ f[i].dl \in Nat /\ f[i].dl > 0
              /\ SizeOf(f[i]) = HeaderLen + f[i].dl
              /\ StartOf(f, i) = f[i].at /\ StartOf(f, i + 1) = f[i].at + SizeOf(f[i])
         /\ StartOf(f, 1) = 0 /\ StartOf(f, Len(f) + 1) = EndOf(f)
         /\ \A i \in 1 .. Len(f) + 1 : StartOf(f, i) \in Nat
<1>1. /\ f \in Seq(Logged) /\ Len(f) \in Nat /\ DOMAIN f = 1 .. Len(f)
      /\ (f = << >> <=> Len(f) = 0)
  BY LenProperties, EmptySeq DEF Sound
<1>0. Len(f) \in Nat
  BY <1>1
<1>2. ASSUME NEW i \in 1 .. Len(f)
      PROVE  /\ f[i].t \in Types /\ f[i].at \in Nat /\ f[i].dl \in Nat /\ f[i].dl > 0
             /\ SizeOf(f[i]) = HeaderLen + f[i].dl
  <2>1. f[i] \in Logged
    BY <1>1, <1>2, ElementOfSeq
  <2>2. QED
    BY <2>1 DEF Logged, SizeOf
<1>3. ASSUME NEW i \in 1 .. Len(f)
      PROVE  StartOf(f, i) = f[i].at /\ StartOf(f, i + 1) = f[i].at + SizeOf(f[i])
  <2>1. StartOf(f, i) = f[i].at
    BY <1>1 DEF StartOf
  <2>2. CASE i = Len(f)
    <3>1. ~(i + 1 <= Len(f)) /\ f # << >>
      BY <1>1, <2>2
    <3>2. QED
      BY <2>1, <2>2, <3>1 DEF StartOf, EndOf, Last
  <2>3. CASE i # Len(f)
    <3>1. i + 1 <= Len(f) /\ i \in 1 .. Len(f) - 1
      BY <1>0, <2>3
    <3>2. QED
      BY <2>1, <3>1 DEF StartOf, Sound
  <2>4. QED
    BY <2>2, <2>3
<1>4. StartOf(f, Len(f) + 1) = EndOf(f)
  BY <1>1 DEF StartOf
<1>5. StartOf(f, 1) = 0
  <2>1. CASE f = << >>
    BY <1>1, <2>1, <1>4 DEF EndOf
  <2>2. CASE f # << >>
    <3>1. 1 \in 1 .. Len(f)
      BY <1>1, <2>2
    <3>2. QED
      BY <1>3, <2>2, <3>1 DEF Sound
  <2>3. QED
    BY <2>1, <2>2
<1>6. ASSUME NEW i \in 1 .. Len(f) + 1 PROVE StartOf(f, i) \in Nat
  <2>1. CASE i \in 1 .. Len(f)
    BY <1>2, <1>3, <2>1
  <2>2. CASE i = Len(f) + 1 /\ Len(f) = 0
    BY <1>5, <2>2
  <2>3. CASE i = Len(f) + 1 /\ Len(f) # 0
    <3>1. Len(f) \in 1 .. Len(f)
      BY <1>1, <2>3
    <3>2. StartOf(f, i) = f[Len(f)].at + SizeOf(f[Len(f)])
      BY <1>3, <2>3, <3>1
    <3>3. QED
      BY <1>2, <3>1, <3>2, Constants
  <2>4. QED
    BY <1>1, <2>1, <2>2, <2>3
<1>7. QED
  BY <1>1, <1>2, <1>3, <1>4, <1>5, <1>6

\* An event is written behind the last one.
LEMMA Appended ==
  ASSUME NEW f, Sound(f), ~(f # << >> /\ Last(f).t = "rotate"), NEW e \in Events,
         NEW g, g = Append(f, [t |-> e.t, dl |-> e.dl, at |-> EndOf(f)])
  PROVE  /\ Sound(g) /\ Len(g) = Len(f) + 1 /\ EndOf(g) = EndOf(f) + SizeOf(e)
         /\ \A i \in 1 .. Len(f) : g[i] = f[i]
         /\ \A i \in 1 .. Len(f) + 1 : StartOf(g, i) = StartOf(f, i)
<1> DEFINE x == [t |-> e.t, dl |-> e.dl, at |-> EndOf(f)]
           n == Len(f)
<1>0. n \in Nat
  BY Offsets
<1>1. n \in Nat /\ EndOf(f) \in Nat /\ f \in Seq(Logged)
  <2>1. n \in Nat /\ n + 1 \in 1 .. n + 1
    BY Offsets
  <2>2. StartOf(f, n + 1) \in Nat
    BY <2>1, Offsets
  <2>3. QED
    BY <2>1, <2>2, Offsets DEF Sound
<1>2. x \in Logged /\ x.t = e.t /\ x.at = EndOf(f) /\ SizeOf(x) = SizeOf(e) /\ SizeOf(e) \in Nat
  BY <1>1, Constants DEF Logged, SizeOf
<1> HIDE DEF x
<1>3. /\ g \in Seq(Logged) /\ Len(g) = n + 1 /\ g[n + 1] = x
      /\ \A i \in 1 .. n : g[i] = f[i]
  <2>1. g = Append(f, x)
    BY DEF x
  <2>2. QED
    BY <1>1, <1>2, <2>1, AppendProperties
<1>4. g # << >> /\ Last(g) = x
  BY <1>1, <1>3, EmptySeq DEF Last
<1>5. EndOf(g) = EndOf(f) + SizeOf(e)
  BY <1>2, <1>4 DEF EndOf
<1>6. \A i \in 1 .. n + 1 : StartOf(g, i) = StartOf(f, i)
  <2> TAKE i \in 1 .. n + 1
  <2>1. i <= n + 1
    BY <1>1
  <2>2. StartOf(g, i) = g[i].at
    BY <1>3, <2>1 DEF StartOf
  <2>3. CASE i \in 1 .. n
    BY <1>3, <2>2, <2>3, Offsets
  <2>4. CASE i = n + 1
    BY <1>2, <1>3, <2>2, <2>4, Offsets
  <2>5. QED
    BY <1>1, <2>3, <2>4
<1> HIDE DEF n
<1>7. Sound(g)
  <2>1. g[1].at = 0
    <3>1. CASE n = 0
      <4>1. f = << >>
        BY <3>1, Offsets DEF n
      <4>2. QED
        BY <1>2, <1>3, <3>1, <4>1 DEF EndOf
    <3>2. CASE n # 0
      <4>1. 1 \in 1 .. n /\ f # << >>
        BY <1>1, <3>2, Offsets DEF n
      <4>2. QED
        BY <1>3, <4>1 DEF Sound
    <3>3. QED
      BY <3>1, <3>2
  <2>2. \A i \in 1 .. n : f[i].at + SizeOf(f[i]) <= EndOf(f) /\ f[i].t # "rotate"
    <3> TAKE i \in 1 .. n
    <3>1. n \in 1 .. n /\ n + 1 = n + 1 /\ f # << >>
      BY <1>1, Offsets DEF n
    <3>2. EndOf(f) = f[n].at + SizeOf(f[n]) /\ f[n].t # "rotate"
      BY <3>1, Offsets DEF n, Last
    <3>3. /\ f[i].at \in Nat /\ f[i].dl \in Nat /\ f[n].at \in Nat /\ f[n].dl \in Nat
          /\ SizeOf(f[i]) = HeaderLen + f[i].dl /\ SizeOf(f[n]) = HeaderLen + f[n].dl
      BY <3>1, Offsets DEF n
    <3>4. i < n => f[i].at + SizeOf(f[i]) <= f[n].at
      BY <3>1 DEF Sound, n
    <3>5. f[i].t = "rotate" => i = n
      BY DEF Sound, n
    <3>6. CASE i = n
      BY <3>2, <3>3, <3>6, Constants
    <3>7. CASE i < n
      <4>1. f[i].at + SizeOf(f[i]) <= f[n].at /\ i # n
        BY <1>0, <3>4, <3>7
      <4>2. f[i].t # "rotate"
        BY <3>5, <4>1
      <4>3. SizeOf(f[i]) \in Nat /\ SizeOf(f[n]) \in Nat
        BY <3>3, Constants
      <4>4. f[i].at + SizeOf(f[i]) <= f[n].at + SizeOf(f[n])
        BY <3>3, <4>1, <4>3, SMTT(30)
      <4>5. QED
        BY <3>2, <4>2, <4>4
    <3>8. QED
      BY <1>0, <3>6, <3>7
  <2>3. ASSUME NEW i \in 1 .. n PROVE g[i + 1].at = g[i].at + SizeOf(g[i])
    <3>1. CASE i \in 1 .. n - 1
      <4>1. i + 1 \in 1 .. n
        BY <1>1, <3>1
      <4>2. f[i + 1].at = f[i].at + SizeOf(f[i])
        BY <3>1 DEF Sound, n
      <4>3. QED
        BY <1>3, <4>1, <4>2
    <3>2. CASE i = n
      <4>1. f # << >> /\ n \in 1 .. n
        BY <1>1, <3>2, Offsets DEF n
      <4>2. EndOf(f) = f[n].at + SizeOf(f[n])
        BY <4>1 DEF EndOf, Last, n
      <4>3. QED
        BY <1>2, <1>3, <3>2, <4>1, <4>2
    <3>3. i \in 1 .. n - 1 \/ i = n
      BY <1>0
    <3>4. QED
      BY <3>1, <3>2, <3>3
  <2>4. ASSUME NEW i \in 1 .. n + 1, NEW j \in 1 .. n + 1, i < j
        PROVE  g[i].at + SizeOf(g[i]) <= g[j].at
    <3>1. i \in 1 .. n /\ g[i] = f[i]
      BY <1>1, <1>3, <2>4
    <3>2. CASE j \in 1 .. n
      <4>1. g[j] = f[j] /\ f[i].at + SizeOf(f[i]) <= f[j].at
        BY <1>3, <2>4, <3>1, <3>2 DEF Sound, n
      <4>2. QED
        BY <3>1, <4>1
    <3>3. CASE j = n + 1
      BY <1>2, <1>3, <2>2, <3>1, <3>3
    <3>4. j \in 1 .. n \/ j = n + 1
      BY <1>0
    <3>5. QED
      BY <3>2, <3>3, <3>4
  <2>5. ASSUME NEW i \in 1 .. n + 1, g[i].t = "rotate" PROVE i = n + 1
    <3>1. CASE i \in 1 .. n
      BY <1>3, <2>2, <2>5, <3>1
    <3>2. QED
      BY <1>0, <3>1
  <2>6. Len(g) - 1 = n /\ Len(g) = n + 1
    BY <1>1, <1>3
  <2>7. QED
    BY <1>3, <2>1, <2>3, <2>4, <2>5, <2>6 DEF Sound
<1>8. QED
  BY <1>3, <1>5, <1>6, <1>7 DEF n

\* The binlog only grows.
Grown ==
  \A n \in 1 .. Len(files) :
    /\ n \in 1 .. Len(files') /\ Size(n) <= Size(n)'
    /\ \A i \in 1 .. Len(files[n]) :
         i \in 1 .. Len(files'[n]) /\ files'[n][i] = files[n][i]
    /\ \A i \in 1 .. Len(files[n]) + 1 :
         i \in 1 .. Len(files'[n]) + 1 /\ StartOf(files'[n], i) = StartOf(files[n], i)

LEMMA Lengths ==
  ASSUME Log
  PROVE  /\ Len(files) \in Nat /\ Len(files) >= 1
         /\ \A n \in 1 .. Len(files) :
              /\ Sound(files[n]) /\ Len(files[n]) \in Nat /\ EndOf(files[n]) \in Nat
              /\ files[n] \in Seq(Logged)
<1>1. Len(files) \in Nat /\ Len(files) >= 1
  BY LenProperties DEF Log
<1>2. ASSUME NEW n \in 1 .. Len(files)
      PROVE  /\ Sound(files[n]) /\ Len(files[n]) \in Nat /\ EndOf(files[n]) \in Nat
             /\ files[n] \in Seq(Logged)
  <2>1. Sound(files[n])
    BY DEF Log
  <2>2. Len(files[n]) \in Nat
    BY <2>1, Offsets
  <2>3. Len(files[n]) + 1 \in 1 .. Len(files[n]) + 1
    BY <2>2
  <2>4. StartOf(files[n], Len(files[n]) + 1) \in Nat
    BY <2>1, <2>3, Offsets
  <2>5. QED
    BY <2>1, <2>2, <2>4, Offsets DEF Sound
<1>3. QED
  BY <1>1, <1>2

LEMMA GrowsByEvent ==
  ASSUME Log, NEW e \in Events, WriteEvent(e)
  PROVE  Log' /\ Grown
<1> DEFINE m == Len(files)
           f == files[m]
           g == Append(f, [t |-> e.t, dl |-> e.dl, at |-> EndOf(f)])
<1>1. /\ m \in Nat /\ m >= 1 /\ m \in 1 .. m
      /\ Sound(f) /\ Len(f) \in Nat /\ EndOf(f) \in Nat
  BY Lengths
<1>2. /\ ~(f # << >> /\ Last(f).t = "rotate") /\ written = EndOf(f)
      /\ files' = [files EXCEPT ![m] = g] /\ ends' = ends
      /\ written' \in written + 1 .. written + SizeOf(e)
  BY DEF WriteEvent, Closed, Current
<1>0. g = Append(f, [t |-> e.t, dl |-> e.dl, at |-> EndOf(f)])
  OBVIOUS
<1> HIDE DEF f, g
<1>3. /\ Sound(g) /\ Len(g) = Len(f) + 1 /\ EndOf(g) = EndOf(f) + SizeOf(e)
      /\ \A i \in 1 .. Len(f) : g[i] = f[i]
      /\ \A i \in 1 .. Len(f) + 1 : StartOf(g, i) = StartOf(f, i)
  BY <1>0, <1>1, <1>2, Appended
<1> USE DEF f
<1>4. /\ files \in Seq(Seq(Logged)) /\ written \in Nat /\ ends \in Seq(Nat)
      /\ Len(ends) = m - 1
      /\ \A n \in 1 .. m : Size(n) \in Nat /\ Size(n) <= EndOf(files[n]) /\ Sound(files[n])
  BY DEF Log
<1>5. /\ files' \in Seq(Seq(Logged)) /\ Len(files') = m
      /\ files'[m] = g /\ \A n \in 1 .. m : n # m => files'[n] = files[n]
  <2>1. g \in Seq(Logged)
    BY <1>3 DEF Sound
  <2>2. /\ [files EXCEPT ![m] = g] \in Seq(Seq(Logged))
        /\ Len([files EXCEPT ![m] = g]) = m
        /\ \A n \in 1 .. m : [files EXCEPT ![m] = g][n] = IF n = m THEN g ELSE files[n]
    BY <1>1, <1>4, <2>1, ExceptSeq
  <2>3. QED
    BY <1>1, <1>2, <2>2
<1> HIDE DEF f
<1>6. Size(m) = written /\ Size(m)' = written'
  BY <1>5 DEF Size
<1>7. \A n \in 1 .. m : n # m => Size(n)' = Size(n)
  BY <1>2, <1>5 DEF Size
<1>8. SizeOf(e) \in Nat
  BY Constants DEF SizeOf
<1>9. written' \in Nat /\ written <= written' /\ written' <= EndOf(g)
  BY <1>1, <1>2, <1>3, <1>4, <1>8, SMTT(30)
<1> HIDE DEF m
<1>10. Log'
  <2>1. \A n \in 1 .. m : Sound(files'[n])
    BY <1>3, <1>4, <1>5
  <2>2. ASSUME NEW n \in 1 .. m PROVE Size(n)' \in Nat /\ Size(n)' <= EndOf(files'[n])
    <3>1. CASE n = m
      <4>1. Size(n)' = written'
        BY <1>5, <3>1 DEF Size
      <4>2. QED
        BY <1>5, <1>9, <3>1, <4>1
    <3>2. CASE n # m
      BY <1>4, <1>5, <1>7, <3>2
    <3>3. QED
      BY <3>1, <3>2
  <2>3. QED
    BY <1>1, <1>2, <1>4, <1>5, <1>9, <2>1, <2>2 DEF Log
<1>11. ASSUME NEW n \in 1 .. m
       PROVE  /\ n \in 1 .. Len(files') /\ Size(n) <= Size(n)'
              /\ \A i \in 1 .. Len(files[n]) :
                   i \in 1 .. Len(files'[n]) /\ files'[n][i] = files[n][i]
              /\ \A i \in 1 .. Len(files[n]) + 1 :
                   i \in 1 .. Len(files'[n]) + 1 /\ StartOf(files'[n], i) = StartOf(files[n], i)
  <2>1. CASE n = m
    <3>1. Len(f) + 1 = Len(g) /\ files[n] = f /\ files'[n] = g
      BY <1>3, <1>5, <2>1 DEF f
    <3>2. /\ \A i \in 1 .. Len(f) : i \in 1 .. Len(g)
          /\ \A i \in 1 .. Len(f) + 1 : i \in 1 .. Len(g) + 1
      BY <1>1, <3>1
    <3>3. Size(n) = written /\ Size(n)' = written' /\ n \in 1 .. Len(files')
      BY <1>5, <1>6, <2>1 DEF Size
    <3>4. Size(n) <= Size(n)'
      BY <1>9, <3>3
    <3>5. QED
      BY <1>3, <3>1, <3>2, <3>3, <3>4
  <2>2. CASE n # m
    <3>1. Size(n) <= Size(n)
      BY <1>4
    <3>2. QED
      BY <1>5, <1>7, <2>2, <3>1, Zenon
  <2>3. QED
    BY <2>1, <2>2
<1>12. QED
  BY <1>10, <1>11 DEF Grown, m

LEMMA GrowsByBytes ==
  ASSUME Log, Flush
  PROVE  Log' /\ Grown
<1>1. /\ Len(files) \in Nat /\ Len(files) >= 1 /\ Len(files) \in 1 .. Len(files)
      /\ EndOf(files[Len(files)]) \in Nat
  BY Lengths
<1>2. /\ files' = files /\ ends' = ends
      /\ written' \in written + 1 .. EndOf(files[Len(files)])
  BY DEF Flush, Current
<1>3. /\ files \in Seq(Seq(Logged)) /\ written \in Nat /\ ends \in Seq(Nat)
      /\ Len(ends) = Len(files) - 1
      /\ \A n \in 1 .. Len(files) : Size(n) \in Nat /\ Size(n) <= EndOf(files[n]) /\ Sound(files[n])
  BY DEF Log
<1>4. written' \in Nat /\ written <= written' /\ written' <= EndOf(files[Len(files)])
  BY <1>1, <1>2, <1>3
<1>5. ASSUME NEW n \in 1 .. Len(files)
      PROVE  Size(n)' \in Nat /\ Size(n)' <= EndOf(files'[n]) /\ Size(n) <= Size(n)'
  <2>1. CASE n = Len(files)
    <3>1. Size(n) = written /\ Size(n)' = written'
      BY <1>2, <2>1 DEF Size
    <3>2. QED
      BY <1>2, <1>4, <2>1, <3>1
  <2>2. CASE n # Len(files)
    <3>1. Size(n)' = Size(n) /\ Size(n) <= Size(n)
      BY <1>2, <1>3, <2>2 DEF Size
    <3>2. QED
      BY <1>2, <1>3, <3>1
  <2>3. QED
    BY <2>1, <2>2
<1>6. Log'
  BY <1>1, <1>2, <1>3, <1>4, <1>5 DEF Log
<1>7. QED
  BY <1>2, <1>5, <1>6 DEF Grown

LEMMA GrowsByFile ==
  ASSUME Log, NextFile
  PROVE  Log' /\ Grown
<1> DEFINE m == Len(files)
<1>1. m \in Nat /\ m >= 1
  BY Lengths
<1>2. files' = Append(files, << >>) /\ written' = 0 /\ ends' = Append(ends, written)
  BY DEF NextFile
<1>3. /\ files \in Seq(Seq(Logged)) /\ written \in Nat /\ ends \in Seq(Nat)
      /\ Len(ends) = m - 1
      /\ \A n \in 1 .. m : Size(n) \in Nat /\ Size(n) <= EndOf(files[n]) /\ Sound(files[n])
  BY DEF Log
<1>4. << >> \in Seq(Logged) /\ Len(<< >>) = 0
  BY EmptySeq
<1>5. /\ files' \in Seq(Seq(Logged)) /\ Len(files') = m + 1 /\ files'[m + 1] = << >>
      /\ \A n \in 1 .. m : files'[n] = files[n]
  BY <1>2, <1>3, <1>4, AppendProperties
<1>6. /\ ends' \in Seq(Nat) /\ Len(ends') = Len(ends) + 1 /\ ends'[Len(ends) + 1] = written
      /\ \A n \in 1 .. Len(ends) : ends'[n] = ends[n]
  BY <1>2, <1>3, AppendProperties, SMTT(30)
<1> HIDE DEF m
<1>7. Sound(<< >>)
  BY <1>4 DEF Sound
<1>8. \A n \in 1 .. m : Size(n)' = Size(n)
  <2> TAKE n \in 1 .. m
  <2>1. n # m + 1 /\ Len(ends) + 1 = m
    BY <1>1, <1>3
  <2>2. Size(n)' = ends'[n]
    BY <1>5, <2>1 DEF Size
  <2>3. CASE n = m
    BY <1>6, <2>1, <2>2, <2>3 DEF Size, m
  <2>4. CASE n # m
    <3>1. n \in 1 .. Len(ends)
      BY <1>1, <1>3, <2>4
    <3>2. QED
      BY <1>6, <2>2, <2>4, <3>1 DEF Size, m
  <2>5. QED
    BY <2>3, <2>4
<1>9. EndOf(<< >>) = 0
  BY DEF EndOf
<1>10. \A n \in 1 .. m + 1 : n \in 1 .. m \/ n = m + 1
  BY <1>1
<1>11. Log'
  <2>1. \A n \in 1 .. m + 1 : Sound(files'[n])
    BY <1>3, <1>5, <1>7, <1>10
  <2>2. \A n \in 1 .. m + 1 : Size(n)' \in Nat /\ Size(n)' <= EndOf(files'[n])
    <3> TAKE n \in 1 .. m + 1
    <3>1. CASE n \in 1 .. m
      BY <1>3, <1>5, <1>8, <3>1
    <3>2. CASE n = m + 1
      <4>1. Size(n)' = 0
        BY <1>2, <1>5, <3>2 DEF Size
      <4>2. QED
        BY <1>5, <1>9, <3>2, <4>1
    <3>3. QED
      BY <1>10, <3>1, <3>2
  <2>3. Len(files') >= 1 /\ Len(ends') = Len(files') - 1 /\ written' \in Nat
    BY <1>1, <1>2, <1>3, <1>5, <1>6
  <2>4. QED
    BY <1>5, <1>6, <2>1, <2>2, <2>3 DEF Log
<1>12. ASSUME NEW n \in 1 .. m
       PROVE  n \in 1 .. Len(files') /\ Size(n) <= Size(n)' /\ files'[n] = files[n]
  <2>1. n \in 1 .. m + 1 /\ Size(n) <= Size(n)
    BY <1>1, <1>3
  <2>2. QED
    BY <1>5, <1>8, <2>1
<1>13. QED
  BY <1>11, <1>12 DEF Grown, m

LEMMA Grows ==
  ASSUME Log, MySQL
  PROVE  Log' /\ Grown
BY GrowsByEvent, GrowsByBytes, GrowsByFile DEF MySQL

-----------------------------------------------------------------------------
(* The reader.                                                             *)

LEMMA MinOfTwo ==
  ASSUME NEW a \in Nat, NEW b \in Nat
  PROVE  Min({a, b}) = IF a <= b THEN a ELSE b
<1>1. Min({a, b}) \in {a, b} /\ \A y \in {a, b} : Min({a, b}) <= y
  <2> DEFINE m == IF a <= b THEN a ELSE b
  <2>1. m \in {a, b} /\ \A y \in {a, b} : m <= y
    OBVIOUS
  <2>2. QED
    BY <2>1 DEF Min
<1>2. QED
  BY <1>1

\* Numbers that the invariant speaks of.
LEMMA Numbers ==
  ASSUME IInv
  PROVE  /\ Len(files) \in Nat /\ num \in 1 .. Len(files) /\ num \in Nat
         /\ Sound(files[num]) /\ Len(files[num]) \in Nat /\ EndOf(files[num]) \in Nat
         /\ Size(num) \in Nat /\ Size(num) <= EndOf(files[num])
         /\ pos \in Nat /\ off \in Nat /\ seen \in Nat /\ got \in Nat /\ buf \in Nat
         /\ ev.dl \in Nat /\ Need \in Nat /\ Coming \in 1 .. Len(files[num]) + 1
         /\ HeaderLen \in Nat /\ HeaderLen > 0 /\ BufSize \in Nat /\ BufSize > 0
<1>1. num \in 1 .. Len(files) /\ {pos, off, seen, got, buf} \subseteq Nat /\ ev.dl \in Nat
  BY DEF IInv, Place
<1>2. /\ Len(files) \in Nat
      /\ Sound(files[num]) /\ Len(files[num]) \in Nat /\ EndOf(files[num]) \in Nat
  BY <1>1, Lengths DEF IInv
<1>3. Size(num) \in Nat /\ Size(num) <= EndOf(files[num])
  BY <1>1 DEF IInv, Log
<1>4. Coming <= Len(files[num]) + 1
  BY DEF IInv, Place
<1>5. Coming \in Nat /\ Coming >= 1
  BY <1>1 DEF Coming
<1>6. Need \in Nat
  BY <1>1, Constants DEF Need
<1>7. QED
  BY <1>1, <1>2, <1>3, <1>4, <1>5, <1>6, Constants

\* What MySQL writes does not move the reader.
LEMMA PlaceInGrowing ==
  ASSUME IInv, MySQL, Log', Grown
  PROVE  Place'
<1>0. seen \in Nat /\ Coming \in 1 .. Len(files[num]) + 1 /\ Len(files[num]) \in Nat
  BY Numbers
<1>1. PICK n \in 1 .. Len(files) : n = num
  BY Numbers
<1>2. UNCHANGED <<num, pos, off, eof, buf, got, ev, phase, step, armed, seen>>
  BY DEF MySQL, file
<1>3. Coming' = Coming /\ Need' = Need
  BY <1>2 DEF Coming, Need
<1>4. n \in 1 .. Len(files') /\ Size(n) <= Size(n)'
  BY DEF Grown
<1>5. Size(num)' = Size(n)' /\ Size(num) = Size(n)
  BY <1>1, <1>2 DEF Size
<1>6. /\ \A i \in 1 .. Len(files[num]) :
           i \in 1 .. Len(files'[num]) /\ files'[num][i] = files[num][i]
      /\ \A i \in 1 .. Len(files[num]) + 1 :
           i \in 1 .. Len(files'[num]) + 1 /\ StartOf(files'[num], i) = StartOf(files[num], i)
  BY <1>1 DEF Grown
<1>7. /\ Coming' \in 1 .. Len(files'[num]) + 1
      /\ StartOf(files'[num], Coming) = StartOf(files[num], Coming)
  BY <1>3, <1>6, Numbers
<1>8. Coming' <= Len(files'[num']) + 1 /\ pos' = StartOf(files'[num'], Coming')
  <2>1. Len(files'[num]) \in Nat
    BY <1>1, <1>4, LenProperties DEF Log
  <2>2. Coming' <= Len(files'[num]) + 1
    BY <1>7, <2>1
  <2>3. pos = StartOf(files[num], Coming)
    BY DEF IInv, Place
  <2>4. QED
    BY <1>2, <1>3, <1>7, <2>2, <2>3, Zenon
<1>9. off' <= Size(num)' \/ (phase' = "head" /\ got' = 0 /\ buf' = 0)
  <2>1. off <= Size(n) \/ (phase = "head" /\ got = 0 /\ buf = 0)
    BY <1>1 DEF IInv, Place
  <2>2. CASE off <= Size(n)
    <3>1. Size(n) \in Nat /\ Size(n)' \in Nat
      BY <1>4 DEF IInv, Log
    <3>2. off' <= Size(n)'
      BY <1>2, <1>4, <2>2, <3>1, Numbers
    <3>3. QED
      BY <1>5, <3>2
  <2>3. CASE phase = "head" /\ got = 0 /\ buf = 0
    BY <1>2, <2>3
  <2>4. QED
    BY <2>1, <2>2, <2>3
<1>10. phase' = "body" => ev' = files'[num'][seen' + 1]
  <2>1. SUFFICES ASSUME phase = "body" PROVE ev = files'[num][seen + 1]
    BY <1>2
  <2>2. seen + 1 \in 1 .. Len(files[num])
    <3>1. Coming = seen + 2
      BY <2>1 DEF Coming
    <3>2. QED
      BY <1>0, <3>1
  <2>3. QED
    BY <1>6, <2>1, <2>2 DEF IInv, Place
<1>11. phase' = "stop" => seen' > 0 /\ files'[num'][seen'].t = "rotate"
  <2>1. SUFFICES ASSUME phase = "stop" PROVE seen > 0 /\ files'[num][seen].t = "rotate"
    BY <1>2
  <2>2. seen > 0 /\ files[num][seen].t = "rotate"
    BY <2>1 DEF IInv, Place
  <2>3. seen \in 1 .. Len(files[num])
    <3>1. Coming = seen + 1
      BY <2>1 DEF Coming
    <3>2. QED
      BY <1>0, <2>2, <3>1
  <2>4. QED
    BY <1>6, <2>2, <2>3
<1>12. num' \in 1 .. Len(files') /\ modified' \in BOOLEAN
  <2>1. modified' = armed /\ armed \in BOOLEAN
    BY DEF MySQL, Notify, IInv, Place
  <2>2. QED
    BY <1>1, <1>2, <1>4, <2>1
<1>13. off' = (pos' - IF phase' = "head" THEN 0 ELSE ev'.dl) + got' + buf'
  BY <1>2 DEF IInv, Place
<1>14. QED
  <2>1. /\ {pos', off', seen', got', buf'} \subseteq Nat
        /\ {eof', armed', modified'} \subseteq BOOLEAN
        /\ phase' \in {"head", "body", "stop"} /\ step' \in {"read", "eof", "wait", "dead"}
        /\ buf' <= BufSize /\ ev'.dl \in Nat
        /\ got' <= Need' /\ (phase' = "stop" => got' = 0)
        /\ step' \in {"eof", "wait"} => phase' # "stop" /\ got' < Need' /\ buf' = 0
    BY <1>2, <1>3, <1>12 DEF IInv, Place
  <2>2. QED
    BY <1>8, <1>9, <1>10, <1>11, <1>12, <1>13, <2>1 DEF Place

\* Reading, waiting and failing: the event at hand stays the same.
LEMMA PlaceInReading ==
  ASSUME IInv, TakeBuffered \/ Fill \/ Eof \/ Wake \/ Fail
  PROVE  Log' /\ Place'
<1>1. UNCHANGED <<mysql, num, pos, ev, phase, seen>>
  BY DEF TakeBuffered, Fill, Eof, Wake, Fail, file
<1>2. Coming' = Coming /\ Need' = Need /\ Size(num)' = Size(num)
  BY <1>1 DEF Coming, Need, Size, mysql
<1>3. Log'
  <2>1. files' = files /\ written' = written /\ ends' = ends
    BY <1>1 DEF mysql
  <2>2. QED
    BY <2>1 DEF IInv, Log, Size
<1>4. /\ num' \in 1 .. Len(files') /\ {pos', seen'} \subseteq Nat
      /\ phase' \in {"head", "body", "stop"} /\ ev'.dl \in Nat
      /\ Coming' <= Len(files'[num']) + 1 /\ pos' = StartOf(files'[num'], Coming')
      /\ phase' = "body" => ev' = files'[num'][seen' + 1]
      /\ phase' = "stop" => seen' > 0 /\ files'[num'][seen'].t = "rotate"
  BY <1>1, <1>2 DEF IInv, Place, mysql
<1>5. /\ off \in Nat /\ got \in Nat /\ buf \in Nat /\ buf <= BufSize
      /\ Need \in Nat /\ got <= Need /\ pos \in Nat /\ ev.dl \in Nat
      /\ Size(num) \in Nat /\ BufSize \in Nat /\ BufSize > 0
  BY Numbers DEF IInv, Place
<1>6. /\ off = (pos - IF phase = "head" THEN 0 ELSE ev.dl) + got + buf
      /\ off <= Size(num) \/ (phase = "head" /\ got = 0 /\ buf = 0)
      /\ phase = "stop" => got = 0
      /\ step \in {"eof", "wait"} => phase # "stop" /\ got < Need /\ buf = 0
      /\ {eof, armed, modified} \subseteq BOOLEAN
      /\ step \in {"read", "eof", "wait", "dead"}
  BY DEF IInv, Place
<1>7. ASSUME \/ UNCHANGED <<off, got, buf>>
             \/ /\ phase # "stop" /\ off' \in Nat /\ got' \in Nat /\ buf' \in Nat
                /\ off' + (got + buf) = off + (got' + buf') /\ off' <= Size(num)
                /\ got' <= Need /\ buf' <= BufSize
      PROVE  /\ {off', got', buf'} \subseteq Nat /\ buf' <= BufSize
             /\ got' <= Need' /\ (phase' = "stop" => got' = 0)
             /\ off' = (pos' - IF phase' = "head" THEN 0 ELSE ev'.dl) + got' + buf'
             /\ off' <= Size(num)' \/ (phase' = "head" /\ got' = 0 /\ buf' = 0)
  <2>1. CASE UNCHANGED <<off, got, buf>>
    BY <1>1, <1>2, <1>5, <1>6, <2>1
  <2>2. CASE /\ phase # "stop" /\ off' \in Nat /\ got' \in Nat /\ buf' \in Nat
             /\ off' + (got + buf) = off + (got' + buf') /\ off' <= Size(num)
             /\ got' <= Need /\ buf' <= BufSize
    <3>1. off' = (pos - IF phase = "head" THEN 0 ELSE ev.dl) + got' + buf'
      <4> DEFINE d == IF phase = "head" THEN 0 ELSE ev.dl
      <4>1. d \in Nat /\ off = (pos - d) + got + buf
        BY <1>5, <1>6
      <4> HIDE DEF d
      <4>2. pos - d \in Int /\ off = (pos - d) + (got + buf)
        BY <1>5, <4>1
      <4>3. off' + (got + buf) = ((pos - d) + (got + buf)) + (got' + buf')
        BY <2>2, <4>2
      <4>4. off' = (pos - d) + got' + buf'
        BY <1>5, <2>2, <4>2, <4>3
      <4>5. QED
        BY <4>4 DEF d
    <3>2. QED
      BY <1>1, <1>2, <2>2, <3>1
  <2>3. QED
    BY <1>7, <2>1, <2>2
<1>8. CASE TakeBuffered
  <2>1. PICK ms \in Nat :
           ms <= buf /\ ms <= Need - got /\ got' = got + ms /\ buf' = buf - ms
    <3>1. Need - got \in Nat
      BY <1>5
    <3>2. Min({buf, Need - got}) = IF buf <= Need - got THEN buf ELSE Need - got
      BY <1>5, <3>1, MinOfTwo
    <3>3. got' = got + Min({buf, Need - got}) /\ buf' = buf - Min({buf, Need - got})
      BY <1>8 DEF TakeBuffered
    <3>4. QED
      BY <1>5, <3>1, <3>2, <3>3
  <2>2. /\ phase # "stop" /\ buf > 0 /\ off' = off /\ step = "read"
        /\ UNCHANGED <<eof, step, armed, modified>>
    BY <1>8 DEF TakeBuffered, Reading, file, watch
  <2>3. off <= Size(num)
    BY <1>6, <2>2
  <2>4. QED
    BY <1>3, <1>4, <1>5, <1>6, <1>7, <2>1, <2>2, <2>3 DEF Place
<1>9. CASE Fill
  <2>1. PICK n \in Nat, ls \in Nat :
           /\ n <= BufSize /\ n <= Size(num) - off /\ ls <= n /\ ls <= Need - got
           /\ off' = off + n /\ got' = got + ls /\ buf' = n - ls
    <3> DEFINE n == Min({BufSize, Size(num) - off})
               ls == Min({n, Need - got})
    <3>1. Size(num) - off \in Nat
      BY <1>5, <1>9 DEF Fill, Available
    <3>2. n = IF BufSize <= Size(num) - off THEN BufSize ELSE Size(num) - off
      BY <1>5, <3>1, MinOfTwo
    <3>3. n \in Nat /\ n <= BufSize /\ n <= Size(num) - off /\ Need - got \in Nat
      BY <1>5, <3>1, <3>2
    <3>4. off' = off + n /\ got' = got + ls /\ buf' = n - ls
      BY <1>9 DEF Fill
    <3> HIDE DEF n
    <3>5. ls = IF n <= Need - got THEN n ELSE Need - got
      BY <3>3, MinOfTwo
    <3> HIDE DEF ls
    <3>6. ls \in Nat /\ ls <= n /\ ls <= Need - got
      BY <3>3, <3>5
    <3>7. QED
      BY <3>3, <3>4, <3>6
  <2>2. /\ phase # "stop" /\ buf = 0 /\ step = "read" /\ eof' \in BOOLEAN
        /\ UNCHANGED <<step, armed, modified>>
    BY <1>6, <1>9 DEF Fill, Reading, watch
  <2>3. /\ off' \in Nat /\ got' \in Nat /\ buf' \in Nat
        /\ off' + (got + buf) = off + (got' + buf') /\ off' <= Size(num)
        /\ got' <= Need /\ buf' <= BufSize
    BY <1>5, <2>1, <2>2
  <2>4. QED
    BY <1>3, <1>4, <1>6, <1>7, <2>2, <2>3 DEF Place
<1>10. CASE Eof
  <2>1. /\ phase # "stop" /\ got < Need /\ buf = 0 /\ step' = "eof" /\ eof' = TRUE
        /\ UNCHANGED <<off, got, buf, armed, modified>>
    BY <1>10 DEF Eof, Reading, watch
  <2>2. QED
    BY <1>1, <1>2, <1>3, <1>4, <1>6, <1>7, <2>1 DEF Place
<1>11. CASE Wake
  <2>1. /\ step' = "read" /\ modified' = FALSE
        /\ UNCHANGED <<off, got, buf, armed, eof>>
    BY <1>11 DEF Wake, file
  <2>2. QED
    BY <1>3, <1>4, <1>6, <1>7, <2>1 DEF Place
<1>12. CASE Fail
  <2>1. /\ step' = "dead" /\ modified' = FALSE /\ armed' = FALSE
        /\ UNCHANGED <<off, got, buf, eof>>
    BY <1>12 DEF Fail, file
  <2>2. QED
    BY <1>3, <1>4, <1>6, <1>7, <2>1 DEF Place
<1>13. QED
  BY <1>8, <1>9, <1>10, <1>11, <1>12

\* The next file is opened at its first event.
LEMMA PlaceInNextFile ==
  ASSUME IInv, HasNext, Open(NextNum, 0), seen' = 0, UNCHANGED <<mysql, ev>>
  PROVE  Log' /\ Place'
<1>1. files' = files /\ written' = written /\ ends' = ends /\ ev' = ev
  BY DEF mysql
<1>2. Log'
  BY <1>1 DEF IInv, Log, Size
<1>3. /\ num' = num + 1 /\ pos' = 0 /\ off' = 0 /\ eof' = FALSE
      /\ buf' = 0 /\ got' = 0 /\ phase' = "head" /\ step' = "read"
      /\ armed' = FALSE /\ modified' = FALSE
  BY DEF Open, NextNum
<1>4. num' \in 1 .. Len(files')
  <2>1. num \in Nat /\ Len(files) \in Nat /\ num \in 1 .. Len(files)
    BY Numbers
  <2>2. Len(files) > num
    BY DEF HasNext
  <2>3. num + 1 \in 1 .. Len(files)
    BY <2>1, <2>2
  <2>4. QED
    BY <1>1, <1>3, <2>3
<1>5. Sound(files'[num']) /\ Len(files'[num']) \in Nat
  BY <1>1, <1>4, Lengths DEF IInv
<1>6. Coming' = 1 /\ StartOf(files'[num'], 1) = 0
  <2>1. Coming' = 0 + 1
    BY <1>3 DEF Coming
  <2>2. QED
    BY <1>5, <2>1, Offsets
<1>7. Coming' <= Len(files'[num']) + 1 /\ pos' = StartOf(files'[num'], Coming')
  BY <1>3, <1>5, <1>6
<1>8. Need' = HeaderLen
  BY <1>3 DEF Need
<1>9. ev'.dl \in Nat /\ BufSize \in Nat /\ HeaderLen \in Nat
  BY <1>1, Numbers
<1>10. /\ {pos', off', seen', got', buf'} \subseteq Nat
       /\ {eof', armed', modified'} \subseteq BOOLEAN
       /\ buf' <= BufSize /\ got' <= Need'
       /\ off' = (pos' - 0) + got' + buf'
  <2>1. {pos', off', seen', got', buf'} = {0}
    BY <1>3
  <2>2. {eof', armed', modified'} = {FALSE}
    BY <1>3
  <2>3. 0 <= BufSize /\ 0 <= HeaderLen /\ 0 = (0 - 0) + 0 + 0
    BY <1>9
  <2>4. {pos', off', seen', got', buf'} \subseteq Nat
    BY <2>1
  <2>5. {eof', armed', modified'} \subseteq BOOLEAN
    BY <2>2
  <2>6. buf' <= BufSize /\ got' <= Need'
    BY <1>3, <1>8, <2>3
  <2>7. off' = (pos' - 0) + got' + buf'
    BY <1>3, <2>3
  <2>8. QED
    BY <2>4, <2>5, <2>6, <2>7
<1>11. QED
  BY <1>2, <1>3, <1>4, <1>7, <1>9, <1>10 DEF Place

\* A header that has been read is that of an event of the file.
LEMMA HeaderRead ==
  ASSUME IInv, phase = "head", got = HeaderLen
  PROVE  /\ seen + 1 \in 1 .. Len(files[num])
         /\ off = pos + HeaderLen + buf /\ off <= Size(num)
         /\ Parsed.dl \in Nat /\ Parsed.dl > 0 /\ SizeOf(Parsed) = HeaderLen + Parsed.dl
         /\ StartOf(files[num], seen + 2) = pos + SizeOf(Parsed)
<1> DEFINE f == files[num]
<1>1. /\ pos \in Nat /\ off \in Nat /\ seen \in Nat /\ buf \in Nat
      /\ HeaderLen \in Nat /\ HeaderLen > 0
      /\ Size(num) \in Nat /\ Size(num) <= EndOf(f) /\ EndOf(f) \in Nat
      /\ Len(f) \in Nat /\ Sound(f) /\ Coming \in 1 .. Len(f) + 1
  BY Numbers
<1>2. Coming = seen + 1
  BY DEF Coming
<1>3. off = pos + HeaderLen + buf
  <2>1. off = (pos - 0) + got + buf
    BY DEF IInv, Place
  <2>2. QED
    BY <1>1, <2>1
<1>4. off <= Size(num)
  <2>1. off <= Size(num) \/ got = 0
    BY DEF IInv, Place
  <2>2. QED
    BY <1>1, <2>1
<1>5. pos = StartOf(f, seen + 1)
  BY <1>2 DEF IInv, Place
<1>6. seen + 1 # Len(f) + 1
  <2>1. SUFFICES ASSUME seen + 1 = Len(f) + 1 PROVE FALSE
    OBVIOUS
  <2>2. pos = EndOf(f)
    BY <1>1, <1>5, <2>1, Offsets
  <2>3. QED
    BY <1>1, <1>3, <1>4, <2>2
<1>7. seen + 1 \in 1 .. Len(f)
  BY <1>1, <1>2, <1>6
<1>8. Parsed = f[seen + 1]
  BY DEF Parsed
<1>9. /\ Parsed.dl \in Nat /\ Parsed.dl > 0 /\ SizeOf(Parsed) = HeaderLen + Parsed.dl
      /\ StartOf(f, seen + 1) = Parsed.at /\ StartOf(f, (seen + 1) + 1) = Parsed.at + SizeOf(Parsed)
  BY <1>1, <1>7, <1>8, Offsets
<1>10. (seen + 1) + 1 = seen + 2
  BY <1>1
<1>11. QED
  BY <1>3, <1>4, <1>5, <1>7, <1>9, <1>10

LEMMA PlaceInHeader ==
  ASSUME IInv, Header
  PROVE  Log' /\ Place'
<1> DEFINE e    == Parsed
           next == pos + SizeOf(e)
           L    == Len(files[num])
<1>1. /\ seen + 1 \in 1 .. L
      /\ off = pos + HeaderLen + buf /\ off <= Size(num)
      /\ e.dl \in Nat /\ e.dl > 0 /\ SizeOf(e) = HeaderLen + e.dl
      /\ StartOf(files[num], seen + 2) = next
  BY HeaderRead DEF Header
<1>2. /\ L \in Nat /\ num \in 1 .. Len(files) /\ pos \in Nat /\ off \in Nat
      /\ seen \in Nat /\ buf \in Nat /\ buf <= BufSize /\ BufSize \in Nat
      /\ HeaderLen \in Nat /\ Size(num) \in Nat
  BY Numbers DEF IInv, Place
<1>3. files' = files /\ written' = written /\ ends' = ends /\ step = "read" /\ phase = "head"
  BY DEF Header, mysql
<1>4. Log'
  BY <1>3 DEF IInv, Log, Size
<1>5. /\ num' = num /\ eof' = FALSE /\ armed' = FALSE /\ modified' = FALSE
      /\ step' = "read" /\ got' = 0 /\ pos' = next /\ ev' = e
  BY <1>3 DEF Header, Returned, Open
<1>6. Size(num)' = Size(num)
  BY <1>3, <1>5 DEF Size
<1>7. e = files[num][seen + 1] /\ next \in Nat /\ next = pos + HeaderLen + e.dl
  <2>1. e = files[num][seen + 1]
    BY DEF Parsed
  <2> HIDE DEF e
  <2>2. e.dl \in Nat /\ SizeOf(e) = HeaderLen + e.dl
    BY <1>1
  <2>3. next = pos + HeaderLen + e.dl /\ next \in Nat
    BY <1>2, <2>2
  <2>4. QED
    BY <2>1, <2>3
<1>8. seen + 2 \in 1 .. L + 1 /\ (seen + 1) + 1 = seen + 2
  BY <1>1, <1>2
<1> HIDE DEF e, next
<1>0. /\ e.dl \in Nat /\ pos \in Nat /\ HeaderLen \in Nat /\ buf \in Nat
      /\ off = pos + HeaderLen + buf /\ next = pos + HeaderLen + e.dl
  BY <1>1, <1>2, <1>7, SMTT(30)
<1>17. /\ {eof', armed', modified'} \subseteq BOOLEAN
       /\ step' \in {"read", "eof", "wait", "dead"} /\ step' \notin {"eof", "wait"}
  BY <1>5
<1>9. CASE phase' = "body" /\ UNCHANGED <<off, buf, seen>>
  <2>1. Coming' = seen + 2 /\ Need' = e.dl
    BY <1>5, <1>9 DEF Coming, Need
  <2>2. off = (next - e.dl) + 0 + buf
    BY <1>0
  <2>3. Coming' <= Len(files'[num']) + 1 /\ pos' = StartOf(files'[num'], Coming')
    <3>1. Coming' <= L + 1 /\ Len(files'[num']) = L
      BY <1>2, <1>3, <1>5, <1>8, <2>1
    <3>2. QED
      BY <1>1, <1>3, <1>5, <2>1, <3>1
  <2>4. got' <= Need'
    BY <1>1, <1>5, <2>1
  <2>5. /\ off' = (pos' - IF phase' = "head" THEN 0 ELSE ev'.dl) + got' + buf'
        /\ off' <= Size(num)'
    BY <1>1, <1>5, <1>6, <1>9, <2>2
  <2>6. {pos', off', seen', got', buf'} \subseteq Nat /\ buf' <= BufSize /\ ev'.dl \in Nat
    BY <1>1, <1>2, <1>5, <1>7, <1>9
  <2>7. num' \in 1 .. Len(files') /\ ev' = files'[num'][seen' + 1]
    BY <1>2, <1>3, <1>5, <1>7, <1>9
  <2>8. QED
    BY <1>4, <1>9, <1>17, <2>3, <2>4, <2>5, <2>6, <2>7 DEF Place
<1>10. CASE /\ phase' \in {"head", "stop"} /\ seen' = seen + 1
            /\ off' \in Nat /\ buf' \in Nat /\ buf' <= BufSize
            /\ off' = next - (IF phase' = "head" THEN 0 ELSE e.dl) + buf'
            /\ off' <= Size(num) \/ (phase' = "head" /\ buf' = 0)
            /\ phase' = "stop" => e.t = "rotate"
  <2>1. Coming' = seen + 2
    <3>1. Coming' = (seen + 1) + 1
      BY <1>10 DEF Coming
    <3>2. QED
      BY <1>8, <3>1
  <2>2. Need' \in Nat
    BY <1>1, <1>2, <1>5, <1>10 DEF Need
  <2>3. Coming' <= Len(files'[num']) + 1 /\ pos' = StartOf(files'[num'], Coming')
    <3>1. Coming' <= L + 1 /\ Len(files'[num']) = L
      BY <1>2, <1>3, <1>5, <1>8, <2>1
    <3>2. QED
      BY <1>1, <1>3, <1>5, <2>1, <3>1
  <2>4. phase' = "stop" => seen' > 0 /\ files'[num'][seen'].t = "rotate"
    BY <1>2, <1>3, <1>5, <1>7, <1>10
  <2>5. off' = (pos' - IF phase' = "head" THEN 0 ELSE ev'.dl) + got' + buf'
    <3>1. CASE phase' = "head"
      BY <1>5, <1>7, <1>10, <3>1
    <3>2. CASE phase' = "stop"
      BY <1>1, <1>5, <1>7, <1>10, <3>2
    <3>3. QED
      BY <1>10, <3>1, <3>2
  <2>6. got' <= Need' /\ seen' \in Nat /\ phase' # "body"
    BY <1>2, <1>5, <1>10, <2>2
  <2>7. off' <= Size(num)' \/ (phase' = "head" /\ got' = 0 /\ buf' = 0)
    BY <1>5, <1>6, <1>10
  <2>8. {pos', off', seen', got', buf'} \subseteq Nat /\ buf' <= BufSize /\ ev'.dl \in Nat
    BY <1>1, <1>5, <1>7, <1>10, <2>6
  <2>9. num' \in 1 .. Len(files')
    BY <1>2, <1>3, <1>5
  <2>10. QED
    BY <1>4, <1>5, <1>10, <1>17, <2>3, <2>4, <2>5, <2>6, <2>7, <2>8, <2>9 DEF Place
<1>11. CASE e.t = "read" /\ phase' = "body" /\ UNCHANGED <<num, off, buf, step, seen>>
  BY <1>9, <1>11
<1>12. CASE /\ StepOver(e, next) /\ UNCHANGED <<num, phase, step>> /\ seen' = seen + 1
  <2>1. CASE buf >= e.dl
    <3>1. buf' = buf - e.dl /\ off' = off
      BY <1>12, <2>1 DEF StepOver
    <3>2. buf' \in Nat /\ buf' <= BufSize /\ off' = next - 0 + buf'
      <4>1. buf - e.dl \in Nat /\ buf - e.dl <= BufSize
        BY <1>1, <1>2, <2>1
      <4>2. off = next - 0 + (buf - e.dl)
        BY <1>0, <2>1
      <4>3. QED
        BY <3>1, <4>1, <4>2
    <3>3. QED
      BY <1>1, <1>2, <1>3, <1>10, <1>12, <3>1, <3>2
  <2>2. CASE ~(buf >= e.dl)
    <3>1. buf' = 0 /\ off' = next
      BY <1>12, <2>2 DEF StepOver
    <3>2. buf' \in Nat /\ buf' <= BufSize /\ off' = next - 0 + buf'
      BY <1>2, <1>7, <3>1
    <3>3. QED
      BY <1>3, <1>7, <1>10, <1>12, <3>1, <3>2
  <2>3. QED
    BY <2>1, <2>2
<1>13. CASE IsStop(e) /\ phase' = "stop" /\ seen' = seen + 1 /\ UNCHANGED <<off, buf>>
  <2>1. e.t = "rotate"
    BY <1>13 DEF IsStop
  <2>2. off' = next - e.dl + buf'
    <3>1. off = next - e.dl + buf
      BY <1>0
    <3>2. QED
      BY <1>13, <3>1
  <2>3. QED
    BY <1>1, <1>2, <1>10, <1>13, <2>1, <2>2
<1>14. CASE Open(num, next) /\ seen' = seen + 1
  <2>1. phase' = "head" /\ off' = next /\ buf' = 0
    BY <1>14 DEF Open
  <2>2. off' = next - 0 + buf'
    BY <1>7, <2>1
  <2>3. QED
    BY <1>2, <1>7, <1>10, <1>14, <2>1, <2>2
<1>15. \/ e.t = "read" /\ phase' = "body" /\ UNCHANGED <<num, off, buf, step, seen>>
       \/ StepOver(e, next) /\ UNCHANGED <<num, phase, step>> /\ seen' = seen + 1
       \/ IsStop(e) /\ phase' = "stop" /\ seen' = seen + 1 /\ UNCHANGED <<off, buf>>
       \/ Open(num, next) /\ seen' = seen + 1
  BY DEF Header, e, next
<1>16. QED
  BY <1>11, <1>12, <1>13, <1>14, <1>15

LEMMA PlaceInBody ==
  ASSUME IInv, Body
  PROVE  Log' /\ Place'
<1>1. /\ files' = files /\ written' = written /\ ends' = ends
      /\ step = "read" /\ phase = "body" /\ got = ev.dl
      /\ phase' = "head" /\ seen' = seen + 1 /\ got' = 0
      /\ eof' = FALSE /\ armed' = FALSE /\ modified' = FALSE
      /\ UNCHANGED <<num, off, pos, buf, ev, step>>
  BY DEF Body, Returned, mysql
<1>2. Log'
  BY <1>1 DEF IInv, Log, Size
<1>3. /\ pos \in Nat /\ off \in Nat /\ seen \in Nat /\ buf \in Nat /\ ev.dl \in Nat
      /\ HeaderLen \in Nat
  BY Numbers
<1>4. Size(num)' = Size(num) /\ Need' = HeaderLen
  BY <1>1 DEF Size, Need
<1>5. Coming' = Coming
  <2>1. Coming = seen + 2 /\ Coming' = (seen + 1) + 1
    BY <1>1 DEF Coming
  <2>2. QED
    BY <1>3, <2>1
<1>6. off' = (pos' - 0) + got' + buf'
  <2>1. off = (pos - ev.dl) + ev.dl + buf
    BY <1>1 DEF IInv, Place
  <2>2. off = (pos - 0) + 0 + buf
    BY <1>3, <2>1
  <2>3. QED
    BY <1>1, <2>2
<1>7. off' <= Size(num)'
  <2>1. off <= Size(num)
    BY <1>1 DEF IInv, Place
  <2>2. QED
    BY <1>1, <1>4, <2>1
<1>8. got' <= Need' /\ seen' \in Nat
  BY <1>1, <1>3, <1>4
<1>9. /\ num' \in 1 .. Len(files') /\ {pos', off', got', buf'} \subseteq Nat
      /\ buf' <= BufSize /\ ev'.dl \in Nat
      /\ Coming' <= Len(files'[num']) + 1 /\ pos' = StartOf(files'[num'], Coming')
  BY <1>1, <1>3, <1>5 DEF IInv, Place
<1>10. QED
  BY <1>1, <1>2, <1>6, <1>7, <1>8, <1>9 DEF Place

-----------------------------------------------------------------------------
(* The theorems.                                                           *)

LEMMA InvInit ==
  ASSUME Init
  PROVE  IInv
<1>1. /\ files = << << >> >> /\ written = 0 /\ ends = << >>
      /\ num = 1 /\ pos = 0 /\ off = 0 /\ eof = FALSE /\ buf = 0 /\ got = 0
      /\ ev.dl = 0 /\ phase = "head" /\ step = "read" /\ armed = FALSE
      /\ modified = FALSE /\ seen = 0
  BY DEF Init
<1>2. << >> \in Seq(Logged) /\ Len(<< >>) = 0 /\ ends \in Seq(Nat) /\ Len(ends) = 0
  BY <1>1, EmptySeq
<1>3. Sound(<< >>)
  BY <1>2 DEF Sound
<1>4. files \in Seq(Seq(Logged)) /\ Len(files) = 1 /\ files[1] = << >>
  BY <1>1, <1>2
<1>5. StartOf(files[1], 1) = 0 /\ EndOf(files[1]) = 0
  BY <1>4 DEF StartOf, EndOf
<1>6. Size(1) = 0
  BY <1>1, <1>4 DEF Size
<1>7. Log
  <2>1. \A n \in 1 .. Len(files) : n = 1
    BY <1>4
  <2>2. Len(files) >= 1 /\ Len(ends) = Len(files) - 1
    BY <1>2, <1>4
  <2>3. 0 \in Nat /\ 0 <= 0
    OBVIOUS
  <2>4. \A n \in 1 .. Len(files) :
          Sound(files[n]) /\ Size(n) \in Nat /\ Size(n) <= EndOf(files[n])
    BY <1>3, <1>4, <1>5, <1>6, <2>1, <2>3
  <2>5. QED
    BY <1>1, <1>2, <1>4, <2>2, <2>4 DEF Log
<1>8. Coming = 1 /\ Need = HeaderLen
  BY <1>1 DEF Coming, Need
<1>9. Place
  <2>1. num \in 1 .. Len(files) /\ Coming <= Len(files[num]) + 1
    BY <1>1, <1>2, <1>4, <1>8
  <2>2. pos = StartOf(files[num], Coming)
    BY <1>1, <1>5, <1>8
  <2>3. {pos, off, seen, got, buf} \subseteq Nat /\ buf <= BufSize /\ got <= Need /\ ev.dl \in Nat
    BY <1>1, <1>8, Constants
  <2>4. {eof, armed, modified} \subseteq BOOLEAN
    BY <1>1
  <2>5. off = (pos - 0) + got + buf
    BY <1>1
  <2>6. QED
    BY <1>1, <2>1, <2>2, <2>3, <2>4, <2>5 DEF Place
<1>10. QED
  BY <1>7, <1>9 DEF IInv

LEMMA InvNext ==
  ASSUME IInv, [Next]_vars
  PROVE  IInv'
<1>1. CASE MySQL
  <2>1. Log' /\ Grown
    BY <1>1, Grows DEF IInv
  <2>2. Place'
    BY <1>1, <2>1, PlaceInGrowing
  <2>3. QED
    BY <2>1, <2>2 DEF IInv
<1>2. CASE TakeBuffered \/ Fill \/ Eof \/ Wake \/ Fail
  BY <1>2, PlaceInReading DEF IInv
<1>3. CASE LookForNext
  <2>1. CASE HasNext
    <3>1. Open(NextNum, 0) /\ seen' = 0 /\ UNCHANGED <<mysql, ev>>
      BY <1>3, <2>1 DEF LookForNext
    <3>2. QED
      BY <2>1, <3>1, PlaceInNextFile DEF IInv
  <2>2. CASE ~HasNext
    <3>1. /\ step = "eof" /\ step' = "wait" /\ armed' = TRUE
          /\ UNCHANGED <<mysql, modified, file, pos, buf, got, ev, phase, seen>>
      BY <1>3, <2>2 DEF LookForNext
    <3>2. /\ Log' /\ Coming' = Coming /\ Need' = Need /\ Size(num)' = Size(num)
      BY <3>1 DEF IInv, Log, Coming, Need, Size, mysql, file
    <3>3. phase # "stop" /\ got < Need /\ buf = 0
      BY <3>1 DEF IInv, Place
    <3>4. Place'
      BY <3>1, <3>2, <3>3 DEF IInv, Place, mysql, file
    <3>5. QED
      BY <3>2, <3>4 DEF IInv
  <2>3. QED
    BY <2>1, <2>2
<1>4. CASE Header
  BY <1>4, PlaceInHeader DEF IInv
<1>5. CASE Body
  BY <1>5, PlaceInBody DEF IInv
<1>6. CASE Stop
  <2>1. HasNext /\ Open(NextNum, 0) /\ seen' = 0 /\ UNCHANGED <<mysql, ev>>
    BY <1>6 DEF Stop
  <2>2. QED
    BY <2>1, PlaceInNextFile DEF IInv
<1>7. CASE UNCHANGED vars
  BY <1>7 DEF vars, mysql, file, watch, IInv, Log, Place, Coming, Need, Size
<1>8. QED
  BY <1>1, <1>2, <1>3, <1>4, <1>5, <1>6, <1>7 DEF Next, Reader

LEMMA Invariant == Spec => []IInv
<1>1. Init => IInv
  BY InvInit
<1>2. IInv /\ [Next]_vars => IInv'
  BY InvNext
<1>3. QED
  BY <1>1, <1>2, PTL DEF Spec

\* Aligned: file offset, io_buf and what a read has got so far agree with
\* dump_pos, which is the end of an event of the file, whatever was buffered,
\* skipped, reopened or waited for.
THEOREM ReaderIsAligned == Spec => []Aligned
<1>1. ASSUME IInv PROVE Aligned
  <2>1. /\ Len(files) \in Nat /\ Len(files) >= 1 /\ DOMAIN files = 1 .. Len(files)
    BY <1>1, Lengths, LenProperties DEF IInv, Log
  <2>2. written \in 0 .. EndOf(Current)
    <3>1. Len(files) \in 1 .. Len(files)
      BY <2>1
    <3>2. Size(Len(files)) = written /\ written \in Nat /\ Size(Len(files)) <= EndOf(files[Len(files)])
      BY <1>1, <3>1 DEF Size, IInv, Log
    <3>3. EndOf(files[Len(files)]) \in Nat
      BY <1>1, <3>1, Lengths DEF IInv
    <3>4. QED
      BY <3>2, <3>3 DEF Current
  <2>3. buf \in 0 .. BufSize /\ got \in 0 .. Need
    BY <1>1, Numbers DEF IInv, Place
  <2>4. TypeOK
    BY <1>1, <2>1, <2>2, <2>3 DEF TypeOK, IInv, Log, Place, Logged
  <2>5. QED
    BY <1>1, <2>4 DEF Aligned, IInv, Place, Coming
<1>2. QED
  BY <1>1, Invariant, PTL

LEMMA AllSeen ==
  ASSUME IInv,
         \A i \in 1 .. Len(files[num]) : StartOf(files[num], i + 1) <= Size(num) => i <= seen
  PROVE  seen >= Complete(num)
<1> DEFINE C == {i \in DOMAIN files[num] : StartOf(files[num], i + 1) <= Size(num)}
<1>1. seen \in Nat /\ DOMAIN files[num] = 1 .. Len(files[num]) /\ Len(files[num]) \in Nat
  BY Numbers, Offsets
<1>2. C \in SUBSET (1 .. seen)
  BY <1>1
<1>3. IsFiniteSet(1 .. seen) /\ Cardinality(1 .. seen) = seen
  <2>1. 1 \in Int /\ seen \in Int
    BY <1>1
  <2>2. /\ IsFiniteSet(1 .. seen)
        /\ Cardinality(1 .. seen) = IF 1 > seen THEN 0 ELSE seen - 1 + 1
    BY <2>1, FS_Interval
  <2>3. QED
    BY <1>1, <2>2
<1> HIDE DEF C
<1>4. IsFiniteSet(C) /\ Cardinality(C) <= seen
  BY <1>2, <1>3, FS_Subset
<1>5. Cardinality(C) \in Nat
  BY <1>4, FS_CardinalityType
<1>6. Complete(num) = Cardinality(C)
  BY DEF Complete, C
<1>7. QED
  BY <1>1, <1>4, <1>5, <1>6

\* A read that has met the end of the file has left nothing that is complete.
LEMMA EofIsTheEnd ==
  ASSUME IInv, step = "eof", ~(off < Size(num))
  PROVE  seen >= Complete(num)
<1> DEFINE f == files[num]
<1>1. /\ pos \in Nat /\ off \in Nat /\ seen \in Nat /\ got \in Nat /\ ev.dl \in Nat
      /\ HeaderLen \in Nat /\ Size(num) \in Nat /\ Len(f) \in Nat
      /\ Sound(f) /\ Coming \in 1 .. Len(f) + 1
  BY Numbers
<1>0. off \in Nat /\ Size(num) \in Nat /\ Size(num) <= off
  BY <1>1
<1>2. /\ phase # "stop" /\ got < Need /\ buf = 0 /\ pos = StartOf(f, Coming)
      /\ phase \in {"head", "body", "stop"} /\ (phase = "body" => ev = f[seen + 1])
      /\ off = (pos - IF phase = "head" THEN 0 ELSE ev.dl) + got + buf
  BY DEF IInv, Place
<1> HIDE DEF f
\* The end of the event at hand is not reached.
<1>3. ASSUME seen + 1 \in 1 .. Len(f)
      PROVE  off < f[seen + 1].at + SizeOf(f[seen + 1])
  <2>1. /\ f[seen + 1].at \in Nat /\ f[seen + 1].dl \in Nat
        /\ SizeOf(f[seen + 1]) = HeaderLen + f[seen + 1].dl
        /\ StartOf(f, seen + 1) = f[seen + 1].at
        /\ StartOf(f, (seen + 1) + 1) = f[seen + 1].at + SizeOf(f[seen + 1])
    BY <1>1, <1>3, Offsets
  <2>2. CASE phase = "head"
    <3>1. Coming = seen + 1 /\ Need = HeaderLen
      BY <2>2 DEF Coming, Need
    <3>2. pos = f[seen + 1].at
      BY <1>2, <2>1, <3>1
    <3>3. off = (pos - 0) + got + 0
      BY <1>2, <2>2
    <3>4. got < HeaderLen
      BY <1>2, <3>1
    <3>5. off < pos + HeaderLen
      BY <1>1, <3>3, <3>4
    <3>6. pos + HeaderLen <= pos + SizeOf(f[seen + 1]) /\ SizeOf(f[seen + 1]) \in Nat
      BY <1>1, <2>1, SMTT(30)
    <3>7. QED
      BY <1>1, <3>2, <3>5, <3>6
  <2>3. CASE phase = "body"
    <3>1. Coming = seen + 2 /\ Need = ev.dl
      BY <2>3 DEF Coming, Need
    <3>2. (seen + 1) + 1 = seen + 2
      BY <1>1
    <3>3. pos = f[seen + 1].at + SizeOf(f[seen + 1])
      BY <1>2, <2>1, <3>1, <3>2
    <3>4. off = (pos - ev.dl) + got + 0 /\ got < ev.dl
      BY <1>2, <2>3, <3>1
    <3>5. off < pos
      BY <1>1, <3>4
    <3>6. QED
      BY <3>3, <3>5
  <2>4. QED
    BY <1>2, <2>2, <2>3
<1>4. ASSUME NEW i \in 1 .. Len(f), StartOf(f, i + 1) <= Size(num) PROVE i <= seen
  <2>1. SUFFICES ASSUME i > seen PROVE FALSE
    BY <1>1
  <2>2. seen + 1 \in 1 .. Len(f) /\ (i = seen + 1 \/ seen + 1 < i)
    BY <1>1, <2>1
  <2>3. /\ f[i].at \in Nat /\ SizeOf(f[i]) \in Nat
        /\ f[seen + 1].at \in Nat /\ SizeOf(f[seen + 1]) \in Nat
        /\ StartOf(f, i + 1) = f[i].at + SizeOf(f[i])
    <3>1. \A j \in 1 .. Len(f) : f[j].at \in Nat /\ SizeOf(f[j]) \in Nat
      <4> TAKE j \in 1 .. Len(f)
      <4>1. f[j].at \in Nat /\ f[j].dl \in Nat /\ SizeOf(f[j]) = HeaderLen + f[j].dl
        BY <1>1, Offsets
      <4>2. HeaderLen + f[j].dl \in Nat
        BY <4>1, Constants
      <4>3. QED
        BY <4>1, <4>2
    <3>2. StartOf(f, i + 1) = f[i].at + SizeOf(f[i])
      BY <1>1, Offsets
    <3>3. QED
      BY <2>2, <3>1, <3>2
  <2> DEFINE a == f[i].at
             s == SizeOf(f[i])
             b == f[seen + 1].at + SizeOf(f[seen + 1])
  <2>4. a \in Nat /\ s \in Nat /\ b \in Nat /\ off < b /\ a + s <= Size(num)
    <3>1. a + s <= Size(num)
      BY <1>4, <2>3
    <3>2. b \in Nat
      BY <2>3
    <3>3. QED
      BY <1>3, <2>2, <2>3, <3>1, <3>2
  <2>5. CASE i = seen + 1
    <3>1. b = a + s
      BY <2>5
    <3>2. QED
      BY <1>0, <2>4, <3>1
  <2>6. CASE seen + 1 < i
    <3>1. b <= a
      BY <1>1, <2>2, <2>6 DEF Sound
    <3> HIDE DEF a, b, s
    <3>2. QED
      BY <1>0, <2>4, <3>1
  <2>7. QED
    BY <2>2, <2>5, <2>6
<1>5. QED
  BY <1>4, AllSeen DEF f

\* A ROTATE or STOP event is the last of its file.
LEMMA StopIsTheEnd ==
  ASSUME IInv, phase = "stop"
  PROVE  seen >= Complete(num)
<1>1. /\ seen \in Nat /\ Len(files[num]) \in Nat /\ Sound(files[num])
      /\ Coming \in 1 .. Len(files[num]) + 1
  BY Numbers
<1>2. seen > 0 /\ files[num][seen].t = "rotate" /\ Coming = seen + 1
  BY DEF IInv, Place, Coming
<1>3. seen \in 1 .. Len(files[num])
  BY <1>1, <1>2
<1>4. seen = Len(files[num])
  BY <1>1, <1>2, <1>3 DEF Sound
<1>5. QED
  BY <1>1, <1>4, AllSeen

\* TailReadUnlessGrown: rs_eof_read_binlog2() goes on to the next file only
\* when its read has met the end of this one and MySQL has not written since,
\* or after the ROTATE or STOP event; else it leaves complete events behind
\* only if the file has grown between fread() and the look at the index.
THEOREM TailIsRead == Spec => TailReadUnlessGrown
<1> DEFINE A == num' # num => /\ num' = num + 1
                              /\ \/ seen >= Complete(num)
                                 \/ step = "eof" /\ off < Size(num)
<1>1. ASSUME IInv, [Next]_vars PROVE [A]_vars
  <2>1. SUFFICES ASSUME Next, num' # num
                 PROVE  /\ num' = num + 1
                        /\ \/ seen >= Complete(num)
                           \/ step = "eof" /\ off < Size(num)
    BY <1>1
  <2>2. CASE LookForNext
    <3>1. step = "eof" /\ num' = num + 1
      BY <2>1, <2>2 DEF LookForNext, Open, NextNum, file
    <3>2. QED
      BY <1>1, <3>1, EofIsTheEnd
  <2>3. CASE Stop
    <3>1. phase = "stop" /\ num' = num + 1
      BY <2>3 DEF Stop, Open, NextNum
    <3>2. QED
      BY <1>1, <3>1, StopIsTheEnd
  <2>4. CASE MySQL \/ TakeBuffered \/ Fill \/ Eof \/ Wake \/ Body \/ Fail
    BY <2>1, <2>4 DEF MySQL, TakeBuffered, Fill, Eof, Wake, Body, Fail, file
  <2>5. CASE Header
    BY <2>1, <2>5 DEF Header, Open
  <2>6. QED
    BY <2>1, <2>2, <2>3, <2>4, <2>5 DEF Next, Reader
<1>2. QED
  BY <1>1, Invariant, PTL DEF Spec, TailReadUnlessGrown

=============================================================================
