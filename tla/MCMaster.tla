------------------------------ MODULE MCMaster ------------------------------
(* An instance of Master: every file of up to MaxLines of the lines below    *)
(* when the process starts, and a few on each reload.                        *)
EXTENDS Master

CONSTANT MaxLines   \* bound: lines of the first file

\* log, log.level and log.x share a chain, and so do the keys of the master.
MCHash(key, n) == (IF key = Pid THEN 1 ELSE 0) % n

MCCoreKeys   == <<Pid, <<"log">>, <<"log", ".level">>>>
MCMasterKeys == <<Addr, Index, RingNo, <<"server.id">>>>

PidLine(p)  == Line("entry", Pid, <<p>>)
AddrLine(a) == Line("entry", Addr, <<a>>)
Core   == Line("header", <<"core">>, << >>)
Mast   == Line("header", <<"master">>, << >>)

FirstLines ==
  {Core, Mast, Line("header", <<"slave">>, << >>), PidLine("p"),
   Line("entry", <<"log">>, <<"f", Space, "g">>), Line("entry", <<"log", ".level">>, <<"0">>),
   AddrLine("a"), Line("entry", <<"log", ".x">>, <<"0">>),
   Line("broken", <<"master">>, << >>), Line("bare", Addr, << >>),
   Line("comment", << >>, <<"[", "core", "]">>), Line("blank", << >>, << >>)}

Reloaded(p, a, i, n) ==
  <<Core, PidLine(p), Mast, AddrLine(a), Line("entry", Index, <<i>>),
    Line("entry", RingNo, <<n>>)>>

MCFiles == {Reloaded("p", "a", "i", "1"), Reloaded("q", "a", "i", "2"),
            Reloaded("p", "b", "i", "1"), Reloaded("p", "a", "j", "2"),
            Reloaded("p", "b", "j", "2"), <<Core, PidLine("p"), Mast, Mast>>,
            <<Core, PidLine("q"), Line("broken", <<"master">>, << >>)>>,
            <<Core, PidLine("p"), Mast, Line("bare", Addr, << >>)>>}
MCFirstFiles == MCFiles \cup SeqOf(FirstLines, MaxLines)
=============================================================================
