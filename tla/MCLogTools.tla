------------------------------ MODULE MCLogTools ------------------------------
(***************************************************************************)
(* Instances of LogTools for TLC: log calls of several levels and threads, *)
(* two of them in one second and one out of order, texts around the 112    *)
(* bytes of a payload, and argument lists log_reader may be called with.   *)
(***************************************************************************)
EXTENDS LogTools

Call(sec, ns, level, tid, n) == [ts |-> <<sec, ns>>, level |-> level, tid |-> tid, n |-> n]

Calls == <<Call(3, 5, 2, 7, 10), Call(3, 999999999, 3, 12345, 0), Call(2, 70, 5, 7, 111),
           Call(4, 1000, 1, 12345, 112), Call(4, 2000, 4, 7, -1)>>

MCLogged == [r \in 1 .. MaxWrites |-> Calls[((r - 1) % Len(Calls)) + 1]]

MCArgLists == {
  <<>>,
  <<"--level", "WARN", "--limit", 1>>,
  <<"--level", "LOUD", "--thread", 7, "--limit">>,
  <<"--thread", 12345, "--level", "DEBUG", "--thread", 7>>}
=============================================================================
