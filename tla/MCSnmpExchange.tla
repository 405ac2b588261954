---------------------------- MODULE MCSnmpExchange ----------------------------
(***************************************************************************)
(* A small exchange, and sample messages: identifiers, lengths and arcs    *)
(* around the boundaries of their encodings.                               *)
(***************************************************************************)
EXTENDS SnmpExchange, SnmpCodec

Octs(n) == [i \in 1 .. n |-> i % 256]
MCCommunities == {<<>>, Octs(6), Octs(128), Octs(260)}
MCIds == {1, 127, 128, 255, 256, 32767, 32768, 8388607, 8388608, 2147483647}

Sys(k, n) == <<1, 3, 6, 1, 2, 1, k, n>>
Bind(o, v) == [oid |-> o, val |-> v]
MCBinds ==
  {<<>>,
   <<Bind(Sys(1, 127), Num(0)), Bind(Sys(128, 16383), Num(-1)), Bind(Sys(16384, 0), Num(-128))>>,
   <<Bind(Sys(2, 2097152), Str(<<>>)), Bind(<<1, 3>>, Null), Bind(<<0, 39, 1>>, Num(-129))>>,
   <<Bind(<<2, 39>>, Str(Octs(200))), Bind(Sys(2097151, 1), Num(2147483647))>>}

\* A client that waits for an answer, which it knows by its identifier alone,
\* reads any as what it is, and a damaged one not at all.
AnswersAreRead == waiting => ResponsesRoundTrip
====
