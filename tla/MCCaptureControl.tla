--------------------------- MODULE MCCaptureControl ---------------------------
(***************************************************************************)
(* Capture on two adapters, and sample frames for what is captured: texts  *)
(* of lengths around the boundaries of the length fields, with and without *)
(* the optional parts.                                                     *)
(***************************************************************************)
EXTENDS CaptureControl, FrameFormats

MacA == <<0, 26, 43, 60, 77, 94>>
Letters(n) == [i \in 1 .. n |-> 65 + (i % 26)]
Ten(n) == <<10, 0, 0, n>>

MCLldpFacts ==
  [chassis : {MacA}, port : {Letters(6)}, name : {Letters(1), Letters(255)},
   descr : {<<>>, Letters(256), Letters(511)}, caps : {0, 20, 1025},
   ip : {<<>>, Ten(2)}, vlan : {NoVlan, 1, 4094}]

MCCdpFacts ==
  [chassis : {MacA}, port : {Letters(6)}, name : {Letters(1), Letters(252)},
   descr : {<<>>, Letters(256)}, platform : {Letters(3)}, caps : {0, 9, 256},
   ip : {<<>>, Ten(2)}, vlan : {1, 4094}]

MCDhcpFacts ==
  [protocol : {"dhcp"}, type : {2, 5}, xid : {<<18, 52, 86, 120>>}, client : {MacA},
   offered : {Ten(42)}, server : {Ten(1)}, mask : {<<>>, <<255, 255, 255, 0>>},
   gateways : {<<>>, <<Ten(3)>>, <<Ten(3), Ten(1)>>}, dns : {<<>>, <<Ten(8), Ten(9)>>},
   lease : {<<0, 1, 81, 128>>}, domain : {<<>>, Letters(255)}]

\* While a sniffer runs, a frame it hears is read as its sender meant it.
CapturedIsRead == source # None => FramesRoundTrip

\* While a sniffer runs, a frame it hears only in part is never taken to say
\* anything that the whole frame does not.
CapturedInPart == source # None => TruncationOnlyLoses
====
