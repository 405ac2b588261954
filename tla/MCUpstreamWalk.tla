---------------------------- MODULE MCUpstreamWalk ----------------------------
(***************************************************************************)
(* Small instances of UpstreamWalk: switches S, A and B, an endpoint e, a  *)
(* gateway g with the IPv6 address g6.  A has two addresses in two subnets *)
(* and an IPv6 one.                                                        *)
(***************************************************************************)
EXTENDS UpstreamWalk

MCAddr == {"e", "s", "a1", "a2", "b", "g", "v6", "g6"}
MCV6 == {"v6", "g6"}
MCLinkLocal == {}
MCLan == [x \in MCAddr |-> IF x \in {"s", "e", "a2"} THEN "lan" ELSE x]
MCSite == [x \in MCAddr |-> IF x \in {"s", "e", "a2", "b"} THEN "site" ELSE x]
MCName == {"S", "A", "A2", "pc"}
MCAlike == {<<n, n>> : n \in MCName} \cup {<<"A", "A2">>, <<"A2", "A">>}
MCEndpointNames == {"pc"}
MCPort == 1 .. 3
MCMac == {"ma", "mb"}

ToPc == [id |-> 1, name |-> "pc", mac |-> None, ips |-> {"e"}]
ToA(i) == [id |-> i, name |-> "A", mac |-> "ma", ips |-> {"a1", "a2", "v6"}]
ToS(i) == [id |-> i, name |-> "S", mac |-> None, ips |-> {"s"}]
ToB(i) == [id |-> i, name |-> None, mac |-> "mb", ips |-> {"b"}]
Silent(i) == [id |-> i, name |-> "A2", mac |-> "mb", ips |-> {}]
Bare(i) == [id |-> i, name |-> None, mac |-> None, ips |-> {}]

Sw(name, stpPort, bridge, ports, gw) ==
  [name |-> name, stpPort |-> stpPort, rootBridge |-> bridge, ports |-> ports,
   gateway |-> gw]

MCReadings == {
  Sw("S", 2, "other", {ToPc, ToA(2)}, None),
  Sw("A", 2, "other", {ToS(1), Silent(2)}, None),
  Sw("A", 2, "other", {ToS(1), Bare(2)}, "g"),
  Sw("A", None, "other", {ToS(1)}, "g"),
  Sw("A", 0, "self", {ToS(1)}, "g"),
  Sw("A", 0, "other", {ToS(1), ToB(3)}, "g"),
  Sw("A2", 2, "self", {ToB(2), ToA(3)}, None),
  Sw("S", None, "none", {ToPc, ToA(2)}, None),
  Sw("A", None, "none", {ToS(1), ToB(2), ToA(3)}, None),
  Sw("A", None, "none", {ToS(1), Silent(2)}, None),
  Sw("A2", None, "none", {ToS(1)}, "g")}

Walk(w, h, resolver) ==
  [start |-> "s", endpoint |-> "e", gateways |-> {"g"}, wish |-> w,
   hop |-> h, resolver |-> resolver]

\* Walks started from the switch panel, on a host with an IPv4 gateway only and
\* on one with an IPv6 gateway too.
NaturalRequests ==
  {Walk(NoWish, None, TRUE),
   [Walk(NoWish, None, FALSE) EXCEPT !.gateways = {"g", "g6"}]}

Clicked(p) == [ip |-> Diag(p).ip, port |-> p.id, cand |-> Diag(p)]
Typed(p, a) == [Clicked(p) EXCEPT !.ip = a]

\* Walks continued by a click on a candidate, or with a typed address; the
\* candidate was offered by the first switch or by the second.
ForcedRequests ==
  {Walk(w, h, FALSE) : w \in {Clicked(ToB(2)), Clicked(ToA(3)), Typed(Silent(2), "b"),
                              Typed(ToA(2), "b")},
                       h \in {"s", "a2"}}

\* A walk resumed, with a typed address, from an IPv6 gateway above which it stalled.
ResumedRequest == [Walk(Typed(ToB(2), "b"), "g6", FALSE) EXCEPT !.start = "g6"]

AllRequests == NaturalRequests \cup ForcedRequests \cup {ResumedRequest}
====
