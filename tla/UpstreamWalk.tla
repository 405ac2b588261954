---------------------------- MODULE UpstreamWalk ----------------------------
(***************************************************************************)
(* UpstreamWalker.walk (linksight/discovery/walker.py): the loop that      *)
(* traces the switch chain from the endpoint's switch to the network edge. *)
(*                                                                         *)
(* One iteration of the loop is one step: the address at hand is queried,  *)
(* the device there answers or does not, and the iteration ends in one of  *)
(* the ways below.  The network is the environment: whatever is queried    *)
(* may stay silent, refuse the community, be an edge device, or be a       *)
(* switch whose tables read as any member of Readings.  Nothing relates    *)
(* two answers, so a table that was read in part, a device that changed    *)
(* between two queries and a wrongly cabled network are all included.      *)
(***************************************************************************)
EXTENDS Naturals, Sequences, FiniteSets

CONSTANTS
  Addr,           \* addresses an SNMP query can be sent to
  V6,             \* those written with a colon
  LinkLocal,      \* those in 169.254.0.0/16
  Lan, Site,      \* the /24 and the /16 of each address, shared by IPv4 ones only
  Name,           \* host names and advertised neighbor identities
  Alike,          \* pairs of names of which one contains the other
  EndpointNames,  \* names that contain "host", "endpoint" or "localhost"
  Port,           \* bridge port numbers
  Mac,            \* chassis addresses
  None,           \* an absent address, name, port or chassis
  Readings,       \* what the tables of a switch can decode to
  Requests,       \* the arguments a walk is started with
  MaxHops         \* max_hops, 16 in the code

-----------------------------------------------------------------------------
(* What is read from a switch, and what is kept of it.                     *)

\* One row of the assembled neighbor tables: neighbor name, chassis MAC and
\* advertised management addresses of a port.
Advert == [id : Port, name : Name \cup {None}, mac : Mac \cup {None}, ips : SUBSET Addr]

\* PortDiagnostics, as far as the walk looks at it.
PortDiag == [id : Port, name : Name \cup {None}, mac : Mac \cup {None},
             ips : SUBSET Addr, ip : Addr \cup {None}]

Reading == [name : Name, stpPort : Port \cup {0, None},
            rootBridge : {"none", "self", "other"},
            ports : SUBSET Advert, gateway : Addr \cup {None}]

\* forced_next_ip, forced_port_id, forced_candidate: what the user asked for.
Wish == [ip : Addr \cup {None}, port : Port \cup {None}, cand : PortDiag \cup {None}]

Request == [start : Addr, endpoint : Addr \cup {None}, gateways : SUBSET Addr,
            wish : Wish, hop : Addr \cup {None}, resolver : BOOLEAN]

FailedStatus == {"auth_failed", "timeout", "unreachable"}

Status == FailedStatus \cup {"ok", "root_reached", "no_upstream", "ambiguous",
                             "root_claimed_but_uplinks_present", "router_reached"}

Hop == [index : Nat, ip : Addr, name : Name \cup {None}, status : Status,
        stp : BOOLEAN, root : BOOLEAN, stpPort : Port \cup {0, None},
        up : PortDiag \cup {None}, down : PortDiag \cup {None},
        cands : SUBSET PortDiag, gateway : Addr \cup {None}]

EdgeType == FailedStatus \cup {"unknown", "loop_detected", "edge", "stp_root",
                               "no_upstream", "ambiguous",
                               "root_claimed_but_uplinks_present"}

\* Port numbers are positive, an absent value is no value, and a switch whose
\* root port number is positive has that port in its port list, once.
ASSUME WalkAssumption ==
  /\ Port \subseteq Nat \ {0}
  /\ None \notin Addr /\ None \notin Port /\ None \notin Name /\ None \notin Mac
  /\ None \notin PortDiag /\ None # 0
  /\ V6 \subseteq Addr /\ LinkLocal \subseteq Addr
  /\ Alike \subseteq Name \X Name
  /\ EndpointNames \subseteq Name
  /\ MaxHops \in Nat
  /\ Readings \subseteq Reading
  /\ \A r \in Readings :
       /\ \A p, q \in r.ports : p.id = q.id => p = q
       /\ r.stpPort \in Port => \E p \in r.ports : p.id = r.stpPort

\* An address that a user typed, that an ARP sweep found or that a candidate
\* carries is IPv4, and nobody types a link-local one.  A gateway may be an IPv6
\* address (the system's first "Default Gateway" line may hold one), and so may
\* the start of a walk that is resumed from such a gateway.
ASSUME RequestAssumption ==
  /\ Requests \subseteq Request
  /\ \A q \in Requests : q.wish.ip \notin V6 \cup LinkLocal

-----------------------------------------------------------------------------
VARIABLES
  req,         \* the arguments of this walk
  pc,          \* "walking" in the loop, "done" after it
  hops,        \* the path so far
  visited,     \* visited_ips
  curr,        \* curr_ip
  hopIndex,    \* hop_index
  pendingAlt,  \* pending_alt_ips
  wish,        \* the part of the request not consumed yet
  edgeType     \* edge_type

vars == <<req, pc, hops, visited, curr, hopIndex, pendingAlt, wish, edgeType>>

NoWish == [ip |-> None, port |-> None, cand |-> None]

Init ==
  /\ req \in Requests
  /\ pc = "walking"
  /\ hops = <<>>
  /\ visited = {}
  /\ curr = req.start
  /\ hopIndex = 1
  /\ pendingAlt = {}
  /\ wish = IF req.wish.cand # None /\ req.wish.port = None
            THEN [req.wish EXCEPT !.port = req.wish.cand.id]
            ELSE req.wish
  /\ edgeType = "unknown"

-----------------------------------------------------------------------------
(* Addresses.  The order in which a neighbor lists its addresses is        *)
(* arbitrary but fixed: "the first" of a set is the one CHOOSE picks.      *)

Walkable(S) == S \ (V6 \cup LinkLocal)

PreferIpv4(S) == IF Walkable(S) = {} THEN None ELSE CHOOSE a \in Walkable(S) : TRUE

\* Variant: no address where none is on-link.
OnlinkOrNone(S, ctx) ==
  LET lan  == {a \in Walkable(S) : Lan[a] = Lan[ctx]}
      site == {a \in Walkable(S) : Site[a] = Site[ctx]}
  IN  IF lan # {} THEN PreferIpv4(lan) ELSE PreferIpv4(site)

PreferOnlinkIp(S, ctx) ==
  LET lan  == {a \in Walkable(S) : Lan[a] = Lan[ctx]}
      site == {a \in Walkable(S) : Site[a] = Site[ctx]}
  IN  IF lan # {} THEN PreferIpv4(lan)
      ELSE IF site # {} THEN PreferIpv4(site)
      ELSE PreferIpv4(S)

Diag(p) == [id |-> p.id, name |-> p.name, mac |-> p.mac, ips |-> p.ips,
            ip |-> PreferIpv4(p.ips)]

Diags(r) == {Diag(p) : p \in r.ports}

-----------------------------------------------------------------------------
(* Reading a switch: STP role, downlink, candidates, uplink.               *)

Last == hops[Len(hops)]

PrevIp == IF hops = <<>> THEN req.endpoint ELSE Last.ip

PrevName == IF hops = <<>> THEN None ELSE Last.name

\* _is_stp_root_bridge
IsRoot(r) == r.stpPort = 0 \/ r.rootBridge = "self"

StpPresent(r) == r.stpPort # None \/ r.rootBridge # "none"

RootPort(r) ==
  IF r.stpPort \in Port THEN CHOOSE p \in Diags(r) : p.id = r.stpPort ELSE None

HasNeighbor(p) == p.name # None \/ p.mac # None \/ p.ip # None

\* Variant: the root port can be taken for the downlink.
AnyDownlink(r) ==
  LET byIp   == {p \in Diags(r) : p.ip # None /\ p.ip = PrevIp}
      byName == {p \in Diags(r) : <<p.name, PrevName>> \in Alike}
  IN  IF byIp # {} THEN byIp
      ELSE IF byName # {} THEN byName
      ELSE Diags(r) \cup {None}

\* The port the walk came in by.  The neighbor address decides, then the
\* neighbor name; the forwarding table, the ARP table and the subnet and
\* keyword guesses behind them can name any port but the uplink, or none.
DownlinkOptions(r) ==
  LET others == {p \in Diags(r) : p # RootPort(r)}
      byIp   == {p \in others : p.ip # None /\ p.ip = PrevIp}
      byName == {p \in others : <<p.name, PrevName>> \in Alike}
  IN  IF byIp # {} THEN byIp
      ELSE IF byName # {} THEN byName
      ELSE others \cup {None}

\* Variant: candidates are looked for whatever STP says.
CandidatesDespiteStp(r, down) ==
  {p \in Diags(r) :
     /\ HasNeighbor(p)
     /\ p # down
     /\ ~(p.ip # None /\ p.ip = PrevIp)
     /\ <<p.name, PrevName>> \notin Alike
     /\ hops = <<>> => p.name \notin EndpointNames}

\* candidate_uplinks: looked for only where STP gives no direction.
Candidates(r, down) ==
  IF StpPresent(r) /\ ~IsRoot(r) THEN {}
  ELSE {p \in Diags(r) :
          /\ HasNeighbor(p)
          /\ p # down
          /\ ~(p.ip # None /\ p.ip = PrevIp)
          /\ <<p.name, PrevName>> \notin Alike
          /\ hops = <<>> => p.name \notin EndpointNames}

Singleton(S) == \E x \in S : S = {x}

\* Variant: any address gives way to an advertised one.
OnLinkAlways(p) ==
  LET ctx == IF PrevIp # None THEN PrevIp ELSE curr
  IN  IF Cardinality(p.ips) > 1 THEN [p EXCEPT !.ip = PreferOnlinkIp(p.ips, ctx)] ELSE p

\* An address the neighbor advertised gives way to the one on-link with the
\* previous hop (or the endpoint); a typed or ARP-resolved one never does.
OnLink(p) ==
  LET ctx == IF PrevIp # None THEN PrevIp ELSE curr
  IN  IF p.ip \in p.ips /\ ~Singleton(p.ips)
      THEN [p EXCEPT !.ip = PreferOnlinkIp(p.ips, ctx)] ELSE p

\* _matches_candidate
MatchesCandidate(p, cand) ==
  IF cand = None THEN TRUE
  ELSE IF cand.mac # None /\ p.mac # None THEN cand.mac = p.mac
  ELSE IF cand.name # None /\ p.name # None THEN cand.name = p.name
  ELSE TRUE

Wishing == wish.ip # None \/ wish.port # None

\* The port a forced request selects on this switch: by port number on the
\* hop it names, by neighbor address, through the ARP table, and at last by
\* being the only candidate.
Picks(r, cands) ==
  LET byPort  == {p \in Diags(r) : /\ wish.port # None
                                   /\ req.hop = None \/ curr = req.hop
                                   /\ p.id = wish.port
                                   /\ MatchesCandidate(p, wish.cand)}
      byIp(S) == {p \in S : wish.ip # None /\ p.ip = wish.ip}
      byArp   == {p \in cands : p.mac # None}
      noIp    == {p \in cands : p.ip = None}
      only    == IF Singleton(noIp) THEN noIp
                 ELSE IF Singleton(cands) THEN cands ELSE {None}
  IN  IF ~Wishing THEN {None}
      ELSE IF byPort # {} THEN byPort
      ELSE IF byIp(cands) # {} THEN byIp(cands)
      ELSE IF byIp(Diags(r)) # {} THEN byIp(Diags(r))
      ELSE IF wish.ip = None \/ (StpPresent(r) /\ ~IsRoot(r)) THEN {None}
      ELSE byArp \cup only

Uplink(r, cands, pick) ==
  IF pick # None
  THEN [pick EXCEPT !.ip = IF wish.ip # None THEN wish.ip ELSE pick.ip]
  ELSE IF /\ ~IsRoot(r) /\ ~Wishing
          /\ Singleton(cands) /\ \A p \in cands : p.ip # None
  THEN CHOOSE p \in cands : TRUE
  ELSE RootPort(r)

\* Variant: a forced port stays the downlink.
ViewKeepingDownlink(r, down, pick) ==
  LET cands == Candidates(r, down)
  IN  [up |-> Uplink(r, cands, pick), down |-> down,
       cands |-> IF Wishing THEN cands ELSE {OnLink(p) : p \in cands},
       picked |-> pick # None]

\* All that one reading can be taken for.
View(r, down, pick) ==
  LET cands == Candidates(r, down)
  IN  [up     |-> Uplink(r, cands, pick),
       down   |-> IF pick = down THEN None ELSE down,
       cands  |-> IF Wishing THEN cands ELSE {OnLink(p) : p \in cands},
       picked |-> pick # None]

Views(r) ==
  UNION {{View(r, down, pick) : pick \in Picks(r, Candidates(r, down))} :
            down \in DownlinkOptions(r)}

\* is_verified_root_from_downstream: the previous hop's root port names this
\* address (its stp_root_port_num is 0 when it is a root itself).
VerifiedFromDownstream ==
  /\ hops # <<>>
  /\ ~Last.root /\ Last.stpPort \in Port
  /\ Last.up # None /\ Last.up.ip = curr

Distrusted(r, v) ==
  /\ IsRoot(r) /\ v.up = None /\ v.cands # {}
  /\ hops = <<>> \/ ~VerifiedFromDownstream

CleanRoot(r, v) == IsRoot(r) /\ v.up = None /\ ~Distrusted(r, v)

NoUpstream(r, v) == ~StpPresent(r) /\ v.up = None /\ v.cands = {}

Ambiguous(r, v) == ~StpPresent(r) /\ v.up = None /\ v.cands # {}

\* The root port is unknown, or nothing is known about who is behind it.
BareRootPort(r, v) ==
  \/ v.up = None /\ StpPresent(r) /\ ~IsRoot(r)
  \/ v.up # None /\ v.up.ip = None /\ v.up.name = None /\ v.up.mac = None

\* The hop of a switch.  Candidates are listed when there is a choice left; the
\* uplink is one object with the candidate it was taken from.
HopOf(r, v, status) ==
  [index |-> hopIndex, ip |-> curr, name |-> r.name, status |-> status,
   stp |-> StpPresent(r), root |-> IsRoot(r), stpPort |-> r.stpPort,
   up |-> v.up, down |-> v.down,
   cands |-> IF v.up = None THEN v.cands
             ELSE IF Singleton(v.cands) THEN {}
             ELSE {IF p.id = v.up.id THEN v.up ELSE p : p \in v.cands},
   gateway |-> r.gateway]

-----------------------------------------------------------------------------
(* The ways an iteration can end.                                          *)

Walking == pc = "walking" /\ hopIndex <= MaxHops

\* Variant: visited_ips is not consulted.
QueryingAnew == Walking

Querying == Walking /\ curr \notin visited

Stop(edge) == pc' = "done" /\ edgeType' = edge /\ UNCHANGED <<req, curr, hopIndex>>

\* The hop is kept and the walk stops there.
StopAt(hop, edge) ==
  /\ hops' = Append(hops, hop)
  /\ visited' = visited \cup {curr}
  /\ Stop(edge)

\* The hop is kept and the walk goes on to a.
GoOn(hop, a) ==
  /\ hops' = Append(hops, hop)
  /\ visited' = visited \cup {curr}
  /\ curr' = a
  /\ hopIndex' = hopIndex + 1
  /\ UNCHANGED <<req, pc, edgeType>>

\* A selected port consumes the request.
Consume(v) == wish' = IF v.picked THEN NoWish ELSE wish

\* The stop event is set, or max_hops is passed.
Interrupted ==
  /\ pc = "walking"
  /\ Stop(edgeType)
  /\ UNCHANGED <<hops, visited, pendingAlt, wish>>

\* Variant: the hop that closes the loop is recorded.
LoopRecorded ==
  /\ Walking /\ curr \in visited
  /\ hops' = Append(hops, [Last EXCEPT !.index = hopIndex, !.ip = curr])
  /\ Stop("loop_detected")
  /\ UNCHANGED <<visited, pendingAlt, wish>>

LoopDetected ==
  /\ Walking /\ curr \in visited
  /\ Stop("loop_detected")
  /\ UNCHANGED <<hops, visited, pendingAlt, wish>>

\* Variants: an alternate counts as a hop; the address that failed is kept as a
\* hop; the address that failed is queued again.
AlternateCounts ==
  /\ Querying
  /\ visited' = visited \cup {curr}
  /\ \E a \in pendingAlt : curr' = a /\ pendingAlt' = pendingAlt \ {a}
  /\ hopIndex' = hopIndex + 1
  /\ UNCHANGED <<req, pc, hops, wish, edgeType>>

AlternateRecorded ==
  /\ Querying
  /\ \E a \in pendingAlt :
       /\ GoOn([Last EXCEPT !.index = hopIndex, !.ip = curr, !.status = "timeout"], a)
       /\ pendingAlt' = pendingAlt \ {a}
  /\ UNCHANGED wish

AlternateRequeued ==
  /\ Querying
  /\ \E a \in pendingAlt : curr' = a /\ pendingAlt' = (pendingAlt \ {a}) \cup {curr}
  /\ UNCHANGED <<req, pc, hops, visited, hopIndex, wish, edgeType>>

\* No answer, but the neighbor advertised further addresses: the next one is
\* tried, as the same hop.
TryAlternate ==
  /\ Querying
  /\ visited' = visited \cup {curr}
  /\ \E a \in pendingAlt : curr' = a /\ pendingAlt' = pendingAlt \ {a}
  /\ UNCHANGED <<req, pc, hops, hopIndex, wish, edgeType>>

\* No answer, and no address left.  The failed hop carries the uplink and the
\* candidates of the hop before it.
QueryFails(status) ==
  LET cands == IF hops = <<>> THEN {}
               ELSE Last.cands \cup ({Last.up} \ {None})
      up    == IF hops # <<>> /\ Last.up # None THEN Last.up
               ELSE IF cands # {} THEN CHOOSE p \in cands : TRUE ELSE None
  IN  /\ Querying
      /\ status # "auth_failed" => pendingAlt = {}
      /\ StopAt([index |-> hopIndex, ip |-> curr, name |-> None, status |-> status,
                 stp |-> FALSE, root |-> FALSE, stpPort |-> None, up |-> up,
                 down |-> None, cands |-> cands, gateway |-> None], status)
      /\ UNCHANGED <<pendingAlt, wish>>

\* A router or a firewall: its interfaces and its default route end the path.
EdgeReached(name) ==
  /\ Querying
  /\ StopAt([index |-> hopIndex, ip |-> curr, name |-> name, status |-> "router_reached",
             stp |-> FALSE, root |-> FALSE, stpPort |-> None, up |-> None,
             down |-> None, cands |-> {}, gateway |-> None], "edge")
  /\ UNCHANGED <<pendingAlt, wish>>

\* STP root with LLDP neighbors nobody below it vouches for: the user chooses.
RootDistrusted(r, v) ==
  /\ Querying /\ Distrusted(r, v)
  /\ StopAt(HopOf(r, v, "root_claimed_but_uplinks_present"),
            "root_claimed_but_uplinks_present")
  /\ Consume(v)
  /\ UNCHANGED pendingAlt

\* Several candidates, or one without an address, and no STP to tell.
CandidatesAmbiguous(r, v) ==
  /\ Querying /\ Ambiguous(r, v)
  /\ StopAt(HopOf(r, v, "ambiguous"), "ambiguous")
  /\ Consume(v)
  /\ UNCHANGED pendingAlt

\* Nothing above this switch can be seen.
AtTop(r, v) == Querying /\ (CleanRoot(r, v) \/ NoUpstream(r, v) \/ BareRootPort(r, v))

\* _edge_continuation with _edge_gateway_candidates: the addresses probed.
GatewayTargets(r) ==
  IF hopIndex >= MaxHops THEN {}
  ELSE (({r.gateway} \ {None}) \cup req.gateways)
         \ (visited \cup {curr, req.start, req.endpoint})

\* A gateway answers as an edge device or a switch: the walk goes on there.
GatewayAnswers(r, v) ==
  /\ AtTop(r, v)
  /\ \E g \in GatewayTargets(r) :
       GoOn(HopOf(r, v, IF CleanRoot(r, v) THEN "root_reached"
                        ELSE IF NoUpstream(r, v) THEN "no_upstream" ELSE "ok"), g)
  /\ Consume(v)
  /\ UNCHANGED pendingAlt

\* No gateway answers, or there is none to probe.
TopReached(r, v) ==
  /\ AtTop(r, v)
  /\ \/ /\ CleanRoot(r, v)
        /\ StopAt(HopOf(r, v, "root_reached"), "stp_root")
     \/ /\ NoUpstream(r, v)
        /\ StopAt(HopOf(r, v, "no_upstream"), "no_upstream")
     \/ /\ BareRootPort(r, v)
        /\ StopAt(HopOf(r, v, "unreachable"), "unreachable")
  /\ Consume(v)
  /\ UNCHANGED pendingAlt

\* Variants: the alternates of all neighbors pile up; IPv6 ones are kept.
FollowKeepingAlternates(r, v, up) ==
  /\ Querying
  /\ GoOn(HopOf(r, [v EXCEPT !.up = OnLink(up)], "ok"), OnLink(up).ip)
  /\ pendingAlt' = pendingAlt \cup (up.ips \ (V6 \cup {OnLink(up).ip}))
  /\ Consume(v)

FollowWithIPv6(r, v, up) ==
  /\ Querying
  /\ GoOn(HopOf(r, [v EXCEPT !.up = OnLink(up)], "ok"), OnLink(up).ip)
  /\ pendingAlt' = up.ips \ {OnLink(up).ip}
  /\ Consume(v)

\* On to the uplink's address; its other IPv4 addresses are the alternates.
Follow(r, v, up) ==
  /\ Querying
  /\ GoOn(HopOf(r, [v EXCEPT !.up = OnLink(up)], "ok"), OnLink(up).ip)
  /\ pendingAlt' = up.ips \ (V6 \cup {OnLink(up).ip})
  /\ Consume(v)

FollowUplink(r, v) == v.up # None /\ v.up.ip # None /\ Follow(r, v, v.up)

\* The neighbor advertised no address and the ARP sweep finds one.
FollowResolved(r, v) ==
  /\ v.up # None /\ v.up.ip = None /\ v.up.mac # None
  /\ req.resolver
  /\ \E a \in Walkable(Addr) : Follow(r, v, [v.up EXCEPT !.ip = a])

\* It finds none: the neighbor is offered to the user as a candidate.
UplinkHasNoAddress(r, v) ==
  /\ Querying
  /\ v.up # None /\ v.up.ip = None
  /\ v.up.name # None \/ v.up.mac # None
  /\ StopAt([HopOf(r, v, "ambiguous") EXCEPT !.cands = v.cands \cup {v.up}], "ambiguous")
  /\ Consume(v)
  /\ UNCHANGED pendingAlt

SwitchAnswers(r) ==
  \E v \in Views(r) :
    \/ RootDistrusted(r, v)
    \/ CandidatesAmbiguous(r, v)
    \/ GatewayAnswers(r, v)
    \/ TopReached(r, v)
    \/ FollowUplink(r, v)
    \/ FollowResolved(r, v)
    \/ UplinkHasNoAddress(r, v)

\* The walk has returned.
Returned == pc = "done" /\ UNCHANGED vars

Next ==
  \/ Interrupted
  \/ LoopDetected
  \/ TryAlternate
  \/ \E status \in FailedStatus : QueryFails(status)
  \/ \E name \in Name : EdgeReached(name)
  \/ \E r \in Readings : SwitchAnswers(r)
  \/ Returned

Spec == Init /\ [][Next]_vars

\* Every query is bounded by its timeout and its retries.
FairSpec == Spec /\ WF_vars(Next)

-----------------------------------------------------------------------------
(* Properties.                                                             *)

\* Every variable keeps its type, and a queried address is never absent.
TypeOK ==
  /\ req \in Requests
  /\ pc \in {"walking", "done"}
  /\ hops \in Seq(Hop)
  /\ visited \subseteq Addr
  /\ curr \in Addr
  /\ hopIndex \in 1 .. MaxHops + 1
  /\ pendingAlt \subseteq Addr
  /\ wish \in Wish
  /\ edgeType \in EdgeType

\* walker.py "Loop detected: already visited in path": no address stands in
\* the path twice, whatever the neighbors advertise, whichever alternates and
\* gateways are tried and however often the chain leads back.
NoAddressTwice == \A i, j \in 1 .. Len(hops) : hops[i].ip = hops[j].ip => i = j

\* The hop cards number the path: hop i is the i-th, alternates do not count,
\* and max_hops bounds the path.
HopsNumbered ==
  /\ \A i \in 1 .. Len(hops) : hops[i].index = i
  /\ Len(hops) <= MaxHops
  /\ pc = "walking" => hopIndex = Len(hops) + 1

\* What a hop gives as the way to the next one.
Offers(h) ==
  IF h.up = None THEN {} ELSE (h.up.ips \cup {h.up.ip}) \ {None}

GatewaysOf(h) == ({h.gateway} \cup req.gateways) \ {None}

\* A hop the walk leaves through a gateway: it found nothing above itself.
LeftByGateway(h) ==
  /\ h.up = None \/ h.up.ip = None
  /\ h.status \in {"root_reached", "no_upstream", "ok"}

\* After hop h an IPv6 address comes as a gateway only.
GatewayIfIPv6(h, a) == a \in V6 => LeftByGateway(h) /\ a \in GatewaysOf(h)

\* Status of a path: a failure, an edge device or a question to the user ends
\* it; a top (STP root, no upstream) is passed only by way of a gateway.
OnlyLastHopStops ==
  \A i \in 1 .. Len(hops) - 1 :
    /\ hops[i].status \in {"ok", "root_reached", "no_upstream"}
    /\ hops[i].status # "ok" => hops[i].up = None

\* The comment on pending_alt_ips: "Alternate addresses to probe for the
\* CURRENT next-hop device".  So each hop was named by the hop before it, as
\* its uplink neighbor or as its gateway.
ChainLinked ==
  \A i \in 1 .. Len(hops) - 1 :
    hops[i + 1].ip \in Offers(hops[i]) \cup GatewaysOf(hops[i])

\* What holds of the code: a hop that the hop before it did not name follows
\* a gateway that stopped answering, and an earlier hop advertised it.
HopsNamedByPath ==
  \A i \in 1 .. Len(hops) - 1 :
    \/ hops[i + 1].ip \in Offers(hops[i])
    \/ /\ LeftByGateway(hops[i])
       /\ \/ hops[i + 1].ip \in GatewaysOf(hops[i])
          \/ \E j \in 1 .. i - 1 : hops[i + 1].ip \in Offers(hops[j])

\* README, STP Root Direction Rule: "walks strictly along each switch's
\* spanning tree root port".  Without a forced request a switch with STP is
\* left by its root port or, where that leads nowhere, by a gateway.
DirectionRule ==
  req.wish = NoWish =>
    \A i \in 1 .. Len(hops) :
      LET h == hops[i]
      IN  h.stp /\ h.up # None => h.up.id = h.stpPort

\* README: "The walk terminates cleanly when reaching the STP root bridge".
\* A root that the switch below it points to with its root port is the top,
\* whatever other neighbors it lists.
RootFromBelowIsTop ==
  \A i \in 2 .. Len(hops) :
    LET h == hops[i]
        below == hops[i - 1]
    IN  /\ h.root /\ h.status \notin FailedStatus
        /\ below.stp /\ ~below.root /\ below.up # None
        /\ below.up.id = below.stpPort
        /\ h.ip \in Offers(below)
        => h.status # "root_claimed_but_uplinks_present"

\* The port the walk came in by is never the one it leaves by.
UplinkIsNotDownlink ==
  \A i \in 1 .. Len(hops) :
    hops[i].up # None /\ hops[i].down # None => hops[i].up.id # hops[i].down.id

\* walker.py says that "IPv6 is never a walk target".  What holds of the code: a
\* neighbor's IPv6 address is neither followed nor tried as an alternate, whatever
\* was left of the alternates of others.  Past the start of the walk an IPv6
\* address is queried only as a gateway of a hop that found nothing above itself.
IPv6OnlyByGateway ==
  /\ \A i \in 1 .. Len(hops) - 1 : GatewayIfIPv6(hops[i], hops[i + 1].ip)
  /\ pc = "walking" /\ hops # <<>> => GatewayIfIPv6(Last, curr)

\* walker.py: "Direct port_id match on target hop (deterministic
\* continuation)".  A request that names a hop selects a port of that hop.
ForcedOnTargetHop ==
  [][Wishing /\ ~Wishing' /\ req.hop # None => curr = req.hop]_vars

\* walker.py: "A manually forced/ARP-resolved IP (not in the advertised list)
\* is never overridden": the walk goes to it next.
ForcedAddressIsUsed ==
  [][ Wishing /\ ~Wishing' /\ wish.ip # None
      => LET h == hops'[Len(hops')]
         IN  \/ curr' = wish.ip
             \/ h.up # None /\ wish.ip \in h.up.ips ]_vars

\* The walk implements the path it promises to show: hops are added at the end,
\* none twice, none after the walk has returned.
Path == INSTANCE DiscoveryPath
          WITH path <- [i \in 1 .. Len(hops) |-> hops[i].ip], ended <- (pc = "done")

PathPromise == Path!Spec

\* A walk returns: no alternation of addresses, gateways and loops keeps it
\* querying for ever.
WalkReturns == <>(pc = "done")
====
