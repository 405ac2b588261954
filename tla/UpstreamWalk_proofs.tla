------------------------- MODULE UpstreamWalk_proofs -------------------------
(***************************************************************************)
(* Proofs about UpstreamWalk, for any network, any request and any bound.  *)
(* First what one reading can be taken for (the lemmas on views), then the *)
(* inductive invariant, then the theorems.                                 *)
(***************************************************************************)
EXTENDS UpstreamWalk, SequenceTheorems, TLAPS

-----------------------------------------------------------------------------
(* Addresses.                                                              *)

Blocked == V6 \cup LinkLocal

\* The first IPv4 address of a neighbor is one it advertised, and usable.
LEMMA PreferIpv4Picks ==
  ASSUME NEW S \in SUBSET Addr
  PROVE  /\ PreferIpv4(S) \in Walkable(S) \cup {None}
         /\ Walkable(S) # {} => PreferIpv4(S) \in Walkable(S)
         /\ PreferIpv4(S) \in Addr \cup {None}
         /\ PreferIpv4(S) \notin Blocked
BY WalkAssumption DEF PreferIpv4, Walkable, Blocked

\* Where there is a usable address, the on-link preference finds one.
LEMMA PreferOnlinkPicks ==
  ASSUME NEW S \in SUBSET Addr, NEW ctx, Walkable(S) # {}
  PROVE  PreferOnlinkIp(S, ctx) \in Walkable(S)
<1> DEFINE lan  == {a \in Walkable(S) : Lan[a] = Lan[ctx]}
           site == {a \in Walkable(S) : Site[a] = Site[ctx]}
<1>1. lan \in SUBSET Addr /\ site \in SUBSET Addr
  BY DEF Walkable
<1>2. Walkable(lan) = lan /\ Walkable(site) = site
  BY DEF Walkable
<1>3. lan # {} => PreferIpv4(lan) \in lan
  BY <1>1, <1>2, PreferIpv4Picks
<1>4. site # {} => PreferIpv4(site) \in site
  BY <1>1, <1>2, PreferIpv4Picks
<1>5. PreferIpv4(S) \in Walkable(S)
  BY PreferIpv4Picks
<1>6. lan \subseteq Walkable(S) /\ site \subseteq Walkable(S)
  OBVIOUS
<1>7. PreferOnlinkIp(S, ctx) = IF lan # {} THEN PreferIpv4(lan)
                               ELSE IF site # {} THEN PreferIpv4(site)
                               ELSE PreferIpv4(S)
  BY DEF PreferOnlinkIp
<1> HIDE DEF lan, site
<1> QED
  BY <1>3, <1>4, <1>5, <1>6, <1>7

\* The on-link preference replaces an address by a usable one of the same port.
LEMMA OnLinkPort ==
  ASSUME NEW p \in PortDiag, p.ip \notin Blocked
  PROVE  /\ OnLink(p) \in PortDiag
         /\ OnLink(p).id = p.id
         /\ OnLink(p).ips = p.ips
         /\ OnLink(p).ip \notin Blocked
         /\ p.ip # None => OnLink(p).ip \in Addr
<1> DEFINE ctx == IF PrevIp # None THEN PrevIp ELSE curr
<1>1. p = [id |-> p.id, name |-> p.name, mac |-> p.mac, ips |-> p.ips, ip |-> p.ip]
      /\ p.ips \in SUBSET Addr /\ p.ip \in Addr \cup {None}
  BY DEF PortDiag
<1>2. CASE p.ip \in p.ips /\ ~Singleton(p.ips)
  <2>1. Walkable(p.ips) # {}
    BY <1>1, <1>2 DEF Walkable, Blocked
  <2>2. PreferOnlinkIp(p.ips, ctx) \in Walkable(p.ips)
    BY <1>1, <2>1, PreferOnlinkPicks
  <2>3. PreferOnlinkIp(p.ips, ctx) \in Addr /\ PreferOnlinkIp(p.ips, ctx) \notin Blocked
    BY <1>1, <2>2 DEF Walkable, Blocked
  <2>4. OnLink(p) = [p EXCEPT !.ip = PreferOnlinkIp(p.ips, ctx)]
    BY <1>2 DEF OnLink
  <2> HIDE DEF ctx
  <2> QED
    BY <2>3, <2>4 DEF PortDiag
<1>3. CASE ~(p.ip \in p.ips /\ ~Singleton(p.ips))
  BY <1>1, <1>3 DEF OnLink
<1> QED
  BY <1>2, <1>3

-----------------------------------------------------------------------------
(* Ports of a reading.                                                     *)

\* The neighbor table of a reading gives well-formed ports, one per number,
\* whose address is usable.
LEMMA DiagsOfReading ==
  ASSUME NEW r \in Readings
  PROVE  /\ Diags(r) \subseteq PortDiag
         /\ \A p \in Diags(r) : p.ip \notin Blocked
         /\ \A p, q \in Diags(r) : p.id = q.id => p = q
         /\ r.stpPort \in Port => \E p \in Diags(r) : p.id = r.stpPort
         /\ None \notin Diags(r)
<1>1. r \in Reading /\ r.ports \subseteq Advert
  BY WalkAssumption DEF Reading
<1>2. \A p \in r.ports : /\ Diag(p) \in PortDiag
                         /\ Diag(p).ip \notin Blocked
                         /\ Diag(p).id = p.id
  <2> TAKE p \in r.ports
  <2>1. p \in Advert /\ p.ips \in SUBSET Addr
    BY <1>1 DEF Advert
  <2>2. PreferIpv4(p.ips) \in Addr \cup {None} /\ PreferIpv4(p.ips) \notin Blocked
    BY <2>1, PreferIpv4Picks
  <2> QED
    BY <2>1, <2>2 DEF Diag, PortDiag, Advert
<1>3. \A p, q \in r.ports : p.id = q.id => p = q
  BY WalkAssumption
<1>4. r.stpPort \in Port => \E p \in r.ports : p.id = r.stpPort
  BY WalkAssumption
<1>5. None \notin PortDiag
  BY WalkAssumption
<1> QED
  BY <1>2, <1>3, <1>4, <1>5 DEF Diags

\* The root port is one of the ports, the one STP names.
LEMMA RootPortOfReading ==
  ASSUME NEW r \in Readings
  PROVE  /\ RootPort(r) \in Diags(r) \cup {None}
         /\ RootPort(r) # None => RootPort(r).id = r.stpPort
BY DiagsOfReading DEF RootPort

\* A selected port is one of the ports; without a request none is selected.
LEMMA PicksOfReading ==
  ASSUME NEW r \in Readings, NEW cands \in SUBSET Diags(r)
  PROVE  /\ Picks(r, cands) \subseteq Diags(r) \cup {None}
         /\ ~Wishing => Picks(r, cands) = {None}
<1>1. ASSUME Wishing PROVE Picks(r, cands) \subseteq Diags(r) \cup {None}
  BY <1>1 DEF Picks, Singleton
<1> QED
  BY <1>1 DEF Picks

\* The candidates are ports other than the downlink, and where STP gives the
\* direction there are none.
LEMMA CandidatesOfReading ==
  ASSUME NEW r \in Readings, NEW down
  PROVE  /\ Candidates(r, down) \subseteq Diags(r)
         /\ down \notin Candidates(r, down)
         /\ StpPresent(r) /\ ~IsRoot(r) => Candidates(r, down) = {}
BY DEF Candidates

\* The downlink, where one is found, is a port other than the root port.
LEMMA DownlinkOfReading ==
  ASSUME NEW r \in Readings, NEW down \in DownlinkOptions(r)
  PROVE  /\ down \in Diags(r) \cup {None}
         /\ down # None => down # RootPort(r)
BY DiagsOfReading DEF DownlinkOptions

-----------------------------------------------------------------------------
(* What one reading is taken for.                                          *)

ViewType == [up : PortDiag \cup {None}, down : PortDiag \cup {None},
             cands : SUBSET PortDiag, picked : BOOLEAN]

\* The uplink of a view is a port with a usable address or none.  It is not
\* the downlink.  Without a request and with STP it is the root port.
LEMMA ViewOfReading ==
  ASSUME NEW r \in Readings, NEW v \in Views(r),
         wish \in Wish, wish.ip \notin Blocked
  PROVE  /\ v \in ViewType
         /\ v.up # None => v.up.ip \notin Blocked
         /\ v.up # None /\ v.down # None => v.up.id # v.down.id
         /\ ~Wishing => ~v.picked
         /\ ~Wishing /\ StpPresent(r) /\ v.up # None => v.up.id = r.stpPort
<1>0. PICK down \in DownlinkOptions(r) :
        v \in {View(r, down, pick) : pick \in Picks(r, Candidates(r, down))}
  BY DEF Views
<1>1. PICK pick \in Picks(r, Candidates(r, down)) : v = View(r, down, pick)
  BY <1>0
<1> DEFINE cands == Candidates(r, down)
           up == Uplink(r, cands, pick)
<1>2. v = [up |-> up, down |-> IF pick = down THEN None ELSE down,
           cands |-> IF Wishing THEN cands ELSE {OnLink(p) : p \in cands},
           picked |-> pick # None]
  BY <1>1 DEF View
<1>3. /\ cands \subseteq Diags(r)
      /\ down \notin cands
      /\ StpPresent(r) /\ ~IsRoot(r) => cands = {}
  BY CandidatesOfReading
<1>4. pick \in Diags(r) \cup {None} /\ (~Wishing => pick = None)
  BY <1>1, <1>3, PicksOfReading
<1>5. down \in Diags(r) \cup {None} /\ (down # None => down # RootPort(r))
  BY <1>1, DownlinkOfReading
<1>6. RootPort(r) \in Diags(r) \cup {None} /\ (RootPort(r) # None => RootPort(r).id = r.stpPort)
  BY RootPortOfReading
<1>7. /\ Diags(r) \subseteq PortDiag
      /\ \A p \in Diags(r) : p.ip \notin Blocked
      /\ \A p, q \in Diags(r) : p.id = q.id => p = q
      /\ None \notin Diags(r)
  BY DiagsOfReading
<1>8. wish.ip \in Addr \cup {None}
  BY DEF Wish
<1> HIDE DEF cands
<1>9. /\ up \in PortDiag \cup {None}
      /\ up # None => /\ up.ip \notin Blocked
                      /\ \E p \in Diags(r) : p.id = up.id /\ p # IF pick = down THEN None ELSE down
      /\ ~Wishing /\ StpPresent(r) /\ up # None => up.id = r.stpPort
  <2>1. CASE pick # None
    <3>1. up = [pick EXCEPT !.ip = IF wish.ip # None THEN wish.ip ELSE pick.ip]
      BY <2>1 DEF Uplink
    <3>2. pick \in PortDiag /\ pick.ip \notin Blocked
      BY <2>1, <1>4, <1>7
    <3>3. /\ up \in PortDiag /\ up.id = pick.id
          /\ up.ip = (IF wish.ip # None THEN wish.ip ELSE pick.ip)
      <4> HIDE DEF up
      <4> QED
        BY <3>1, <3>2, <1>8 DEF PortDiag
    <3>4. up.ip \notin Blocked
      BY <3>2, <3>3
    <3> HIDE DEF up
    <3> QED
      BY <2>1, <3>3, <3>4, <1>4
  <2>2. CASE pick = None /\ up \in cands
    <3>1. up = RootPort(r) \/ (~IsRoot(r) /\ ~Wishing)
      BY <2>2 DEF Uplink
    <3> HIDE DEF up
    <3> QED
      BY <2>2, <3>1, <1>3, <1>6, <1>7
  <2>3. CASE pick = None /\ up \notin cands
    <3>1. up = RootPort(r)
      BY <2>3 DEF Uplink, Singleton
    <3> HIDE DEF up
    <3> QED
      BY <2>3, <3>1, <1>5, <1>6, <1>7
  <2> HIDE DEF up
  <2> QED
    BY <2>1, <2>2, <2>3
<1>10. \A p \in cands : OnLink(p) \in PortDiag
  BY <1>3, <1>7, OnLinkPort
<1> HIDE DEF up
<1>11. v \in ViewType
  BY <1>2, <1>3, <1>5, <1>7, <1>9, <1>10 DEF ViewType
<1>12. v.up # None /\ v.down # None => v.up.id # v.down.id
  BY <1>2, <1>5, <1>7, <1>9
<1> QED
  BY <1>2, <1>4, <1>9, <1>11, <1>12

\* The hop of a view is well-formed, with the view's ports.
LEMMA HopOfView ==
  ASSUME NEW r \in Readings, NEW v \in ViewType, NEW status \in Status,
         hopIndex \in Nat, curr \in Addr
  PROVE  /\ HopOf(r, v, status) \in Hop
         /\ HopOf(r, v, status).index = hopIndex
         /\ HopOf(r, v, status).ip = curr
         /\ HopOf(r, v, status).status = status
         /\ HopOf(r, v, status).stp = StpPresent(r)
         /\ HopOf(r, v, status).stpPort = r.stpPort
         /\ HopOf(r, v, status).up = v.up
         /\ HopOf(r, v, status).down = v.down
         /\ HopOf(r, v, status).gateway = r.gateway
<1>1. r \in Reading
  BY WalkAssumption
<1>2. /\ r.name \in Name /\ r.stpPort \in Port \cup {0, None}
      /\ r.gateway \in Addr \cup {None}
  BY <1>1 DEF Reading
<1>3. StpPresent(r) \in BOOLEAN /\ IsRoot(r) \in BOOLEAN
  BY DEF StpPresent, IsRoot
<1>4. /\ v.up \in PortDiag \cup {None} /\ v.down \in PortDiag \cup {None}
      /\ v.cands \subseteq PortDiag
  BY DEF ViewType
<1> DEFINE cands == IF v.up = None THEN v.cands
                    ELSE IF Singleton(v.cands) THEN {}
                    ELSE {IF p.id = v.up.id THEN v.up ELSE p : p \in v.cands}
<1>5. cands \in SUBSET PortDiag
  BY <1>4
<1>6. HopOf(r, v, status) =
        [index |-> hopIndex, ip |-> curr, name |-> r.name, status |-> status,
         stp |-> StpPresent(r), root |-> IsRoot(r), stpPort |-> r.stpPort,
         up |-> v.up, down |-> v.down, cands |-> cands, gateway |-> r.gateway]
  BY DEF HopOf
<1> HIDE DEF cands
<1> QED
  BY <1>2, <1>3, <1>4, <1>5, <1>6 DEF Hop

-----------------------------------------------------------------------------
(* The inductive invariant.                                                *)

\* A hop the walk can leave.
Passed(h) ==
  /\ h.status \in {"ok", "root_reached", "no_upstream"}
  /\ h.status # "ok" => h.up = None

\* A hop whose ports obey the direction rule of this request.
WellDirected(h) ==
  /\ req.wish = NoWish /\ h.stp /\ h.up # None => h.up.id = h.stpPort
  /\ h.up # None /\ h.down # None => h.up.id # h.down.id

\* A request consumed stays consumed, and asks for no blocked address.
WishKept == wish.ip \notin Blocked /\ (req.wish = NoWish => wish = NoWish)

\* visited_ips holds every hop of the path, so an address it does not hold is
\* a new hop.
PathVisited == \A i \in 1 .. Len(hops) : hops[i].ip \in visited

\* The walk goes on only from hops it can leave.
PathPassed == \A i \in 1 .. Len(hops) : i < Len(hops) \/ pc = "walking" => Passed(hops[i])

PathDirected == \A i \in 1 .. Len(hops) : WellDirected(hops[i])

\* No IPv6 address of a neighbor is kept for later.
AlternatesIPv4 == pendingAlt \cap V6 = {}

IInv ==
  /\ TypeOK
  /\ AlternatesIPv4
  /\ WishKept
  /\ PathVisited
  /\ NoAddressTwice
  /\ HopsNumbered
  /\ PathPassed
  /\ PathDirected

\* The hop of this iteration.
NewHop(h) == h \in Hop /\ h.index = hopIndex /\ h.ip = curr /\ WellDirected(h)

\* A walk starts within the invariant.
LEMMA InitHolds == Init => IInv
<1> SUFFICES ASSUME Init PROVE IInv
  OBVIOUS
<1>1. req \in Request /\ req.wish.ip \notin V6 \cup LinkLocal
  BY RequestAssumption DEF Init
<1>2. req.start \in Addr /\ req.wish \in Wish
  BY <1>1 DEF Request
<1>3. wish \in Wish /\ wish.ip = req.wish.ip
  <2>1. CASE req.wish.cand # None /\ req.wish.port = None
    <3>1. req.wish.cand.id \in Port
      BY <2>1, <1>2 DEF Wish, PortDiag
    <3>2. wish = [req.wish EXCEPT !.port = req.wish.cand.id]
      BY <2>1 DEF Init
    <3> QED
      BY <1>2, <3>1, <3>2 DEF Wish
  <2>2. CASE ~(req.wish.cand # None /\ req.wish.port = None)
    BY <2>2, <1>2 DEF Init
  <2> QED
    BY <2>1, <2>2
<1>4. req.wish = NoWish => wish = NoWish
  BY DEF Init, NoWish
<1>5. hops = <<>> /\ Len(hops) = 0 /\ hops \in Seq(Hop)
  BY DEF Init
<1>6. TypeOK
  BY <1>2, <1>3, <1>5, WalkAssumption DEF Init, TypeOK, EdgeType
<1>7. AlternatesIPv4
  BY DEF Init, AlternatesIPv4
<1>8. WishKept
  BY <1>1, <1>3, <1>4 DEF WishKept, Blocked
<1>9. HopsNumbered
  BY <1>5, WalkAssumption DEF Init, HopsNumbered
<1> QED
  BY <1>5, <1>6, <1>7, <1>8, <1>9 DEF IInv, PathVisited, NoAddressTwice, PathPassed, PathDirected

\* A hop added for an address not visited yet leaves the path well-formed.
LEMMA AppendedHop ==
  ASSUME IInv, NEW h, NewHop(h), curr \notin visited,
         hops' = Append(hops, h), visited' = visited \cup {curr}, req' = req
  PROVE  /\ hops' \in Seq(Hop) /\ Len(hops') = Len(hops) + 1
         /\ \A i \in 1 .. Len(hops) : hops'[i] = hops[i]
         /\ hops'[Len(hops')] = h
         /\ PathVisited' /\ NoAddressTwice' /\ PathDirected'
<1>1. hops \in Seq(Hop) /\ Len(hops) \in Nat /\ h \in Hop /\ h.ip = curr
  BY DEF IInv, TypeOK, NewHop
<1>2. /\ hops' \in Seq(Hop) /\ Len(hops') = Len(hops) + 1
      /\ \A i \in 1 .. Len(hops) : hops'[i] = hops[i]
      /\ hops'[Len(hops) + 1] = h
  BY <1>1
<1>3. \A i \in 1 .. Len(hops') : i \in 1 .. Len(hops) \/ i = Len(hops) + 1
  BY <1>1, <1>2
<1>4. PathVisited'
  BY <1>1, <1>2, <1>3 DEF IInv, PathVisited
<1>5. NoAddressTwice'
  <2>1. \A i \in 1 .. Len(hops) : hops[i].ip \in visited
    BY DEF IInv, PathVisited
  <2>2. \A i, j \in 1 .. Len(hops) : hops[i].ip = hops[j].ip => i = j
    BY DEF IInv, NoAddressTwice
  <2>3. SUFFICES ASSUME NEW i \in 1 .. Len(hops'), NEW j \in 1 .. Len(hops'),
                        hops'[i].ip = hops'[j].ip
                 PROVE  i = j
    BY DEF NoAddressTwice
  <2> QED
    BY <1>1, <1>2, <1>3, <2>1, <2>2, <2>3
<1>6. PathDirected'
  <2>1. SUFFICES ASSUME NEW i \in 1 .. Len(hops') PROVE WellDirected(hops[i])'
    BY DEF PathDirected
  <2>2. WellDirected(h)
    BY DEF NewHop
  <2>3. i \in 1 .. Len(hops) => WellDirected(hops[i])
    BY DEF IInv, PathDirected
  <2> QED
    BY <1>2, <1>3, <2>2, <2>3 DEF WellDirected
<1> QED
  BY <1>1, <1>2, <1>4, <1>5, <1>6

\* An iteration that records its hop and stops.
LEMMA StopAtHop ==
  ASSUME IInv, Querying, NEW h, NewHop(h), NEW edge \in EdgeType, StopAt(h, edge),
         wish' \in {wish, NoWish}, pendingAlt' = pendingAlt
  PROVE  IInv'
<1>1. /\ hops' = Append(hops, h) /\ visited' = visited \cup {curr}
      /\ pc' = "done" /\ edgeType' = edge
      /\ req' = req /\ curr' = curr /\ hopIndex' = hopIndex
  BY DEF StopAt, Stop
<1>2. pc = "walking" /\ hopIndex <= MaxHops /\ curr \notin visited
  BY DEF Querying, Walking
<1>3. /\ hops' \in Seq(Hop) /\ Len(hops') = Len(hops) + 1
      /\ \A i \in 1 .. Len(hops) : hops'[i] = hops[i]
      /\ hops'[Len(hops')] = h
      /\ PathVisited' /\ NoAddressTwice' /\ PathDirected'
  BY <1>1, <1>2, AppendedHop
<1>4. Len(hops) \in Nat /\ hopIndex = Len(hops) + 1 /\ hopIndex \in 1 .. MaxHops + 1
      /\ MaxHops \in Nat
  BY <1>2, WalkAssumption DEF IInv, TypeOK, HopsNumbered
<1>5. NoWish \in Wish /\ NoWish.ip \notin Blocked
  BY WalkAssumption DEF NoWish, Wish, Blocked
<1>6. TypeOK'
  BY <1>1, <1>3, <1>5 DEF IInv, TypeOK
<1>7. AlternatesIPv4' /\ WishKept'
  BY <1>1, <1>5 DEF IInv, AlternatesIPv4, WishKept
<1>8. HopsNumbered'
  <2>1. h.index = Len(hops) + 1 /\ \A i \in 1 .. Len(hops) : hops[i].index = i
    BY <1>4 DEF NewHop, IInv, HopsNumbered
  <2> QED
    BY <1>1, <1>2, <1>3, <1>4, <2>1 DEF HopsNumbered
<1>9. PathPassed'
  <2>1. \A i \in 1 .. Len(hops) : Passed(hops[i])
    BY <1>2 DEF IInv, PathPassed
  <2> QED
    BY <1>1, <1>3, <1>4, <2>1 DEF PathPassed, Passed
<1> QED
  BY <1>3, <1>6, <1>7, <1>8, <1>9 DEF IInv

\* An iteration that records its hop and goes on to another address.
LEMMA GoOnFromHop ==
  ASSUME IInv, Querying, NEW h, NewHop(h), Passed(h), NEW a \in Addr,
         GoOn(h, a), wish' \in {wish, NoWish},
         pendingAlt' \subseteq Addr, pendingAlt' \cap V6 = {}
  PROVE  IInv'
<1>1. /\ hops' = Append(hops, h) /\ visited' = visited \cup {curr}
      /\ curr' = a /\ hopIndex' = hopIndex + 1
      /\ req' = req /\ pc' = pc /\ edgeType' = edgeType
  BY DEF GoOn
<1>2. pc = "walking" /\ hopIndex <= MaxHops /\ curr \notin visited
  BY DEF Querying, Walking
<1>3. /\ hops' \in Seq(Hop) /\ Len(hops') = Len(hops) + 1
      /\ \A i \in 1 .. Len(hops) : hops'[i] = hops[i]
      /\ hops'[Len(hops')] = h
      /\ PathVisited' /\ NoAddressTwice' /\ PathDirected'
  BY <1>1, <1>2, AppendedHop
<1>4. Len(hops) \in Nat /\ hopIndex = Len(hops) + 1 /\ hopIndex \in 1 .. MaxHops + 1
      /\ MaxHops \in Nat
  BY <1>2, WalkAssumption DEF IInv, TypeOK, HopsNumbered
<1>5. NoWish \in Wish /\ NoWish.ip \notin Blocked
  BY WalkAssumption DEF NoWish, Wish, Blocked
<1>6. TypeOK'
  BY <1>1, <1>2, <1>3, <1>4, <1>5 DEF IInv, TypeOK
<1>7. AlternatesIPv4' /\ WishKept'
  BY <1>1, <1>5 DEF IInv, AlternatesIPv4, WishKept
<1>8. HopsNumbered'
  <2>1. h.index = Len(hops) + 1 /\ \A i \in 1 .. Len(hops) : hops[i].index = i
    BY <1>4 DEF NewHop, IInv, HopsNumbered
  <2> QED
    BY <1>1, <1>2, <1>3, <1>4, <2>1 DEF HopsNumbered
<1>9. PathPassed'
  <2>1. \A i \in 1 .. Len(hops) : Passed(hops[i])
    BY <1>2 DEF IInv, PathPassed
  <2> QED
    BY <1>1, <1>3, <1>4, <2>1 DEF PathPassed, Passed
<1> QED
  BY <1>3, <1>6, <1>7, <1>8, <1>9 DEF IInv

-----------------------------------------------------------------------------
(* Every way an iteration can end preserves the invariant.                 *)

\* An iteration that records nothing.
LEMMA UnrecordedStep ==
  IInv /\ (Interrupted \/ LoopDetected \/ TryAlternate \/ UNCHANGED vars) => IInv'
<1> SUFFICES ASSUME IInv, Interrupted \/ LoopDetected \/ TryAlternate \/ UNCHANGED vars
             PROVE  IInv'
  OBVIOUS
<1>1. req' = req /\ hops' = hops /\ wish' = wish /\ hopIndex' = hopIndex
  BY DEF Interrupted, LoopDetected, TryAlternate, Stop, vars
<1>2. pc' \in {pc, "done"} /\ edgeType' \in {edgeType, "loop_detected"}
  BY DEF Interrupted, LoopDetected, TryAlternate, Stop, vars
<1>3. /\ visited \subseteq visited' /\ visited' \subseteq visited \cup {curr}
      /\ curr' \in {curr} \cup pendingAlt
      /\ pendingAlt' \subseteq pendingAlt
  BY DEF Interrupted, LoopDetected, TryAlternate, Stop, vars
<1>4. TypeOK'
  BY <1>1, <1>2, <1>3 DEF IInv, TypeOK, EdgeType
<1>5. AlternatesIPv4' /\ WishKept'
  BY <1>1, <1>3 DEF IInv, AlternatesIPv4, WishKept
<1>6. PathVisited' /\ NoAddressTwice' /\ PathDirected'
  BY <1>1, <1>3 DEF IInv, PathVisited, NoAddressTwice, PathDirected, WellDirected
<1>7. HopsNumbered'
  BY <1>1, <1>2 DEF IInv, HopsNumbered
<1>8. PathPassed'
  BY <1>1, <1>2 DEF IInv, PathPassed, Passed
<1> QED
  BY <1>4, <1>5, <1>6, <1>7, <1>8 DEF IInv

\* A query that fails for good: the failed hop ends the path.
LEMMA QueryFailsStep ==
  ASSUME IInv, NEW status \in FailedStatus, QueryFails(status)
  PROVE  IInv'
<1> DEFINE cands == IF hops = <<>> THEN {} ELSE Last.cands \cup ({Last.up} \ {None})
           up == IF hops # <<>> /\ Last.up # None THEN Last.up
                 ELSE IF cands # {} THEN CHOOSE p \in cands : TRUE ELSE None
           h == [index |-> hopIndex, ip |-> curr, name |-> None, status |-> status,
                 stp |-> FALSE, root |-> FALSE, stpPort |-> None, up |-> up,
                 down |-> None, cands |-> cands, gateway |-> None]
<1>1. Querying /\ StopAt(h, status) /\ UNCHANGED <<pendingAlt, wish>>
  BY DEF QueryFails
<1>2. hops # <<>> => Last \in Hop
  BY DEF IInv, TypeOK, Last
<1>3. cands \in SUBSET PortDiag
  BY <1>2 DEF Hop
<1>4. up \in PortDiag \cup {None}
  <2> HIDE DEF cands
  <2> QED
    BY <1>2, <1>3 DEF Hop
<1> HIDE DEF cands, up
<1>5. NewHop(h)
  BY <1>3, <1>4 DEF NewHop, WellDirected, Hop, Status, FailedStatus, IInv, TypeOK
<1>6. status \in EdgeType
  BY DEF EdgeType
<1> QED
  BY <1>1, <1>5, <1>6, StopAtHop

\* An edge device ends the path.
LEMMA EdgeReachedStep ==
  ASSUME IInv, NEW name \in Name, EdgeReached(name)
  PROVE  IInv'
<1> DEFINE h == [index |-> hopIndex, ip |-> curr, name |-> name,
                 status |-> "router_reached",
                 stp |-> FALSE, root |-> FALSE, stpPort |-> None, up |-> None,
                 down |-> None, cands |-> {}, gateway |-> None]
<1>1. Querying /\ StopAt(h, "edge") /\ UNCHANGED <<pendingAlt, wish>>
  BY DEF EdgeReached
<1>2. NewHop(h)
  BY DEF NewHop, WellDirected, Hop, Status, IInv, TypeOK
<1>3. "edge" \in EdgeType
  BY DEF EdgeType
<1> HIDE DEF h
<1> QED
  BY <1>1, <1>2, <1>3, StopAtHop

\* The hop of a switch is well directed: its view is, and the on-link and the
\* resolved address change neither the port nor its number.
LEMMA SwitchHop ==
  ASSUME IInv, NEW r \in Readings, NEW v \in Views(r), NEW up \in PortDiag \cup {None},
         up = None <=> v.up = None, v.up # None => up.id = v.up.id,
         NEW status \in Status
  PROVE  LET h == HopOf(r, [v EXCEPT !.up = up], status)
         IN  NewHop(h) /\ h.status = status /\ h.up = up /\ h.gateway = r.gateway
<1>1. wish \in Wish /\ wish.ip \notin Blocked
  BY DEF IInv, TypeOK, WishKept
<1>2. /\ v \in ViewType
      /\ v.up # None /\ v.down # None => v.up.id # v.down.id
      /\ ~Wishing /\ StpPresent(r) /\ v.up # None => v.up.id = r.stpPort
  BY <1>1, ViewOfReading
<1>3. req.wish = NoWish => ~Wishing
  BY DEF IInv, WishKept, Wishing, NoWish
<1> DEFINE w == [v EXCEPT !.up = up]
<1>4. w \in ViewType /\ w.up = up /\ w.down = v.down
  BY <1>2 DEF ViewType
<1> HIDE DEF w
<1>5. hopIndex \in Nat /\ curr \in Addr
  BY DEF IInv, TypeOK
<1> DEFINE h == HopOf(r, w, status)
<1>6. /\ h \in Hop /\ h.index = hopIndex /\ h.ip = curr /\ h.status = status
      /\ h.stp = StpPresent(r) /\ h.stpPort = r.stpPort /\ h.up = up /\ h.down = v.down
      /\ h.gateway = r.gateway
  BY <1>4, <1>5, HopOfView
<1> HIDE DEF h
<1>7. NewHop(h)
  BY <1>2, <1>3, <1>6 DEF NewHop, WellDirected
<1> QED
  BY <1>6, <1>7 DEF h, w

\* Following an uplink, advertised or resolved, leads to a usable address.
LEMMA FollowStep ==
  ASSUME IInv, NEW r \in Readings, NEW v \in Views(r), NEW up \in PortDiag,
         v.up # None, up.id = v.up.id, up.ip # None, up.ip \notin Blocked,
         Follow(r, v, up)
  PROVE  IInv'
<1> DEFINE h == HopOf(r, [v EXCEPT !.up = OnLink(up)], "ok")
           a == OnLink(up).ip
<1>1. /\ OnLink(up) \in PortDiag /\ OnLink(up).id = up.id
      /\ a \notin Blocked /\ a \in Addr
  BY OnLinkPort
<1>2. Querying /\ GoOn(h, a) /\ Consume(v)
      /\ pendingAlt' = up.ips \ (V6 \cup {a})
  BY DEF Follow
<1>3. NewHop(h) /\ h.status = "ok"
  <2>1. OnLink(up) # None
    BY <1>1, WalkAssumption
  <2> QED
    BY <1>1, <2>1, SwitchHop DEF Status
<1>4. Passed(h)
  BY <1>3 DEF Passed
<1>5. wish' \in {wish, NoWish}
  BY <1>2 DEF Consume
<1>6. pendingAlt' \subseteq Addr /\ pendingAlt' \cap V6 = {}
  BY <1>2 DEF PortDiag
<1> HIDE DEF h, a
<1> QED
  BY <1>1, <1>2, <1>3, <1>4, <1>5, <1>6, GoOnFromHop DEF Blocked

\* Whatever a switch answers, its hop is recorded and the path stays well-formed.
LEMMA SwitchAnswersStep ==
  ASSUME IInv, NEW r \in Readings, SwitchAnswers(r)
  PROVE  IInv'
<1>1. PICK v \in Views(r) :
        \/ RootDistrusted(r, v)
        \/ CandidatesAmbiguous(r, v)
        \/ GatewayAnswers(r, v)
        \/ TopReached(r, v)
        \/ FollowUplink(r, v)
        \/ FollowResolved(r, v)
        \/ UplinkHasNoAddress(r, v)
  BY DEF SwitchAnswers
<1>2. v \in ViewType /\ (v.up # None => v.up.ip \notin Blocked)
  BY ViewOfReading DEF IInv, TypeOK, WishKept
<1>3. [v EXCEPT !.up = v.up] = v /\ v.up \in PortDiag \cup {None} /\ v.cands \subseteq PortDiag
  BY <1>2 DEF ViewType
<1>4. \A status \in Status :
        LET h == HopOf(r, v, status) IN NewHop(h) /\ h.status = status /\ h.up = v.up
  BY <1>3, SwitchHop
<1>5. Consume(v) => wish' \in {wish, NoWish}
  BY DEF Consume
<1>6. CASE RootDistrusted(r, v)
  <2>1. "root_claimed_but_uplinks_present" \in Status \cap EdgeType
    BY DEF Status, EdgeType
  <2> QED
    BY <1>4, <1>5, <1>6, <2>1, StopAtHop DEF RootDistrusted
<1>7. CASE CandidatesAmbiguous(r, v)
  <2>1. "ambiguous" \in Status \cap EdgeType
    BY DEF Status, EdgeType
  <2> QED
    BY <1>4, <1>5, <1>7, <2>1, StopAtHop DEF CandidatesAmbiguous
<1>8. CASE GatewayAnswers(r, v)
  <2> DEFINE status == IF CleanRoot(r, v) THEN "root_reached"
                       ELSE IF NoUpstream(r, v) THEN "no_upstream" ELSE "ok"
             h == HopOf(r, v, status)
  <2>1. PICK g \in GatewayTargets(r) : GoOn(h, g)
    BY <1>8 DEF GatewayAnswers
  <2>2. Querying /\ pendingAlt' = pendingAlt /\ wish' \in {wish, NoWish}
    BY <1>5, <1>8 DEF GatewayAnswers, AtTop
  <2>3. g \in Addr
    <3>1. r.gateway \in Addr \cup {None}
      BY WalkAssumption DEF Reading
    <3>2. req.gateways \subseteq Addr
      BY RequestAssumption DEF IInv, TypeOK, Request
    <3> QED
      BY <3>1, <3>2 DEF GatewayTargets
  <2>4. status \in Status /\ (status # "ok" => v.up = None)
        /\ status \in {"ok", "root_reached", "no_upstream"}
    BY DEF Status, CleanRoot, NoUpstream
  <2> HIDE DEF status
  <2>5. NewHop(h) /\ h.status = status /\ h.up = v.up
    BY <1>4, <2>4
  <2>6. Passed(h)
    BY <2>4, <2>5 DEF Passed
  <2>7. pendingAlt' \subseteq Addr /\ pendingAlt' \cap V6 = {}
    BY <2>2 DEF IInv, TypeOK, AlternatesIPv4
  <2> HIDE DEF h
  <2> QED
    BY <2>1, <2>2, <2>3, <2>5, <2>6, <2>7, GoOnFromHop
<1>9. CASE TopReached(r, v)
  <2>1. /\ "root_reached" \in Status /\ "no_upstream" \in Status \cap EdgeType
        /\ "unreachable" \in Status \cap EdgeType /\ "stp_root" \in EdgeType
    BY DEF Status, EdgeType, FailedStatus
  <2>2. Querying /\ pendingAlt' = pendingAlt /\ wish' \in {wish, NoWish}
    BY <1>5, <1>9 DEF TopReached, AtTop
  <2>3. \/ StopAt(HopOf(r, v, "root_reached"), "stp_root")
        \/ StopAt(HopOf(r, v, "no_upstream"), "no_upstream")
        \/ StopAt(HopOf(r, v, "unreachable"), "unreachable")
    BY <1>9 DEF TopReached
  <2> QED
    BY <1>4, <2>1, <2>2, <2>3, StopAtHop
<1>10. CASE FollowUplink(r, v)
  BY <1>2, <1>3, <1>10, FollowStep DEF FollowUplink
<1>11. CASE FollowResolved(r, v)
  <2>1. PICK a \in Walkable(Addr) : Follow(r, v, [v.up EXCEPT !.ip = a])
    BY <1>11 DEF FollowResolved
  <2> DEFINE up == [v.up EXCEPT !.ip = a]
  <2>2. v.up # None /\ v.up \in PortDiag
    BY <1>3, <1>11 DEF FollowResolved
  <2>3. a \in Addr /\ a \notin Blocked /\ a # None
    BY WalkAssumption DEF Walkable, Blocked
  <2>4. up \in PortDiag /\ up.id = v.up.id /\ up.ip = a
    BY <2>2, <2>3 DEF PortDiag
  <2> HIDE DEF up
  <2>5. Follow(r, v, up)
    BY <2>1 DEF up
  <2> QED
    BY <2>2, <2>3, <2>4, <2>5, FollowStep
<1>12. CASE UplinkHasNoAddress(r, v)
  <2> DEFINE h == HopOf(r, v, "ambiguous")
             k == [h EXCEPT !.cands = v.cands \cup {v.up}]
  <2>1. "ambiguous" \in Status \cap EdgeType
    BY DEF Status, EdgeType
  <2>2. NewHop(h)
    BY <1>4, <2>1
  <2>3. v.cands \cup {v.up} \in SUBSET PortDiag
    BY <1>3, <1>12 DEF UplinkHasNoAddress
  <2> HIDE DEF h
  <2>4. NewHop(k)
    BY <2>2, <2>3 DEF NewHop, WellDirected, Hop
  <2>5. Querying /\ StopAt(k, "ambiguous") /\ pendingAlt' = pendingAlt
        /\ wish' \in {wish, NoWish}
    BY <1>5, <1>12 DEF UplinkHasNoAddress, h
  <2> HIDE DEF k
  <2> QED
    BY <2>1, <2>4, <2>5, StopAtHop
<1> QED
  BY <1>1, <1>6, <1>7, <1>8, <1>9, <1>10, <1>11, <1>12

\* Every step keeps the invariant.
LEMMA NextPreserves == IInv /\ [Next]_vars => IInv'
<1> SUFFICES ASSUME IInv, [Next]_vars PROVE IInv'
  OBVIOUS
<1>1. CASE Interrupted \/ LoopDetected \/ TryAlternate \/ UNCHANGED vars
  BY <1>1, UnrecordedStep
<1>2. CASE \E status \in FailedStatus : QueryFails(status)
  BY <1>2, QueryFailsStep
<1>3. CASE \E name \in Name : EdgeReached(name)
  BY <1>3, EdgeReachedStep
<1>4. CASE \E r \in Readings : SwitchAnswers(r)
  BY <1>4, SwitchAnswersStep
<1>5. CASE Returned
  BY <1>5, UnrecordedStep DEF Returned
<1> QED
  BY <1>1, <1>2, <1>3, <1>4, <1>5 DEF Next

-----------------------------------------------------------------------------
(* Theorems.                                                               *)

\* The invariant holds throughout every walk.
LEMMA Invariant == Spec => []IInv
<1>1. Init => IInv
  BY InitHolds
<1>2. IInv /\ [Next]_vars => IInv'
  BY NextPreserves
<1> QED
  BY <1>1, <1>2, PTL DEF Spec

\* No action takes a variable out of its type; a neighbor with addresses, a
\* gateway and a resolved neighbor always give an address to query next.
THEOREM TypeCorrect == Spec => []TypeOK
<1>1. IInv => TypeOK
  BY DEF IInv
<1> QED
  BY <1>1, Invariant, PTL

\* The loop rule: whatever the network answers, no device address stands in the
\* path twice.
THEOREM NoLoopInPath == Spec => []NoAddressTwice
<1>1. IInv => NoAddressTwice
  BY DEF IInv
<1> QED
  BY <1>1, Invariant, PTL

\* Hops are numbered from 1 without a gap, and max_hops bounds them.
THEOREM PathNumbered == Spec => []HopsNumbered
<1>1. IInv => HopsNumbered
  BY DEF IInv
<1> QED
  BY <1>1, Invariant, PTL

\* Only the last hop of a path is a failure, an edge device or a question.
THEOREM StopsAtEnd == Spec => []OnlyLastHopStops
<1>1. IInv => OnlyLastHopStops
  <2> SUFFICES ASSUME IInv, NEW i \in 1 .. Len(hops) - 1
               PROVE  /\ hops[i].status \in {"ok", "root_reached", "no_upstream"}
                      /\ hops[i].status # "ok" => hops[i].up = None
    BY DEF OnlyLastHopStops
  <2>1. Len(hops) \in Nat
    BY DEF IInv, TypeOK
  <2>2. i \in 1 .. Len(hops) /\ i < Len(hops)
    BY <2>1
  <2> QED
    BY <2>2 DEF IInv, PathPassed, Passed
<1> QED
  BY <1>1, Invariant, PTL

\* Without a forced request a switch with STP is left by its root port only.
THEOREM FollowsRootPorts == Spec => []DirectionRule
<1>1. IInv => DirectionRule
  BY DEF IInv, PathDirected, WellDirected, DirectionRule
<1> QED
  BY <1>1, Invariant, PTL

\* No switch is left by the port it was reached by.
THEOREM NeverBackDown == Spec => []UplinkIsNotDownlink
<1>1. IInv => UplinkIsNotDownlink
  BY DEF IInv, PathDirected, WellDirected, UplinkIsNotDownlink
<1> QED
  BY <1>1, Invariant, PTL

-----------------------------------------------------------------------------
(* The walk implements DiscoveryPath.                                      *)

\* What an action of the walk does to the path.
LEMMA PathStep ==
  ASSUME IInv, Next
  PROVE  \/ hops' = hops /\ (pc' = pc \/ (pc = "walking" /\ pc' = "done"))
         \/ /\ Querying /\ pc' \in {"walking", "done"}
            /\ \E h : h.ip = curr /\ hops' = Append(hops, h)
<1>1. pc \in {"walking", "done"} /\ (Querying => pc = "walking")
  BY DEF IInv, TypeOK, Querying, Walking
<1>2. CASE Interrupted \/ LoopDetected \/ TryAlternate \/ Returned
  BY <1>1, <1>2 DEF Interrupted, LoopDetected, TryAlternate, Returned, Stop, Walking, vars
<1>3. CASE \E status \in FailedStatus : QueryFails(status)
  BY <1>3 DEF QueryFails, StopAt, Stop
<1>4. CASE \E name \in Name : EdgeReached(name)
  BY <1>4 DEF EdgeReached, StopAt, Stop
<1>5. CASE \E r \in Readings : SwitchAnswers(r)
  <2>1. PICK r \in Readings : SwitchAnswers(r)
    BY <1>5
  <2>2. PICK v \in Views(r) :
          \/ RootDistrusted(r, v)
          \/ CandidatesAmbiguous(r, v)
          \/ GatewayAnswers(r, v)
          \/ TopReached(r, v)
          \/ FollowUplink(r, v)
          \/ FollowResolved(r, v)
          \/ UplinkHasNoAddress(r, v)
    BY <2>1 DEF SwitchAnswers
  <2>3. \A status, w : HopOf(r, w, status).ip = curr
    BY DEF HopOf
  <2>4. \A h, edge : StopAt(h, edge) => hops' = Append(hops, h) /\ pc' = "done"
    BY DEF StopAt, Stop
  <2>5. \A h, a : GoOn(h, a) => hops' = Append(hops, h) /\ pc' = pc
    BY DEF GoOn
  <2>6. CASE RootDistrusted(r, v) \/ CandidatesAmbiguous(r, v)
    BY <2>3, <2>4, <2>6 DEF RootDistrusted, CandidatesAmbiguous
  <2>7. CASE GatewayAnswers(r, v)
    BY <1>1, <2>3, <2>5, <2>7 DEF GatewayAnswers, AtTop
  <2>8. CASE TopReached(r, v)
    BY <2>3, <2>4, <2>8 DEF TopReached, AtTop
  <2>9. \A up : Follow(r, v, up) =>
          /\ Querying /\ pc' = pc
          /\ \E h : h.ip = curr /\ hops' = Append(hops, h)
    BY <2>3, <2>5 DEF Follow
  <2>10. CASE FollowUplink(r, v) \/ FollowResolved(r, v)
    BY <1>1, <2>9, <2>10 DEF FollowUplink, FollowResolved
  <2>11. CASE UplinkHasNoAddress(r, v)
    <3> DEFINE h == [HopOf(r, v, "ambiguous") EXCEPT !.cands = v.cands \cup {v.up}]
    <3>1. Querying /\ StopAt(h, "ambiguous")
      BY <2>11 DEF UplinkHasNoAddress
    <3>2. h.ip = curr
      BY DEF HopOf
    <3> HIDE DEF h
    <3> QED
      BY <2>4, <3>1, <3>2
  <2> QED
    BY <2>2, <2>6, <2>7, <2>8, <2>10, <2>11
<1> QED
  BY <1>2, <1>3, <1>4, <1>5 DEF Next

\* A sequence with an element appended, as a function.
LEMMA AppendAsFunction ==
  ASSUME NEW S, NEW s \in Seq(S), NEW e \in S
  PROVE  Append(s, e) =
           [i \in 1 .. Len(s) + 1 |-> IF i = Len(s) + 1 THEN e ELSE s[i]]
<1>1. /\ Append(s, e) \in Seq(S) /\ Len(Append(s, e)) = Len(s) + 1
      /\ \A i \in 1 .. Len(s) + 1 : Append(s, e)[i] = IF i = Len(s) + 1 THEN e ELSE s[i]
  OBVIOUS
<1> DEFINE f == [i \in 1 .. Len(s) + 1 |-> IF i = Len(s) + 1 THEN e ELSE s[i]]
<1>2. f \in Seq(S) /\ Len(f) = Len(s) + 1
  OBVIOUS
<1>3. \A i \in 1 .. Len(s) + 1 : f[i] = Append(s, e)[i]
  BY <1>1
<1> HIDE DEF f
<1>4. f = Append(s, e)
  BY <1>1, <1>2, <1>3, SeqEqual
<1> QED
  BY <1>4 DEF f

\* The addresses of the path, as DiscoveryPath sees them.
Addresses == [i \in 1 .. Len(hops) |-> hops[i].ip]

\* A step of the walk is a step of DiscoveryPath or leaves the path alone.
LEMMA PathStepRefines ==
  ASSUME IInv, IInv', [Next]_vars
  PROVE  [Path!Next]_(Path!pathVars)
<1>1. hops \in Seq(Hop) /\ Len(hops) \in Nat /\ pc \in {"walking", "done"}
  BY DEF IInv, TypeOK
<1>2. CASE UNCHANGED vars
  BY <1>2 DEF vars, Path!pathVars
<1>3. CASE hops' = hops /\ (pc' = pc \/ (pc = "walking" /\ pc' = "done"))
  <2>1. CASE pc' = pc
    BY <1>3, <2>1 DEF Path!pathVars
  <2>2. CASE pc = "walking" /\ pc' = "done"
    <3>1. Path!End
      BY <1>3, <2>2 DEF Path!End
    <3> QED
      BY <3>1 DEF Path!Next
  <2> QED
    BY <1>3, <2>1, <2>2
<1>4. CASE /\ Querying /\ pc' \in {"walking", "done"}
           /\ \E h : h.ip = curr /\ hops' = Append(hops, h)
  <2>1. PICK h : h.ip = curr /\ hops' = Append(hops, h)
    BY <1>4
  <2>2. /\ pc = "walking" /\ curr \notin visited /\ hopIndex <= MaxHops
        /\ hopIndex = Len(hops) + 1 /\ hopIndex \in Nat /\ MaxHops \in Nat /\ curr \in Addr
    BY <1>4, WalkAssumption DEF Querying, Walking, IInv, TypeOK, HopsNumbered
  <2>3. Len(hops) < MaxHops
    BY <1>1, <2>2
  <2>4. \A i \in 1 .. Len(hops) : hops[i].ip # curr
    BY <2>2 DEF IInv, PathVisited
  <2>5. /\ Len(hops') = Len(hops) + 1
        /\ \A i \in 1 .. Len(hops) : hops'[i] = hops[i]
        /\ hops'[Len(hops) + 1].ip = curr
    BY <1>1, <2>1
  <2>6. Addresses \in Seq(Addr) /\ Len(Addresses) = Len(hops)
    <3>1. \A i \in 1 .. Len(hops) : hops[i].ip \in Addr
      <4>1. \A i \in 1 .. Len(hops) : hops[i] \in Hop
        BY <1>1
      <4> QED
        BY <4>1 DEF Hop
    <3> QED
      BY <1>1, <3>1 DEF Addresses
  <2>7. Addresses' = Append(Addresses, curr)
    <3>1. Addresses' = [i \in 1 .. Len(hops) + 1 |-> IF i = Len(hops) + 1 THEN curr ELSE Addresses[i]]
      BY <1>1, <2>5 DEF Addresses
    <3>2. Append(Addresses, curr) = [i \in 1 .. Len(hops) + 1 |-> IF i = Len(hops) + 1 THEN curr ELSE Addresses[i]]
      BY <2>6, <2>2, AppendAsFunction
    <3> QED
      BY <3>1, <3>2
  <2>8. PICK a \in Addr : a = curr
    BY <2>2
  <2>9. Path!Extend(a)
    BY <1>4, <2>2, <2>3, <2>4, <2>6, <2>7, <2>8 DEF Path!Extend, Addresses
  <2> QED
    BY <2>9 DEF Path!Next
<1>5. Next \/ UNCHANGED vars
  OBVIOUS
<1>6. CASE Next
  BY <1>3, <1>4, <1>6, PathStep
<1> QED
  BY <1>2, <1>5, <1>6

\* The walk keeps the promise of DiscoveryPath: every step adds one new hop at
\* the end of an open path, closes it, or leaves it alone.
THEOREM WalkImplementsPath == Spec => PathPromise
<1>1. Init => Path!Init
  BY DEF Init, Path!Init
<1>2. IInv /\ IInv' /\ [Next]_vars => [Path!Next]_(Path!pathVars)
  BY PathStepRefines
<1> QED
  BY <1>1, <1>2, Invariant, PTL DEF Spec, PathPromise, Path!Spec

-----------------------------------------------------------------------------
(* Where the hops come from.                                               *)

\* What may follow hop i: an address it offers or, where it is left by way of
\* a gateway, a gateway or an address some earlier hop offered.
Named(i, a) ==
  \/ a \in Offers(hops[i])
  \/ /\ LeftByGateway(hops[i])
     /\ \/ a \in GatewaysOf(hops[i])
        \/ \E j \in 1 .. i - 1 : a \in Offers(hops[j])

\* An alternate address was offered by the last hop; or by an earlier one, and
\* the last hop was left by way of a gateway, which keeps pending_alt_ips.
Advertised(a) ==
  \E j \in 1 .. Len(hops) :
    /\ a \in Offers(hops[j])
    /\ j = Len(hops) \/ LeftByGateway(hops[Len(hops)])

\* The IPv6 rule, for the hops of the path.
HopsByGateway == \A i \in 1 .. Len(hops) - 1 : GatewayIfIPv6(hops[i], hops[i + 1].ip)

NamedInv ==
  /\ HopsNamedByPath
  /\ IPv6OnlyByGateway
  /\ pc = "walking" /\ hops # <<>> => Named(Len(hops), curr)
  /\ pc = "walking" => \A a \in pendingAlt : Advertised(a)

\* The address of this iteration becomes the next hop.
LEMMA NamedHop ==
  ASSUME IInv, NamedInv, Querying, NEW h, h \in Hop, h.ip = curr,
         hops' = Append(hops, h), req' = req
  PROVE  /\ HopsNamedByPath' /\ HopsByGateway'
         /\ hops' # <<>> /\ Len(hops') = Len(hops) + 1 /\ Len(hops) \in Nat
         /\ hops'[Len(hops')] = h
         /\ \A i \in 1 .. Len(hops) : hops'[i] = hops[i]
<1>1. hops \in Seq(Hop) /\ Len(hops) \in Nat /\ pc = "walking"
  BY DEF IInv, TypeOK, Querying, Walking
<1>2. /\ hops' # <<>> /\ Len(hops') = Len(hops) + 1
      /\ hops'[Len(hops')] = h
      /\ \A i \in 1 .. Len(hops) : hops'[i] = hops[i]
  BY <1>1
<1>3. \A i \in 1 .. Len(hops) : hops # <<>>
  BY <1>1
<1>4. ASSUME NEW i \in 1 .. Len(hops') - 1
      PROVE  \/ hops'[i + 1].ip \in Offers(hops'[i])
             \/ /\ LeftByGateway(hops'[i])
                /\ \/ hops'[i + 1].ip \in GatewaysOf(hops'[i])
                   \/ \E j \in 1 .. i - 1 : hops'[i + 1].ip \in Offers(hops'[j])
  <2>1. i \in 1 .. Len(hops) /\ (\A j \in 1 .. i - 1 : j \in 1 .. Len(hops))
    BY <1>1, <1>2
  <2>2. CASE i = Len(hops)
    <3>1. Named(i, curr)
      BY <1>1, <1>3, <2>1, <2>2 DEF NamedInv
    <3>2. hops'[i + 1].ip = curr
      BY <1>2, <2>2
    <3> QED
      BY <1>2, <2>1, <3>1, <3>2 DEF Named
  <2>3. CASE i # Len(hops)
    <3>1. i \in 1 .. Len(hops) - 1 /\ i + 1 \in 1 .. Len(hops)
      BY <1>1, <2>1, <2>3
    <3>2. \/ hops[i + 1].ip \in Offers(hops[i])
          \/ /\ LeftByGateway(hops[i])
             /\ \/ hops[i + 1].ip \in GatewaysOf(hops[i])
                \/ \E j \in 1 .. i - 1 : hops[i + 1].ip \in Offers(hops[j])
      BY <3>1 DEF NamedInv, HopsNamedByPath
    <3> QED
      BY <1>2, <2>1, <3>1, <3>2
  <2> QED
    BY <2>2, <2>3
<1>5. HopsNamedByPath'
  BY <1>4 DEF HopsNamedByPath, GatewaysOf
<1>6. ASSUME NEW i \in 1 .. Len(hops') - 1
      PROVE  GatewayIfIPv6(hops'[i], hops'[i + 1].ip)
  <2>1. i \in 1 .. Len(hops)
    BY <1>1, <1>2
  <2>2. CASE i = Len(hops)
    <3>1. GatewayIfIPv6(hops[i], curr)
      BY <1>1, <1>3, <2>1, <2>2 DEF NamedInv, IPv6OnlyByGateway, Last
    <3>2. hops'[i + 1].ip = curr /\ hops'[i] = hops[i]
      BY <1>2, <2>1, <2>2
    <3> QED
      BY <3>1, <3>2
  <2>3. CASE i # Len(hops)
    <3>1. i \in 1 .. Len(hops) - 1 /\ i + 1 \in 1 .. Len(hops)
      BY <1>1, <2>1, <2>3
    <3>2. GatewayIfIPv6(hops[i], hops[i + 1].ip)
      BY <3>1 DEF NamedInv, IPv6OnlyByGateway
    <3> QED
      BY <1>2, <2>1, <3>1, <3>2
  <2> QED
    BY <2>2, <2>3
<1>7. HopsByGateway'
  BY <1>6 DEF HopsByGateway, GatewayIfIPv6, GatewaysOf
<1> QED
  BY <1>1, <1>2, <1>5, <1>7

\* The walk stops: its last hop was named by the path.
LEMMA NamedStop ==
  ASSUME IInv, NamedInv, Querying, NEW h, NewHop(h), NEW edge, StopAt(h, edge)
  PROVE  NamedInv'
<1>1. hops' = Append(hops, h) /\ req' = req /\ pc' = "done" /\ h \in Hop /\ h.ip = curr
  BY DEF StopAt, Stop, NewHop
<1>2. HopsNamedByPath' /\ HopsByGateway'
  BY <1>1, NamedHop
<1>3. IPv6OnlyByGateway'
  BY <1>1, <1>2 DEF IPv6OnlyByGateway, HopsByGateway
<1> QED
  BY <1>1, <1>2, <1>3 DEF NamedInv

\* The walk goes on, to an address its hop offers or to a gateway.
LEMMA NamedGoOn ==
  ASSUME IInv, NamedInv, Querying, NEW h, NewHop(h), NEW b, GoOn(h, b),
         \/ b \in Offers(h) /\ b \notin V6 /\ pendingAlt' \subseteq Offers(h)
         \/ LeftByGateway(h) /\ b \in GatewaysOf(h) /\ pendingAlt' = pendingAlt
  PROVE  NamedInv'
<1>1. /\ hops' = Append(hops, h) /\ req' = req /\ pc' = pc /\ curr' = b
      /\ h \in Hop /\ h.ip = curr /\ pc = "walking"
  BY DEF GoOn, NewHop, Querying, Walking
<1>2. /\ HopsNamedByPath' /\ HopsByGateway'
      /\ hops' # <<>> /\ Len(hops') = Len(hops) + 1 /\ Len(hops) \in Nat
      /\ hops'[Len(hops')] = h
      /\ \A i \in 1 .. Len(hops) : hops'[i] = hops[i]
  BY <1>1, NamedHop
<1>3. Named(Len(hops), curr)'
  BY <1>1, <1>2 DEF Named, GatewaysOf
<1>4. ASSUME NEW a \in pendingAlt' PROVE Advertised(a)'
  <2>1. CASE a \in Offers(h)
    <3>1. Len(hops') \in 1 .. Len(hops')
      BY <1>2
    <3> QED
      BY <1>2, <2>1, <3>1 DEF Advertised
  <2>2. CASE LeftByGateway(h) /\ pendingAlt' = pendingAlt
    <3>1. PICK j \in 1 .. Len(hops) : a \in Offers(hops[j])
      BY <1>1, <2>2 DEF NamedInv, Advertised
    <3>2. j \in 1 .. Len(hops') /\ hops'[j] = hops[j]
      BY <1>2
    <3> QED
      BY <1>2, <2>2, <3>1, <3>2 DEF Advertised
  <2> QED
    BY <2>1, <2>2
<1>5. IPv6OnlyByGateway'
  <2>1. GatewayIfIPv6(h, b)
    BY DEF GatewayIfIPv6
  <2>2. GatewayIfIPv6(Last, curr)'
    BY <1>1, <1>2, <2>1 DEF GatewayIfIPv6, GatewaysOf, LeftByGateway, Last
  <2> QED
    BY <1>2, <2>2 DEF IPv6OnlyByGateway, HopsByGateway
<1> QED
  BY <1>1, <1>2, <1>3, <1>4, <1>5 DEF NamedInv

\* An alternate address that is tried instead was named too.
LEMMA NamedUnrecorded ==
  ASSUME IInv, NamedInv, Interrupted \/ LoopDetected \/ TryAlternate \/ UNCHANGED vars
  PROVE  NamedInv'
<1>1. hops' = hops /\ req' = req
  BY DEF Interrupted, LoopDetected, TryAlternate, Stop, vars
<1>2. HopsNamedByPath'
  BY <1>1 DEF NamedInv, HopsNamedByPath, GatewaysOf
<1>3. IPv6OnlyByGateway'
  <2>1. \/ curr' = curr /\ (pc' = "walking" => pc = "walking")
        \/ curr' \in pendingAlt
    BY DEF Interrupted, LoopDetected, TryAlternate, Stop, vars
  <2>2. curr' \in pendingAlt => curr' \notin V6
    BY DEF IInv, AlternatesIPv4
  <2>3. HopsByGateway'
    BY <1>1 DEF NamedInv, IPv6OnlyByGateway, HopsByGateway, GatewayIfIPv6, LeftByGateway, GatewaysOf
  <2>4. pc' = "walking" /\ hops' # <<>> => GatewayIfIPv6(Last, curr)'
    BY <1>1, <2>1, <2>2
       DEF NamedInv, IPv6OnlyByGateway, GatewayIfIPv6, LeftByGateway, GatewaysOf, Last
  <2> QED
    BY <2>3, <2>4 DEF IPv6OnlyByGateway, HopsByGateway
<1>4. CASE Interrupted \/ LoopDetected
  BY <1>2, <1>3, <1>4 DEF Interrupted, LoopDetected, Stop, NamedInv
<1>5. CASE UNCHANGED vars
  BY <1>1, <1>2, <1>3, <1>5 DEF vars, NamedInv, Named, Advertised, GatewaysOf
<1>6. CASE TryAlternate
  <2>1. pc = "walking" /\ curr' \in pendingAlt /\ pendingAlt' \subseteq pendingAlt
    BY <1>6 DEF TryAlternate, Querying, Walking
  <2>2. \A a \in pendingAlt : Advertised(a)
    BY <2>1 DEF NamedInv
  <2>3. Named(Len(hops), curr')
    <3>1. Len(hops) \in Nat
      BY DEF IInv, TypeOK
    <3>2. PICK j \in 1 .. Len(hops) : /\ curr' \in Offers(hops[j])
                                      /\ j = Len(hops) \/ LeftByGateway(hops[Len(hops)])
      BY <2>1, <2>2 DEF Advertised
    <3>3. j = Len(hops) \/ j \in 1 .. Len(hops) - 1
      BY <3>1
    <3> QED
      BY <3>2, <3>3 DEF Named
  <2>4. Named(Len(hops), curr)'
    BY <1>1, <2>3 DEF Named, GatewaysOf
  <2>5. \A a \in pendingAlt' : Advertised(a)'
    BY <1>1, <2>1, <2>2 DEF Advertised
  <2> QED
    BY <1>2, <1>3, <2>4, <2>5 DEF NamedInv
<1> QED
  BY <1>4, <1>5, <1>6

\* Following an uplink goes to an address the hop offers.
LEMMA NamedFollow ==
  ASSUME IInv, NamedInv, NEW r \in Readings, NEW v \in Views(r), NEW up \in PortDiag,
         v.up # None, up.id = v.up.id, up.ip # None, up.ip \notin Blocked,
         Follow(r, v, up)
  PROVE  NamedInv'
<1> DEFINE h == HopOf(r, [v EXCEPT !.up = OnLink(up)], "ok")
           a == OnLink(up).ip
<1>1. /\ OnLink(up) \in PortDiag /\ OnLink(up).id = up.id /\ OnLink(up).ips = up.ips
      /\ a \in Addr /\ a \notin V6
  BY OnLinkPort DEF Blocked
<1>2. Querying /\ GoOn(h, a) /\ pendingAlt' = up.ips \ (V6 \cup {a})
  BY DEF Follow
<1>3. OnLink(up) # None
  BY <1>1, WalkAssumption
<1>4. NewHop(h) /\ h.up = OnLink(up)
  BY <1>1, <1>3, SwitchHop DEF Status
<1>5. up.ips \subseteq Addr
  BY DEF PortDiag
<1> HIDE DEF h
<1>6. a \in Offers(h) /\ a \notin V6 /\ pendingAlt' \subseteq Offers(h)
  BY <1>1, <1>2, <1>3, <1>4, <1>5, WalkAssumption DEF Offers
<1> HIDE DEF a
<1> QED
  BY <1>2, <1>4, <1>6, NamedGoOn

\* Whatever a switch answers, the next address is named by the path.
LEMMA NamedSwitch ==
  ASSUME IInv, NamedInv, NEW r \in Readings, SwitchAnswers(r)
  PROVE  NamedInv'
<1>1. PICK v \in Views(r) :
        \/ RootDistrusted(r, v)
        \/ CandidatesAmbiguous(r, v)
        \/ GatewayAnswers(r, v)
        \/ TopReached(r, v)
        \/ FollowUplink(r, v)
        \/ FollowResolved(r, v)
        \/ UplinkHasNoAddress(r, v)
  BY DEF SwitchAnswers
<1>2. v \in ViewType /\ (v.up # None => v.up.ip \notin Blocked)
  BY ViewOfReading DEF IInv, TypeOK, WishKept
<1>3. [v EXCEPT !.up = v.up] = v /\ v.up \in PortDiag \cup {None} /\ v.cands \subseteq PortDiag
  BY <1>2 DEF ViewType
<1>4. \A status \in Status :
        LET h == HopOf(r, v, status)
        IN  NewHop(h) /\ h.status = status /\ h.up = v.up /\ h.gateway = r.gateway
  BY <1>3, SwitchHop
<1>5. CASE RootDistrusted(r, v) \/ CandidatesAmbiguous(r, v) \/ TopReached(r, v)
  <2>1. /\ "root_claimed_but_uplinks_present" \in Status /\ "ambiguous" \in Status
        /\ "root_reached" \in Status /\ "no_upstream" \in Status /\ "unreachable" \in Status
    BY DEF Status, FailedStatus
  <2>2. PICK status \in Status, edge \in EdgeType : StopAt(HopOf(r, v, status), edge)
    BY <1>5, <2>1
       DEF RootDistrusted, CandidatesAmbiguous, TopReached, EdgeType, FailedStatus
  <2>3. Querying
    BY <1>5 DEF RootDistrusted, CandidatesAmbiguous, TopReached, AtTop
  <2> QED
    BY <1>4, <2>2, <2>3, NamedStop
<1>6. CASE GatewayAnswers(r, v)
  <2> DEFINE status == IF CleanRoot(r, v) THEN "root_reached"
                       ELSE IF NoUpstream(r, v) THEN "no_upstream" ELSE "ok"
             h == HopOf(r, v, status)
  <2>1. PICK g \in GatewayTargets(r) : GoOn(h, g)
    BY <1>6 DEF GatewayAnswers
  <2>2. Querying /\ pendingAlt' = pendingAlt /\ (v.up = None \/ v.up.ip = None)
    BY <1>6 DEF GatewayAnswers, AtTop, CleanRoot, NoUpstream, BareRootPort
  <2>3. status \in Status /\ status \in {"ok", "root_reached", "no_upstream"}
    BY DEF Status
  <2> HIDE DEF status
  <2>4. NewHop(h) /\ h.status = status /\ h.up = v.up /\ h.gateway = r.gateway
    BY <1>4, <2>3
  <2> HIDE DEF h
  <2>5. LeftByGateway(h)
    BY <2>2, <2>3, <2>4 DEF LeftByGateway
  <2>6. g \in GatewaysOf(h)
    <3>1. req.gateways \subseteq Addr
      BY RequestAssumption DEF IInv, TypeOK, Request
    <3> QED
      BY <2>1, <2>4, <3>1, WalkAssumption DEF GatewayTargets, GatewaysOf
  <2> QED
    BY <2>1, <2>2, <2>4, <2>5, <2>6, NamedGoOn
<1>7. CASE FollowUplink(r, v)
  BY <1>2, <1>3, <1>7, NamedFollow DEF FollowUplink
<1>8. CASE FollowResolved(r, v)
  <2>1. PICK a \in Walkable(Addr) : Follow(r, v, [v.up EXCEPT !.ip = a])
    BY <1>8 DEF FollowResolved
  <2> DEFINE up == [v.up EXCEPT !.ip = a]
  <2>2. v.up # None /\ v.up \in PortDiag
    BY <1>3, <1>8 DEF FollowResolved
  <2>3. a \in Addr /\ a \notin Blocked /\ a # None
    BY WalkAssumption DEF Walkable, Blocked
  <2>4. up \in PortDiag /\ up.id = v.up.id /\ up.ip = a
    BY <2>2, <2>3 DEF PortDiag
  <2> HIDE DEF up
  <2>5. Follow(r, v, up)
    BY <2>1 DEF up
  <2> QED
    BY <2>2, <2>3, <2>4, <2>5, NamedFollow
<1>9. CASE UplinkHasNoAddress(r, v)
  <2> DEFINE h == HopOf(r, v, "ambiguous")
             k == [h EXCEPT !.cands = v.cands \cup {v.up}]
  <2>1. "ambiguous" \in Status
    BY DEF Status
  <2>2. NewHop(h)
    BY <1>4, <2>1
  <2>3. v.cands \cup {v.up} \in SUBSET PortDiag
    BY <1>3, <1>9 DEF UplinkHasNoAddress
  <2> HIDE DEF h
  <2>4. NewHop(k)
    BY <2>2, <2>3 DEF NewHop, WellDirected, Hop
  <2>5. Querying /\ StopAt(k, "ambiguous")
    BY <1>9 DEF UplinkHasNoAddress, h
  <2> HIDE DEF k
  <2> QED
    BY <2>4, <2>5, NamedStop
<1> QED
  BY <1>1, <1>5, <1>6, <1>7, <1>8, <1>9

\* Where the hops come from is invariant.
LEMMA NamedInvariant == Spec => []NamedInv
<1>1. Init => NamedInv
  <2> SUFFICES ASSUME Init PROVE NamedInv
    OBVIOUS
  <2>1. hops = <<>> /\ Len(hops) = 0 /\ pendingAlt = {}
    BY DEF Init
  <2> QED
    BY <2>1 DEF NamedInv, HopsNamedByPath, IPv6OnlyByGateway
<1>2. IInv /\ NamedInv /\ [Next]_vars => NamedInv'
  <2> SUFFICES ASSUME IInv, NamedInv, [Next]_vars PROVE NamedInv'
    OBVIOUS
  <2>1. CASE Interrupted \/ LoopDetected \/ TryAlternate \/ UNCHANGED vars
    BY <2>1, NamedUnrecorded
  <2>2. CASE \E status \in FailedStatus : QueryFails(status)
    <3> PICK status \in FailedStatus : QueryFails(status)
      BY <2>2
    <3>1. PICK h : h.ip = curr /\ hops' = Append(hops, h)
      BY DEF QueryFails, StopAt
    <3>2. IInv' /\ Querying /\ req' = req /\ pc' = "done" /\ hops' = Append(hops, h)
      BY QueryFailsStep, <3>1 DEF QueryFails, StopAt, Stop
    <3>3. h \in Hop
      <4>1. hops' \in Seq(Hop) /\ Len(hops) \in Nat
        BY <3>2 DEF IInv, TypeOK
      <4>2. Len(hops') = Len(hops) + 1 /\ hops'[Len(hops) + 1] = h
        BY <3>2, <4>1 DEF IInv, TypeOK
      <4> QED
        BY <4>1, <4>2
    <3>4. HopsNamedByPath' /\ HopsByGateway'
      BY <3>1, <3>2, <3>3, NamedHop
    <3>5. IPv6OnlyByGateway'
      BY <3>2, <3>4 DEF IPv6OnlyByGateway, HopsByGateway
    <3> QED
      BY <3>2, <3>4, <3>5 DEF NamedInv
  <2>3. CASE \E name \in Name : EdgeReached(name)
    <3> PICK name \in Name : EdgeReached(name)
      BY <2>3
    <3> DEFINE h == [index |-> hopIndex, ip |-> curr, name |-> name,
                     status |-> "router_reached",
                     stp |-> FALSE, root |-> FALSE, stpPort |-> None, up |-> None,
                     down |-> None, cands |-> {}, gateway |-> None]
    <3>1. Querying /\ StopAt(h, "edge")
      BY DEF EdgeReached
    <3>2. NewHop(h)
      BY DEF NewHop, WellDirected, Hop, Status, IInv, TypeOK
    <3> HIDE DEF h
    <3> QED
      BY <3>1, <3>2, NamedStop
  <2>4. CASE \E r \in Readings : SwitchAnswers(r)
    BY <2>4, NamedSwitch
  <2>5. CASE Returned
    BY <2>5, NamedUnrecorded DEF Returned
  <2> QED
    BY <2>1, <2>2, <2>3, <2>4, <2>5 DEF Next
<1> QED
  BY <1>1, <1>2, Invariant, PTL DEF Spec

\* Every hop was named by an earlier one: as the neighbor on its uplink, as its
\* gateway, or, behind a gateway that fell silent, as an alternate address.
THEOREM PathNamed == Spec => []HopsNamedByPath
<1>1. NamedInv => HopsNamedByPath
  BY DEF NamedInv
<1> QED
  BY <1>1, NamedInvariant, PTL

\* Whatever addresses a request, a route and the neighbors name, the walk comes
\* to an IPv6 address only from a hop with nothing above it, of which that address
\* is a gateway: neither an uplink nor an alternate leads there.
THEOREM IPv6ByGateway == Spec => []IPv6OnlyByGateway
<1>1. NamedInv => IPv6OnlyByGateway
  BY DEF NamedInv
<1> QED
  BY <1>1, NamedInvariant, PTL

-----------------------------------------------------------------------------
(* The forced address.                                                     *)

\* A selected port takes the forced address.
LEMMA PickedUplink ==
  ASSUME NEW r \in Readings, NEW v \in Views(r), v.picked, wish \in Wish, wish.ip # None
  PROVE  v.up # None /\ v.up.ip = wish.ip
<1>0. PICK down \in DownlinkOptions(r) :
        v \in {View(r, down, pick) : pick \in Picks(r, Candidates(r, down))}
  BY DEF Views
<1>1. PICK pick \in Picks(r, Candidates(r, down)) : v = View(r, down, pick)
  BY <1>0
<1>2. Candidates(r, down) \subseteq Diags(r)
  BY CandidatesOfReading
<1>3. pick # None /\ v.up = Uplink(r, Candidates(r, down), pick)
  BY <1>1 DEF View
<1>4. pick \in PortDiag /\ None \notin PortDiag
  BY <1>1, <1>2, <1>3, PicksOfReading, DiagsOfReading, WalkAssumption
<1>5. v.up = [pick EXCEPT !.ip = wish.ip]
  BY <1>3 DEF Uplink
<1>6. wish.ip \in Addr
  BY DEF Wish
<1>7. v.up \in PortDiag /\ v.up.ip = wish.ip
  BY <1>4, <1>5, <1>6 DEF PortDiag
<1> QED
  BY <1>4, <1>7

\* Of all the ways an iteration can end, only following the uplink consumes a
\* request for an address.
LEMMA ForcedStep ==
  ASSUME IInv, Next, Wishing, ~Wishing', wish.ip # None
  PROVE  LET h == hops'[Len(hops')]
         IN  \/ curr' = wish.ip
             \/ h.up # None /\ wish.ip \in h.up.ips
<1>1. wish' # wish
  BY DEF Wishing
<1>2. PICK r \in Readings : SwitchAnswers(r)
  BY <1>1 DEF Next, Interrupted, LoopDetected, TryAlternate, QueryFails, EdgeReached,
              Returned, vars
<1>3. PICK v \in Views(r) :
        \/ RootDistrusted(r, v)
        \/ CandidatesAmbiguous(r, v)
        \/ GatewayAnswers(r, v)
        \/ TopReached(r, v)
        \/ FollowUplink(r, v)
        \/ FollowResolved(r, v)
        \/ UplinkHasNoAddress(r, v)
  BY <1>2 DEF SwitchAnswers
<1>4. Consume(v)
  BY <1>3 DEF RootDistrusted, CandidatesAmbiguous, GatewayAnswers, TopReached,
              FollowUplink, FollowResolved, Follow, UplinkHasNoAddress
<1>5. v.picked
  BY <1>1, <1>4 DEF Consume
<1>6. v.up # None /\ v.up.ip = wish.ip
  BY <1>5, PickedUplink DEF IInv, TypeOK
<1>7. FollowUplink(r, v)
  BY <1>3, <1>6 DEF RootDistrusted, Distrusted, CandidatesAmbiguous, Ambiguous,
                    GatewayAnswers, TopReached, AtTop, CleanRoot, NoUpstream, BareRootPort,
                    FollowResolved, UplinkHasNoAddress
<1>8. Follow(r, v, v.up)
  BY <1>7 DEF FollowUplink
<1>9. v \in ViewType /\ v.up \in PortDiag /\ v.up.ip \notin Blocked
  BY <1>6, ViewOfReading DEF IInv, TypeOK, WishKept, ViewType
<1>10. OnLink(v.up) \in PortDiag /\ OnLink(v.up).id = v.up.id /\ OnLink(v.up).ips = v.up.ips
  BY <1>9, OnLinkPort
<1> DEFINE h == HopOf(r, [v EXCEPT !.up = OnLink(v.up)], "ok")
<1>11. OnLink(v.up) # None /\ NewHop(h) /\ h.up = OnLink(v.up)
  BY <1>6, <1>10, WalkAssumption, SwitchHop DEF Status
<1>12. hops' = Append(hops, h) /\ curr' = OnLink(v.up).ip
  BY <1>8 DEF Follow, GoOn
<1>13. hops'[Len(hops')] = h
  <2> HIDE DEF h
  <2> QED
    BY <1>11, <1>12 DEF NewHop, IInv, TypeOK
<1> HIDE DEF h
<1>14. CASE v.up.ip \in v.up.ips
  BY <1>6, <1>10, <1>11, <1>13, <1>14
<1>15. CASE v.up.ip \notin v.up.ips
  BY <1>6, <1>12, <1>15 DEF OnLink
<1> QED
  BY <1>14, <1>15

\* A forced request that is honoured sends the walk to the address it asks for,
\* unless the neighbor advertised that address itself.
THEOREM ForcedAddressHonoured == Spec => ForcedAddressIsUsed
<1>1. IInv /\ [Next]_vars =>
        [ Wishing /\ ~Wishing' /\ wish.ip # None
          => LET h == hops'[Len(hops')]
             IN  \/ curr' = wish.ip
                 \/ h.up # None /\ wish.ip \in h.up.ips ]_vars
  BY ForcedStep
<1> QED
  BY <1>1, Invariant, PTL DEF Spec, ForcedAddressIsUsed
====
