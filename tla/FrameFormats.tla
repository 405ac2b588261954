----------------------------- MODULE FrameFormats -----------------------------
(***************************************************************************)
(* What LinkSight reads from a frame: neighbors from LLDP and CDP, network *)
(* facts from DHCP replies; and the frames its builders make of the same   *)
(* facts.  Frames are octet strings.  Text is the octets of 7-bit          *)
(* characters, an address its octets; how they are written out is left     *)
(* out, and so is the platform guessed from an LLDP system description.    *)
(***************************************************************************)
EXTENDS Octets, FiniteSetsExt

-----------------------------------------------------------------------------
(* Decoded octets: as text, as a MAC address, or in hexadecimal.           *)

Text(b) == [as |-> "text", of |-> b]
Hex(b) == [as |-> "hex", of |-> b]
Mac(b) == [as |-> "mac", of |-> b]
Blank == Text(<<>>)
IsBlank(t) == t.of = <<>>

Space == (9 .. 13) \cup (28 .. 32)
Printable == {9, 10, 13} \cup (32 .. 126)

FirstNot(b, S) == CHOOSE i \in DOMAIN b : b[i] \notin S /\ \A j \in 1 .. i - 1 : b[j] \in S
LastNot(b, S) == CHOOSE i \in DOMAIN b : b[i] \notin S /\ \A j \in i + 1 .. Len(b) : b[j] \in S
OnlyIn(b, S) == \A i \in DOMAIN b : b[i] \in S

RStrip(b, S) == IF OnlyIn(b, S) THEN <<>> ELSE SubSeq(b, 1, LastNot(b, S))
Strip(b, S) == IF OnlyIn(b, S) THEN <<>> ELSE SubSeq(b, FirstNot(b, S), LastNot(b, S))
Clean(b) == Strip(RStrip(b, {0}), Space)

\* decode_text(b) or ""
DecodeText(b) ==
  LET clean == Clean(b) IN IF OnlyIn(clean, Printable) THEN Text(clean) ELSE Blank

DecodeIdentity(b) ==
  LET clean == Clean(b)
  IN IF clean # <<>> /\ OnlyIn(clean, Printable) THEN Text(clean)
     ELSE IF Len(b) \in {6, 8} THEN Mac(b) ELSE Hex(b)

-----------------------------------------------------------------------------
(* TLVs.  A parser goes through them in order and lets each overwrite what *)
(* an earlier one of its kind has set.                                     *)

\* Variants: the value of a TLV that is cut off is taken for what is left of it;
\* the length of an LLDP TLV is taken from one octet.
NotCut(b, end) == FALSE
LengthOctet(b) == b[2]

\* A TLV that ends at this place is not all there.
Cut(b, end) == Len(b) < end

LldpLength(b) == Number[Slice(b, 0, 2)] % 512

\* The TLVs of an LLDPDU, up to the end mark or to one that is cut off.
LldpTlvs[b \in Seq(Octet)] ==
  LET type == b[1] \div 2
      end == 2 + LldpLength(b)
  IN IF Len(b) < 2 \/ Cut(b, end) \/ type = 0 THEN <<>>
     ELSE <<[type |-> type, value |-> Slice(b, 2, end)]>> \o LldpTlvs[Rest(b, end)]

CdpTlvs[b \in Seq(Octet)] ==
  LET end == Number[Slice(b, 2, 4)]
  IN IF Len(b) < 4 \/ end < 4 \/ Cut(b, end) THEN <<>>
     ELSE <<[type |-> Number[Slice(b, 0, 2)], value |-> Slice(b, 4, end)]>>
          \o CdpTlvs[Rest(b, end)]

\* Where the TLVs of a type are whose values have at least some length.
OfType(tlvs, type, least) ==
  {i \in DOMAIN tlvs : tlvs[i].type = type /\ Len(tlvs[i].value) >= least}

\* What the last of several TLVs sets a field to.
Field(tlvs, at, Reads(_), default) ==
  IF at = {} THEN default ELSE Reads(tlvs[Max(at)].value)

-----------------------------------------------------------------------------
(* LLDP.                                                                   *)

ChassisId(v) ==
  CASE v[1] = 4 /\ Len(v) >= 7 -> Mac(Slice(v, 1, 7))
    [] v[1] \in {5, 7} /\ Len(v) >= 2 -> DecodeIdentity(Rest(v, 1))
    [] OTHER -> Hex(Rest(v, 1))

PortId(v) ==
  CASE v[1] = 3 /\ Len(v) >= 7 -> Mac(Slice(v, 1, 7))
    [] v[1] \in {5, 7} /\ Len(v) >= 2 -> DecodeIdentity(Rest(v, 1))
    [] OTHER -> Hex(Rest(v, 1))

\* The IPv4 addresses of one management address TLV.
MgmtAddrs[v \in Seq(Octet)] ==
  LET end == 1 + v[1]
      next == end + 6 + v[end + 6]
  IN IF v = <<>> \/ v[1] = 0 \/ Len(v) < end THEN <<>>
     ELSE (IF v[2] = 1 /\ v[1] = 5 THEN <<Slice(v, 2, end)>> ELSE <<>>)
          \o (IF Len(v) < end + 6 THEN <<>> ELSE MgmtAddrs[Rest(v, next)])

Capabilities(v, octets, kinds) ==
  IF Len(v) < octets THEN {} ELSE Bits(Number[Slice(v, 0, octets)], kinds)

NoVlan == -1
PortVlan == <<0, 128, 194, 1>>
PortVlans(tlvs) == {i \in OfType(tlvs, 127, 6) : Slice(tlvs[i].value, 0, 4) = PortVlan}

Nothing == [protocol |-> "none"]

EtherType(frame) == Number[Slice(frame, 12, 14)]

ParseLldp(frame) ==
  LET tlvs == LldpTlvs[Rest(frame, 14)]
      chassis == Field(tlvs, OfType(tlvs, 1, 1), ChassisId, Blank)
      name == Field(tlvs, OfType(tlvs, 5, 0), DecodeText, Blank)
  IN IF IsBlank(chassis) /\ IsBlank(name) THEN Nothing
     ELSE [protocol |-> "lldp", chassis |-> chassis, name |-> name,
           port |-> Field(tlvs, OfType(tlvs, 2, 1), PortId, Blank),
           portDescr |-> Field(tlvs, OfType(tlvs, 4, 0), DecodeText, Blank),
           descr |-> Field(tlvs, OfType(tlvs, 6, 0), DecodeText, Blank),
           caps |-> Field(tlvs, OfType(tlvs, 7, 0), LAMBDA v : Capabilities(v, 2, 11), {}),
           ips |-> Field(tlvs, OfType(tlvs, 8, 0), LAMBDA v : MgmtAddrs[v], <<>>),
           vlan |-> Field(tlvs, PortVlans(tlvs), LAMBDA v : Number[Slice(v, 4, 6)], NoVlan)]

-----------------------------------------------------------------------------
(* CDP.                                                                    *)

\* The first IPv4 addresses, at most n, of the entries in v; other protocols
\* are skipped.
CdpEntries[p \in Seq(Octet) \X Nat] ==
  LET v == p[1]
      n == p[2]
      plen == v[2]
      at == 4 + plen
      end == at + Number[Slice(v, 2 + plen, at)]
  IN IF n = 0 \/ Len(v) < 4 \/ Len(v) < at \/ Len(v) < end THEN <<>>
     ELSE (IF Slice(v, 0, 3) = <<1, 1, 204>> /\ end = at + 4 THEN <<Slice(v, at, end)>>
           ELSE <<>>)
          \o CdpEntries[<<Rest(v, end), n - 1>>]

Addresses(v) ==
  IF Len(v) < 4 THEN <<>>
  ELSE LET n == Number[Slice(v, 0, 4)] IN CdpEntries[<<Rest(v, 4), IF n < 16 THEN n ELSE 16>>]

CdpSnap == <<170, 170, 3, 0, 0, 12, 32, 0>>
CdpBody(frame) ==
  IF EtherType(frame) = 8192 THEN Rest(frame, 14) ELSE Rest(frame, 22)

DeviceId(v) == LET text == DecodeText(v) IN IF IsBlank(text) THEN Hex(v) ELSE text

ParseCdp(frame) ==
  LET body == CdpBody(frame)
      tlvs == CdpTlvs[Rest(body, 4)]
      id == Field(tlvs, OfType(tlvs, 1, 0), DeviceId, Blank)
  IN IF Len(body) < 4 \/ IsBlank(id) THEN Nothing
     ELSE [protocol |-> "cdp", chassis |-> id, name |-> id,
           port |-> Field(tlvs, OfType(tlvs, 3, 0), DecodeIdentity, Blank),
           descr |-> Field(tlvs, OfType(tlvs, 5, 0), DecodeText, Blank),
           platform |-> Field(tlvs, OfType(tlvs, 6, 0), DecodeText, Blank),
           caps |-> Field(tlvs, OfType(tlvs, 4, 0), LAMBDA v : Capabilities(v, 4, 9), {}),
           ips |-> Field(tlvs, OfType(tlvs, 2, 0), Addresses, <<>>),
           vlan |-> Field(tlvs, OfType(tlvs, 10, 2), LAMBDA v : Number[Slice(v, 0, 2)], NoVlan)]

\* parse_frame.  The encapsulated form is the one the code looks for: a SNAP
\* header behind two octets of it in the place of the EtherType.
ParseFrame(frame) ==
  CASE Len(frame) >= 14 /\ EtherType(frame) = 35020 -> ParseLldp(frame)
    [] Len(frame) >= 14 /\ EtherType(frame) = 8192 -> ParseCdp(frame)
    [] Slice(frame, 12, 22) = <<170, 170>> \o CdpSnap -> ParseCdp(frame)
    [] OTHER -> Nothing

-----------------------------------------------------------------------------
(* DHCP.                                                                   *)

Magic == <<99, 130, 83, 99>>
NoType == -1

Options[b \in Seq(Octet)] ==
  LET end == 2 + b[2]
  IN IF b = <<>> \/ b[1] = 255 THEN <<>>
     ELSE IF b[1] = 0 THEN Options[Tail(b)]
     ELSE IF Len(b) < 2 \/ Cut(b, end) THEN <<>>
     ELSE <<[type |-> b[1], value |-> Slice(b, 2, end)]>> \o Options[Rest(b, end)]

Ip4(b) == IF Len(b) = 4 THEN b ELSE <<>>
Ip4s(v) == [i \in 1 .. Len(v) \div 4 |-> Slice(v, 4 * i - 4, 4 * i)]

\* The server is the one option 54 names; without the option, the next server
\* of the header, even if that is 0.0.0.0; with an option that is no address,
\* the sender.
ParseDhcp(payload, src) ==
  LET opts == Options[Rest(payload, 240)]
      server == Field(opts, OfType(opts, 54, 0), Ip4, Slice(payload, 20, 24))
      type == Field(opts, OfType(opts, 53, 1), Head, NoType)
  IN IF Slice(payload, 236, 240) # Magic \/ type = NoType THEN Nothing
     ELSE [protocol |-> "dhcp", type |-> type,
           xid |-> Slice(payload, 4, 8), client |-> Slice(payload, 28, 34),
           offered |-> Slice(payload, 16, 20),
           server |-> IF server = <<>> THEN src ELSE server,
           mask |-> Field(opts, OfType(opts, 1, 0), Ip4, <<>>),
           gateways |-> Field(opts, OfType(opts, 3, 0), Ip4s, <<>>),
           dns |-> Field(opts, OfType(opts, 6, 0), Ip4s, <<>>),
           lease |-> Field(opts, OfType(opts, 51, 4), LAMBDA v : Slice(v, 0, 4), <<>>),
           domain |-> Field(opts, OfType(opts, 15, 0), LAMBDA v : v, <<>>)]

\* The sniffer's handler finds DHCP in an IPv4 frame from or to its ports.
HearDhcp(frame) ==
  LET udp == 14 + 4 * (frame[15] % 16)
      ports == {Number[Slice(frame, udp, udp + 2)], Number[Slice(frame, udp + 2, udp + 4)]}
  IN IF /\ Len(frame) >= 42 /\ EtherType(frame) = 2048
        /\ frame[24] = 17
        /\ ports \cap {67, 68} # {}
     THEN ParseDhcp(Rest(frame, udp + 8), Slice(frame, 26, 30))
     ELSE Nothing

Hear(frame) ==
  LET dhcp == HearDhcp(frame) IN IF dhcp = Nothing THEN ParseFrame(frame) ELSE dhcp

-----------------------------------------------------------------------------
(* The builders.                                                           *)

Tlv(type, v) == InOctets(512 * type + (Len(v) % 512), 2) \o v
CdpTlv(type, v) == InOctets(type, 2) \o InOctets(Len(v) + 4, 2) \o v
Opt(code, v) == <<code, Len(v)>> \o v

Eth(dst, src, type, body) == dst \o src \o InOctets(type, 2) \o body
Broadcast == [i \in 1 .. 6 |-> 255]
Zeros(n) == [i \in 1 .. n |-> 0]

BuildLldp(d) ==
  Eth(<<1, 128, 194, 0, 0, 14>>, d.chassis, 35020,
      Tlv(1, <<4>> \o d.chassis) \o Tlv(2, <<5>> \o d.port) \o Tlv(3, <<0, 120>>)
      \o Tlv(5, d.name) \o Tlv(6, d.descr)
      \o Tlv(7, InOctets(d.caps, 2) \o InOctets(d.caps, 2))
      \o (IF d.ip = <<>> THEN <<>> ELSE Tlv(8, <<5, 1>> \o d.ip \o <<1, 0, 0, 0, 1, 0>>))
      \o (IF d.vlan = NoVlan THEN <<>> ELSE Tlv(127, PortVlan \o InOctets(d.vlan, 2)))
      \o Tlv(0, <<>>))

BuildCdp(d) ==
  Eth(<<1, 0, 12, 204, 204, 204>>, d.chassis, 8192,
      <<1, 1, 0, 0>> \o CdpTlv(1, d.name)
      \o (IF d.ip = <<>> THEN <<>>
          ELSE CdpTlv(2, <<0, 0, 0, 1, 1, 1, 204, 0, 4>> \o d.ip))
      \o CdpTlv(3, d.port) \o CdpTlv(4, InOctets(d.caps, 4))
      \o CdpTlv(5, d.descr) \o CdpTlv(6, d.platform)
      \o CdpTlv(10, InOctets(d.vlan, 2)) \o CdpTlv(11, <<1>>))

BuildUdp(mac, src, sport, dst, dport, payload) ==
  Eth(Broadcast, mac, 2048,
      <<69, 0>> \o InOctets(28 + Len(payload), 2) \o Zeros(4) \o <<64, 17, 0, 0>>
      \o src \o dst
      \o InOctets(sport, 2) \o InOctets(dport, 2) \o InOctets(8 + Len(payload), 2)
      \o <<0, 0>> \o payload)

BuildDhcp(d) ==
  BuildUdp(d.client, d.server, 67, <<255, 255, 255, 255>>, 68,
      <<2, 1, 6, 0>> \o d.xid \o Zeros(8) \o d.offered \o d.server \o Zeros(4)
      \o d.client \o Zeros(202) \o Magic
      \o Opt(53, <<d.type>>) \o Opt(54, d.server)
      \o (IF d.mask = <<>> THEN <<>> ELSE Opt(1, d.mask))
      \o Opt(3, Joined[IF d.gateways = <<>> THEN <<d.server>> ELSE d.gateways])
      \o (IF d.dns = <<>> THEN <<>> ELSE Opt(6, Joined[d.dns]))
      \o (IF d.domain = <<>> THEN <<>> ELSE Opt(15, d.domain))
      \o Opt(51, d.lease) \o <<255>>)

-----------------------------------------------------------------------------
(* Properties, of sample facts.                                            *)

CONSTANTS LldpFacts, CdpFacts, DhcpFacts

Octets(n) == {b \in Seq(Octet) : Len(b) = n}
Optional(S) == S \cup {<<>>}

\* Printable text without space around it, of at most n octets.
Texts(n) == {b \in Seq(Octet) : Len(b) <= n /\ Clean(b) = b /\ OnlyIn(b, Printable)}
Names(n) == Texts(n) \ {<<>>}
Lists(n) == {as \in Seq(Octets(4)) : Len(as) <= n}

Word == 0 .. 65535
Long == {n \in Nat : n <= 2147483647}  \* of the 32 bits, those of TLC's integers

\* Facts whose parts fit the lengths and numbers of their formats: what a TLV of
\* 511 octets, a CDP TLV of 65535 and an option of 255 can hold.
LldpFact ==
  [chassis : Octets(6), port : Names(510), name : Texts(511), descr : Texts(511),
   caps : Word, ip : Optional(Octets(4)), vlan : Word \cup {NoVlan}]
CdpFact ==
  [chassis : Octets(6), port : Names(65531), name : Names(65531), descr : Texts(65531),
   platform : Texts(65531), caps : Long, ip : Optional(Octets(4)), vlan : Word]
DhcpFact ==
  [protocol : {"dhcp"}, type : Octet, xid : Octets(4), client : Octets(6),
   offered : Octets(4), server : Octets(4), mask : Optional(Octets(4)),
   gateways : Lists(63), dns : Lists(63), lease : Octets(4),
   domain : {b \in Seq(Octet) : Len(b) <= 255}]

ASSUME FactsAssumption ==
  LldpFacts \subseteq LldpFact /\ CdpFacts \subseteq CdpFact /\ DhcpFacts \subseteq DhcpFact

Ips(d) == IF d.ip = <<>> THEN <<>> ELSE <<d.ip>>

\* What is built into a frame is what is read from it: no field of one kind is
\* lost to, or taken for, another, whichever are present.
FramesRoundTrip ==
  /\ \A d \in LldpFacts :
       Hear(BuildLldp(d)) =
         [protocol |-> "lldp", chassis |-> Mac(d.chassis), name |-> Text(d.name),
          port |-> Text(d.port), portDescr |-> Blank, descr |-> Text(d.descr),
          caps |-> Bits(d.caps, 11), ips |-> Ips(d), vlan |-> d.vlan]
  /\ \A d \in CdpFacts :
       Hear(BuildCdp(d)) =
         [protocol |-> "cdp", chassis |-> Text(d.name), name |-> Text(d.name),
          port |-> Text(d.port), descr |-> Text(d.descr), platform |-> Text(d.platform),
          caps |-> Bits(d.caps, 9), ips |-> Ips(d), vlan |-> d.vlan]
  /\ \A d \in DhcpFacts :
       Hear(BuildDhcp(d)) =
         [d EXCEPT !.gateways = IF @ = <<>> THEN <<d.server>> ELSE @]

Frames ==
  {BuildLldp(d) : d \in LldpFacts} \cup {BuildCdp(d) : d \in CdpFacts}
  \cup {BuildDhcp(d) : d \in DhcpFacts}

\* What a field is that no TLV or option has set.
Unset ==
  [chassis |-> Blank, name |-> Blank, port |-> Blank, portDescr |-> Blank, descr |-> Blank,
   platform |-> Blank, caps |-> {}, ips |-> <<>>, vlan |-> NoVlan,
   mask |-> <<>>, gateways |-> <<>>, dns |-> <<>>, lease |-> <<>>, domain |-> <<>>]

\* A frame that is cut off says less and nothing else: each field is what the
\* whole frame says or is not set, and the device does not change its kind.
TruncationOnlyLoses ==
  \A f \in Frames :
    LET whole == Hear(f)
    IN \A n \in 0 .. Len(f) - 1 :
         LET cut == Hear(Slice(f, 0, n))
         IN cut # Nothing =>
              \A k \in DOMAIN whole :
                cut[k] = whole[k] \/ (k \in DOMAIN Unset /\ cut[k] = Unset[k])
====
