------------------------------ MODULE AddressRules ------------------------------
(***************************************************************************)
(* Which addresses are asked for with ARP, and what is made of the answers *)
(* (linksight/discovery/arp_resolve.py).  An IPv4 address is its four      *)
(* octets.  MAC addresses are normalized.  A stop request at any time      *)
(* makes the result none; it is left out here.                             *)
(***************************************************************************)
EXTENDS Octets, FiniteSetsExt

Addr == [1 .. 4 -> Octet]
NoAddr == <<>>
NoPrefix == -1

-----------------------------------------------------------------------------
(* Networks.                                                               *)

\* How many bits of the i-th octet a prefix of p bits leaves free.
Free(p, i) ==
  CASE p >= 8 * i -> 0
    [] p <= 8 * (i - 1) -> 8
    [] OTHER -> 8 * i - p

\* The bits of a that a prefix of p bits covers, the others zero.
Masked(a, p) == [i \in 1 .. 4 |-> (a[i] \div 2 ^ Free(p, i)) * 2 ^ Free(p, i)]

Net(a, p) == [net |-> Masked(a, p), prefix |-> p]
Contained(a, n) == Net(a, n.prefix) = n

\* The network n is part of the network m, or all of it.
Within(n, m) == m.prefix <= n.prefix /\ Contained(n.net, m)

Loopback == Net(<<127, 0, 0, 0>>, 8)

\* What Python's ipaddress calls private: more than RFC 1918.
Private ==
  {Loopback, Net(<<0, 0, 0, 0>>, 8), Net(<<10, 0, 0, 0>>, 8), Net(<<169, 254, 0, 0>>, 16),
   Net(<<172, 16, 0, 0>>, 12), Net(<<192, 0, 0, 0>>, 24), Net(<<192, 0, 2, 0>>, 24),
   Net(<<192, 168, 0, 0>>, 16), Net(<<198, 18, 0, 0>>, 15), Net(<<198, 51, 100, 0>>, 24),
   Net(<<203, 0, 113, 0>>, 24), Net(<<240, 0, 0, 0>>, 4)}
NotPrivate == {<<192, 0, 0, 9>>, <<192, 0, 0, 10>>}
IsPrivate(a) == a \notin NotPrivate /\ \E n \in Private : Contained(a, n)

-----------------------------------------------------------------------------
(* compute_subnets_for_interface.                                          *)

\* An adapter: the addresses it lists (addr NoAddr for one that is not IPv4 or
\* cannot be read, prefix NoPrefix where none is given), and the address and
\* the netmask of its configuration, if that can be read.
Item == [addr : Addr \cup {NoAddr}, prefix : (0 .. 32) \cup {NoPrefix}]
IsAdapter(nic) == nic.ips \in Seq(Item) /\ nic.config \in Item

Listed(nic) ==
  IF nic.ips # <<>> \/ nic.config.addr = NoAddr THEN nic.ips
  ELSE <<[addr |-> nic.config.addr, prefix |-> NoPrefix]>>

Usable(item) ==
  /\ item.addr # NoAddr
  /\ ~Contained(item.addr, Loopback)
  /\ IsPrivate(item.addr)

\* The network an address is in: its own prefix, or the configured one, or 24.
Prefix(item, config) ==
  CASE item.prefix # NoPrefix -> item.prefix
    [] item.prefix = NoPrefix /\ config.prefix # NoPrefix -> config.prefix
    [] OTHER -> 24

\* Variant: only a network larger than 16 is cut down.
TooLarge(p) == p < 16

\* Such a network is swept only around the host.
Large(p) == p < 22

SubnetOf(item, config) ==
  LET p == Prefix(item, config) IN Net(item.addr, IF Large(p) THEN 24 ELSE p)

\* The places of the list whose address is swept around, and the network there.
SweptAt(nic) ==
  {i \in DOMAIN Listed(nic) : Usable(Listed(nic)[i]) /\ Prefix(Listed(nic)[i], nic.config) > 8}
SubnetAt(nic, i) == SubnetOf(Listed(nic)[i], nic.config)
Subnets(nic) == {SubnetAt(nic, i) : i \in SweptAt(nic)}

\* The order of the sweep: a network has its turn at the first of its places.
Turns(nic) ==
  {i \in SweptAt(nic) : \A j \in SweptAt(nic) : j < i => SubnetAt(nic, j) # SubnetAt(nic, i)}

-----------------------------------------------------------------------------
(* arp_sweep and resolve_switch_mgmt_ip.                                   *)

\* The answers to a sweep: for each network a list, that of a network ends where
\* its sweep fails.  The k-th in the turn i:
Reply(nic, answers, t) == answers[SubnetAt(nic, t[1])][t[2]]

\* Where in the sweep the MAC address of the device is named.
Heard(dev, nic, answers) ==
  {t \in UNION {{i} \X DOMAIN answers[SubnetAt(nic, i)] : i \in Turns(nic)} :
     Reply(nic, answers, t).mac = dev.mac}

\* Of several answers that name one MAC address the last one counts.
NotBefore(t, u) == t[1] > u[1] \/ (t[1] = u[1] /\ t[2] >= u[2])
LastHeard(dev, nic, answers) ==
  CHOOSE t \in Heard(dev, nic, answers) :
    \A u \in Heard(dev, nic, answers) : NotBefore(t, u)

\* The adapter the device was heard on, if it is up, or else the preferred one:
\* of several the first.
HeardOn(dev, nics) == {i \in DOMAIN nics : nics[i].name = dev.source /\ nics[i].up}
Wired(nics) == {i \in DOMAIN nics : nics[i].wired}
Preferred(nics) == {i \in Wired(nics) : \A j \in Wired(nics) : nics[j].score <= nics[i].score}
Adapters(dev, nics) == IF HeardOn(dev, nics) # {} THEN HeardOn(dev, nics) ELSE Preferred(nics)
Adapter(dev, nics) == nics[Min(Adapters(dev, nics))]

\* The address of a device that advertises none and is identified by a MAC
\* address (kind NoKind if how it is identified is not known, as with CDP).
NoKind == -1
MacKind == 4

Resolve(dev, nics, answers) ==
  LET nic == Adapter(dev, nics)
  IN IF \/ dev.ips # <<>>
        \/ dev.kind \notin {NoKind, MacKind} \/ dev.mac = NoAddr
        \/ Adapters(dev, nics) = {}
        \/ Heard(dev, nic, answers) = {}
     THEN NoAddr
     ELSE Reply(nic, answers, LastHeard(dev, nic, answers)).addr

-----------------------------------------------------------------------------
(* Properties, of the adapters, devices and answers given.                 *)

CONSTANTS Nics, Devs, Hosts, Replies

\* Addresses are octets, prefixes of at most 32 bits, and an answer names an address.
ASSUME AdapterAssumption ==
  /\ \A nic \in Nics : IsAdapter(nic)
  /\ \A nics \in Hosts : nics \in Seq(ToSet(nics)) /\ \A nic \in ToSet(nics) : IsAdapter(nic)

ASSUME ReplyAssumption ==
  \A rs \in Replies : rs \in Seq(ToSet(rs)) /\ \A r \in ToSet(rs) : r.addr \in Addr

\* "Cap sweep size to sane bounds": whatever an adapter's addresses and masks
\* are, the network of every usable address has its turn once, and what is asked
\* for is at most a thousand addresses around it, in its own network, and in the
\* same private block if that is no smaller than what may be swept.
SweepsAreBounded ==
  \A nic \in Nics :
    /\ \A i \in SweptAt(nic) : \E j \in Turns(nic) : SubnetAt(nic, j) = SubnetAt(nic, i)
    /\ \A i, j \in Turns(nic) : SubnetAt(nic, j) = SubnetAt(nic, i) => i = j
    /\ \A i \in Turns(nic) :
         LET item == Listed(nic)[i]
             n == SubnetAt(nic, i)
         IN /\ 2 ^ (32 - n.prefix) <= 1024
            /\ Contained(item.addr, n)
            /\ Within(n, Net(item.addr, Prefix(item, nic.config)))
            /\ \A block \in Private :
                 block.prefix <= 22 /\ Contained(item.addr, block) => Within(n, block)

\* What the networks swept on an adapter gave as addresses of the device.
Answered(dev, nic, answers) ==
  {r.addr : r \in {q \in UNION {ToSet(answers[n]) : n \in Subnets(nic)} : q.mac = dev.mac}}

\* "Return IP matching switch's chassis MAC, or None": an address that is found
\* is one the device itself answered from, and if it answered on the adapter it
\* was heard on it is found, whoever else answered and in whichever network.
FoundAsAnswered ==
  \A nics \in Hosts, dev \in Devs :
    \A answers \in [UNION {Subnets(nic) : nic \in ToSet(nics)} -> Replies] :
      /\ Resolve(dev, nics, answers) # NoAddr =>
           \E nic \in ToSet(nics) : Resolve(dev, nics, answers) \in Answered(dev, nic, answers)
      /\ /\ dev.ips = <<>> /\ dev.kind = MacKind /\ dev.mac # NoAddr
         /\ HeardOn(dev, nics) # {}
         /\ \A i \in HeardOn(dev, nics) : Answered(dev, nics[i], answers) # {}
         => Resolve(dev, nics, answers) # NoAddr
====
