---------------------------- MODULE MCArpSession ----------------------------
(***************************************************************************)
(* A small instance of ArpSession: two switches without an address, one    *)
(* with, and one without a chassis address.  Sample adapters: every prefix *)
(* length, and one or two addresses of any range.                          *)
(***************************************************************************)
EXTENDS ArpSession, AddressRules

MCDev == {"silent1", "silent2", "talking", "nameless"}
MCAddressed == {"talking"}
MCChassis == MCDev \ {"nameless"}

SampleAddrs ==
  {NoAddr, <<10, 1, 2, 3>>, <<172, 16, 255, 255>>, <<192, 168, 7, 130>>, <<169, 254, 9, 1>>,
   <<127, 0, 0, 1>>, <<203, 0, 113, 5>>,
   <<192, 0, 0, 9>>, <<8, 8, 8, 8>>}
Items == [addr : SampleAddrs, prefix : (0 .. 32) \cup {NoPrefix}]
Configs == [addr : {NoAddr, <<192, 168, 7, 129>>}, prefix : {NoPrefix, 8, 16, 21, 22, 24, 30}]
MCNics ==
  [ips : {<<>>} \cup {<<i>> : i \in Items}
         \cup {<<i, [addr |-> <<192, 168, 7, 131>>, prefix |-> p]>> : i \in Items, p \in {NoPrefix, 25}},
   config : Configs]

MCHosts ==
  LET item(a, p) == [addr |-> a, prefix |-> p]
      nic(n, up, ips) == [name |-> n, up |-> up, wired |-> TRUE, score |-> Len(ips), ips |-> ips,
                          config |-> [addr |-> NoAddr, prefix |-> NoPrefix]]
      eth(up) == nic("eth", up, <<item(<<10, 1, 2, 3>>, 8), item(<<192, 168, 7, 130>>, 24)>>)
      usb(ips) == nic("usb", TRUE, ips)
  IN {<<>>} \cup {<<eth(up), usb(ips)>> : up \in BOOLEAN,
        ips \in {<<item(<<10, 1, 2, 4>>, 24)>>,
                 <<item(<<172, 16, 3, 1>>, 12), item(NoAddr, NoPrefix), item(<<10, 1, 2, 4>>, 30)>>}}
MCDevs == [ips : {<<>>, <<<<10, 0, 0, 2>>>>}, kind : {NoKind, MacKind, 5}, mac : {NoAddr, <<1>>},
           source : {"eth", "usb", "gone"}]
MCReplies ==
  LET r(m, n) == [mac |-> <<m>>, addr |-> <<10, 1, 2, n>>]
  IN {<<>>, <<r(1, 9)>>, <<r(2, 9), r(1, 8), r(2, 7)>>}

\* A worker that sweeps, sweeps a bounded part of its own network, and finds the
\* device it sweeps for if that answers.
SweepsAreSound == worker # None => SweepsAreBounded /\ FoundAsAnswered
====
