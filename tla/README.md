# LinkSight in TLA+

A verification development for LinkSight (`src/`), a desktop program that shows
which switch port a computer is plugged into (LLDP/CDP), what network it is on
(DHCP, OS) and, on request, the chain of switches up to the network edge (SNMP).

LinkSight has no server and stores nothing. What is hard in it is an algorithm
that walks an unknown and half-readable network without going round in circles
or downwards, and a GUI thread that starts worker threads, opens modal dialogs
in the middle of handlers, and receives the workers' results by queued signals
when the state they refer to may have changed.

## Inventory

| Component | Source | State | Operations |
|---|---|---|---|
| Upstream walk | `discovery/walker.py`, `models.py` | hops, visited addresses, current address, hop index, pending alternates, unconsumed request | `UpstreamWalker.walk`, `_edge_continuation` |
| SNMP client | `discovery/snmp_client.py` | socket, request id | `get`, `get_next`, `walk`, `_send_recv`, BER |
| Upstream session | `ui/main_window.py` 35-137, 638-985, 1049-1059 | worker reference, start of the walk, community, last stall prompt, shown path | request, continue, re-walk, stall prompt, finished, cancelled, close |
| ARP resolve session | `ui/main_window.py` 140-193, 574-616; `ui/switch_info_widget.py`; `discovery/arp_resolve.py` | ARP worker, pending device, device and address shown | device seen, resolved, cancelled, sweep |
| Capture control | `ui/main_window.py` 380-570, 987-1006; `capture/sniffer.py` | sniffer, combo box, interface list, button | start, toggle, restart, interface changed, error |
| Interface watcher | `ui/interface_watcher.py` | last list, active interface | `check_now` on a timer, two signals |
| LAN info refresh | `ui/lan_info_widget.py` | cached configuration, worker, pending refresh | `refresh`, worker finished, interface changed |
| Controller | `ui/controller.py` | DHCP observations, gateways | signals from the sniffer thread to the GUI |
| Frame parsers | `parse/lldp.py`, `cdp.py`, `dhcp.py`, `frames.py` | none | decode one frame |
| Text and classification | `text_util.py`, `discovery/classifier.py` | none | decode bytes, classify a device |
| Host queries | `capture/interfaces.py`, `system_info.py`, `link_checks.py`, `npcap.py`, `oui_lookup.py` | none | read-only OS queries |
| Updater | `updater.py`, `ui/main_window.py` 1008-1047 | notified once | one query per start |
| Demo | `capture/demo.py`, `parse/builders.py`, `discovery/demo.py` | none | canned data |
| Presentation | `ui/upstream_widget.py`, `feed_widget.py`, `settings_widget.py`, `splash.py`, `theme.py` | widgets | layout, formatting |
| Start, SSH | `app.py`, `ui/ssh_terminal.py` | none | elevation, external terminal |

How they interact. The sniffer thread hands frames to the controller, whose Qt
signals are queued for the GUI thread; the main window shows the device and
starts an ARP sweep in a worker if the switch advertised no address. "Discover
Upstream Path" takes that address, asks for the SNMP community, and starts a
walk in a worker; the walk uses one SNMP client per address and an ARP sweep for
neighbors without one; it ends with a `finished` or a `cancelled` signal. The
watcher polls the adapters and makes the main window restart capture.

What makes each correct, and what is hard about it:

- **Walk.** The path has no device address twice, is numbered, ends after at
  most `max_hops` devices, follows spanning tree root ports, never goes back
  down, never follows a neighbor to an IPv6 address, uses the address the user
  gave. Hard: tables read in part, silent addresses with alternates, gateways,
  forced requests that are consumed on the way.
- **Session.** The newest walk gets its path shown; a stopped walk's path does
  not replace a later one; a continued walk continues the path it was asked
  from; the community is asked once. Hard: nested event loops, `wait(1000)` that
  may time out, results of walks that are no longer referred to.
- **ARP session.** The address shown belongs to the device shown; a sweep is
  bounded, in the host's own network, and never given up for nothing. Hard:
  devices that wait for a worker that is already past its last look at the stop
  event; prefixes of any length.
- **Capture control and watcher.** Capture runs on the adapter the combo box
  names or not at all; a lost link is recovered from; the button never starts a
  second capture. Hard: adapters that go and come back between two polls, a
  combo box that is refilled without its signals, threads that outlive their
  stop.
- **LAN info.** The configuration shown is that of the adapter chosen; no
  refresh is lost and none multiplied. Hard: requests that meet a reading, late
  signals that clear the reference to a newer reading.
- **SNMP client.** An answer belongs to its request; a table is read in order,
  without a gap, and the reading ends. Hard: datagrams that are lost, late or
  repeated, retries under the same number, agents that answer anything.
- **Codecs.** What is written is read back at every width; what is cut off is
  dropped and not taken short.

`PROJECT.json` lists the hazards line by line with the properties that cover them.

## Modules

| Module | What it is |
|---|---|
| `DiscoveryPath` | abstract: a path that grows at its end by a device not yet in it, to a bound, and then ends |
| `UpstreamWalk` | `UpstreamWalker.walk`, one action per way an iteration can end |
| `MCUpstreamWalk` | small networks and requests for it |
| `UpstreamWalk_proofs` | theorems about `UpstreamWalk`, checked by TLAPS |
| `UpstreamSession` | the main window's handling of walks: GUI thread, workers, queued signals |
| `MCUpstreamSession` | small instances of it |
| `UpstreamSession_proofs` | theorems about `UpstreamSession` |
| `ArpSession` | the switch panel, its management address and the ARP workers |
| `AddressRules` | operators: the subnets of an adapter, the sweep's answers, the address of a device |
| `MCArpSession` | a small instance of both |
| `ArpSession_proofs` | theorems about `ArpSession` and `AddressRules` |
| `CaptureControl` | combo box, button, sniffer threads and interface watcher |
| `FrameFormats` | operators: LLDP, CDP and DHCP, read and built |
| `MCCaptureControl` | a small instance of both |
| `FrameFormats_proofs` | what is built by `FrameFormats` is read by it |
| `CaptureControl_proofs` | theorems about `CaptureControl` and, by the former, about what it captures |
| `LanInfoRefresh` | the LAN panel's requests, timer and background readings (its runs need no MC module) |
| `LanInfoRefresh_proofs` | theorems about it |
| `TableRead` | abstract: rows of a table in ascending order, to a limit, and then an end |
| `SnmpExchange` | one SNMP client, one agent, and a network between them that loses, delays and repeats |
| `SnmpCodec` | operators: BER, the requests built and the responses parsed |
| `MCSnmpExchange` | a small instance of both |
| `SnmpExchange_proofs` | theorems about `SnmpExchange` and `SnmpCodec` |
| `Octets` | octet strings, as Python slices them, and the numbers they are |
| `Octets_proofs` | facts about these; induction and recursion, for all proofs that need them |

### UpstreamWalk

One iteration of the loop is one step. The network is the environment: a queried
address fails with one of three statuses, is an edge device, or is a switch
whose tables decode to any member of `Readings`. No relation between two answers
is assumed, so partly read tables, devices that change between two queries and
contradictory neighbors are all covered; a property that holds needs no
assumption on the network.

| State | Code |
|---|---|
| `hops` | `hops`; a hop keeps index, address, name, status, STP fields, uplink, downlink, candidates, gateway |
| `visited`, `curr`, `hopIndex`, `pendingAlt`, `edgeType` | `visited_ips`, `curr_ip`, `hop_index`, `pending_alt_ips`, `edge_type` |
| `wish` | `forced_next_ip`, `forced_port_id`, `forced_candidate` until consumed |
| `req` | the arguments of `walk` |
| `pc` | in the loop, or returned |

The steps: `Interrupted` (stop event, hop limit), `LoopDetected`, `TryAlternate`,
`QueryFails`, `EdgeReached`, and for a switch `RootDistrusted`,
`CandidatesAmbiguous`, `GatewayAnswers`, `TopReached`, `FollowUplink`,
`FollowResolved`, `UplinkHasNoAddress`. What one reading can be taken for is
`Views`: every downlink the code's six rules could find (the forwarding table, ARP
table, subnet and keyword rules are a free choice among the ports they
could name), the candidates, the port a forced request picks, and the uplink.

Abstractions. Lists of advertised addresses are sets, and "the first" is a fixed
but arbitrary choice. Names are values with a relation `Alike` for "one contains
the other". A neighbor's name stands for any identity it advertises beside its
chassis (system name, port description). VLANs, PoE, speeds and the interfaces
of an edge device are payload. An empty system name, which the code replaces by
the address, and the name "Endpoint" given to a nameless downlink are left out.
The edge device types all read `"edge"`.

Assumptions (`WalkAssumption`, `RequestAssumption`): port numbers are positive;
a switch with a positive root port lists that port once (the code adds it);
an address the user gave (typed, found by a sweep or carried by a candidate) is
IPv4 and not link-local, for it is validated or chosen among IPv4 ones. Of
gateways and starts nothing is assumed: the system's gateway may be an IPv6
address (`system_info.py:369`, `main_window.py:729`), the continuation does not
filter it, and a stalled walk may be resumed from such a hop.

### UpstreamSession

The GUI thread is a stack of handlers (`frames`). A modal dialog runs a nested
event loop: queued signals are delivered and only the dialog takes input. A
handler inside `wait(1000)` delivers nothing. Workers are numbered in the order
of creation, and a worker looks at its stop event for the last time after
`walk()` (`WalkReturns`) and then emits (`Report`): a stop between the two does
not stop the report. `WaitEnds` may happen while the old walk is still in a
query, since a query may take longer than a second.

| State | Code |
|---|---|
| `worker`, `walkIp`, `community`, `lastStall` | `_upstream_worker`, `_current_walk_ip`, `_session_community`, `_last_stall_prompt` |
| `shown` | the path in the upstream panel |
| `phase`, `stopped`, `outcome`, `starts` | the threads, their stop events, results and start addresses |
| `continues` | history: the path a walk was asked to continue |
| `events` | Qt's queue of `finished` and `cancelled` signals |

Assumptions: `walk()` returns normally; a thread that has passed its last
look at the stop event ends within the second that `wait` grants it. Demo mode,
progress messages and what the panels look like are left out.

### ArpSession

Frames and signals reach the GUI thread through one queue (`events`). A frame
shows its device and, when that advertises a chassis address but no management
address, starts a sweep for it: at once, or, while a worker runs, by stopping
that worker and letting the device wait (`pending`). Whichever signal comes next
lets the worker go and starts the sweep for the device that waits.

| State | Code |
|---|---|
| `shown`, `addr` | the device in the switch panel, `_current_mgmt_ip` |
| `asking` | the device shown when the address dialog was opened |
| `worker`, `pending` | `_arp_worker`, `_pending_arp_dev` |
| `devOf`, `phase`, `stopped`, `found` | the workers' devices, threads, stop events and results |
| `events` | Qt's queue: devices from the capture thread, signals of the workers |
| `heard` | bound: frames so far |

An address is represented by the device it belongs to and by how it was learned,
which is all the properties ask of it. The code compares devices as records with
all they advertise and the second they were heard in; so the same switch heard
again may or may not be the same device, and `StartArpResolve` allows both.
Whether a sweep finds the address is a free choice. The upstream walk that the
address dialog goes on to is `UpstreamSession`.

What the sweep itself computes is in `AddressRules`: which adapter a device was
heard on, which of its addresses are usable, the network of each (`Subnets`: own
prefix, configured mask, or 24; cut to 24 when larger than 22), and which
answer is the device's (`Resolve`). Only the prefixes up to 8 are refused. The
answers to a sweep are a function from subnets to lists of replies.

### CaptureControl

A handler of the GUI thread is one step, and so is a poll of the watcher, whose
timer runs in that thread: `_on_interfaces_changed` and
`_on_restart_capture_requested` are called within it. `Read` is what a poll has
in common (the combo box refilled, the watcher's books), and the three polls are
what can follow: nothing, a restart, or a stop because no adapter is left.

| State | Code |
|---|---|
| `link` | the machine: each adapter absent, down or up |
| `listed`, `chosen` | `self.interfaces` and the entry the combo box shows |
| `source` | `controller.source`: the adapter, and whether its thread runs, is failing (the error is signalled, the thread not yet ended), or is dead |
| `lingering` | adapters on which the thread of a stopped sniffer is alive |
| `button` | what the capture button offers |
| `polling`, `watched`, `snap`, `wasDown`, `ticks` | the watcher: started, `_active_interface`, `_last_snapshot`, `_active_was_down`, `_active_up_ticks` |
| `errors`, `quiet` | `capture_error` signals in Qt's queue; whether the last was handled less than five seconds ago |

Abstractions. A list that cannot be read counts as the last one (`nics \in {link,
snap}`). `ticks` is counted no further than the two that count. A change the
watcher announces may be of an adapter that is not wired or of an address, hence
the free `change`. Which entry Qt shows when the one shown has gone, and which
adapter is preferred at the start, are free choices. Several threads left on one
adapter are one element of `lingering`, which may outlast the first that ends.
Left out: the Npcap question on Windows, demo mode, the status line.

`FrameFormats` has the parsers and the builders of the frames that a sniffer
hears: TLVs and their lengths, identities, capabilities, management addresses,
VLANs, DHCP options, and the sniffer's dispatch (`Hear`). Text is the octets of
7-bit characters; how addresses and times are written out is left out. The
builders, which the demo source and the tests use, are the reference for what a
frame means. They are evaluated for sample facts, of which `FactsAssumption` asks
that the parts fit their fields: printable text without space around it and no
longer than a TLV or an option holds (for LLDP 511 octets, which the code's
length field does not check), a port and, in CDP, a name that is not empty,
numbers of their width. The capabilities of CDP have 32 bits, of which those with
the highest bit unset are covered, as TLC's integers have no more.

### LanInfoRefresh

| State | Code |
|---|---|
| `iface` | `_iface_name` |
| `cfg` | `_cached_cfg`, as the number of the reading it came from |
| `worker`, `pending` | `_worker`, `_pending_refresh` |
| `timer`, `recent` | `_debounce_timer` is active; the last reading was completed less than `_min_interval` ago |
| `workers` | the readings begun: of which adapter, after how many requests, how far |
| `events` | Qt's queue of `finished` signals |
| `asked` | history and bound: requests |

A reading reports first and its thread ends later (`Reports`, `ThreadEnds`), so
`_on_worker_finished` may run while the thread is still alive, and for a reading
that the panel no longer refers to. Left out: what the panel displays, the
gateway a reading is given, the cancellation when the window closes.

### SnmpExchange

The client is `_send_recv` with its three callers. Every request ever made keeps
its place in `asked`, and `told` has the agent's answer to it; as no message is
ever removed, an answer may arrive at any later time and any number of times, or
never. `_send_recv` waits for the answer of the last request and reads all
others without effect, so they are no steps.

| State | Code |
|---|---|
| `size`, `honest` | the agent: rows of its table, and whether it answers GETNEXT by the protocol |
| `asked`, `told` | requests by their ids, and the answers |
| `waiting`, `attempt` | in `_send_recv`, and transmissions of the request less one |
| `outcome` | what the last `get` returned or raised |
| `walking`, `rows`, `ended` | `walk`: under way, its results, returned |

Abstractions. Request ids, drawn at random from 2^31, are taken to be distinct.
OIDs are numbered in their order: 0 is the table's own, then its rows, then one
behind it. Several `get`s may come before and after a walk, never during one: a
client is used by one thread. The transport injected by tests and sockets that
cannot be made are left out.

`SnmpCodec` is the BER encoder and decoder: lengths, integers, OIDs with their
arcs, the messages, and which of them `parse_snmp_response` refuses. Its
recursion is in recursive functions, so that it can be proved about. It is
evaluated for sample responses, of which `SamplesAssumption` asks what a response
on the wire is: octets, integers of 32 bits, values a client reads, OIDs whose
first two arcs fit one octet, and no more than a datagram holds.

## Runs

| Run | Checks | Bounds |
|---|---|---|
| `walk` | types, the path properties, an address the user gave, refinement of `DiscoveryPath`, termination | 3 hops, 8 addresses, sample readings, walks with and without a forced request |
| `walk_stale_alternates` | violated: see findings | the same, without forced requests |
| `walk_root_by_alternate` | violated | the same |
| `walk_forced_wrong_hop` | violated | the same, only forced requests |
| `session` | types, one question for the community, stale results, the newest walk's answer | 3 walks, 2 outcomes |
| `session_continue` | violated | 3 walks, 3 outcomes |
| `arp` | who is swept for, stopped sweeps have successors, no waiting device is forgotten, the newest result is shown; what a sweep asks and finds | 3 frames, 4 devices; adapters with every prefix length |
| `arp_late` | violated | the same |
| `capture` | types, the button, the last adapter, the selection, lost links; whole and cut frames | 2 adapters, 2 waiting errors; sample frames |
| `capture_other_adapter` | violated | the same |
| `lan` | types, whose configuration is shown, no request lost, none multiplied | 4 requests, 2 adapters |
| `snmp` | types, rows and outcomes against what was asked, refinement of `TableRead`, termination; messages | tables of 3 rows, limit 2, 1 retry, 2 gets; sample messages |

The runs `arp`, `capture` and `snmp` also evaluate the operators of
`AddressRules`, `FrameFormats` and `SnmpCodec` over sample inputs, as invariants
of the component that uses them: `SweepsAreSound`, `CapturedIsRead`,
`CapturedInPart`, `AnswersAreRead`.

Bounds. `MaxHops = 3` stands for 16: it lets a path have a hop, a hop after it
and a limit reached in the middle of alternates or of a gateway. Readings cover
STP with and without neighbor, roots by port and by bridge address, no STP with
none, one and several candidates, neighbors with several, one, no and IPv6
addresses, and gateways with an IPv4 and an IPv6 address. `MaxWalks = 3` lets a lost walk, the walk that replaced
it and a third one meet. `MaxFrames = 3` lets a device wait for a stopped
worker, be replaced, and be picked up by the signal of a worker that is no longer
referred to; the devices are two that are swept for, one with an address and one
without a chassis address. Two adapters let one go while the other is there, and
come back when the other goes; two waiting errors let one be handled within five
seconds of the other. `MaxAsked = 4` lets a reading, the one that replaced it, a
request that waits and one on the timer meet. In the exchange, a table longer
than the limit, one that fits and one that is shorter occur, each request has a
retry, and an answer to the first `get` can arrive in a walk and in the second
`get`. The sample inputs have the lengths at which an encoding changes its width
(127/128, 255/256, 511, 2^14, 2^21, 2^31 - 1), the shortest and longest fields,
and all prefixes, of private, public, loopback and link-local addresses and one
that Python takes out of a private block; cut inputs are cut at every place. The
proofs have no such bounds.

Deadlock is not checked in `lan` and `snmp`: the requests and gets are bounded,
and after the last one nothing need happen.

Fairness. `WalkReturns` assumes weak fairness of the walk's step: each query is
bounded by its timeout and retries, so an iteration ends. The session assumes
weak fairness of each worker, of the bounded `wait`, and of the delivery of
signals; nothing is assumed of the user, so a dialog may stay open for ever (its
event loop still delivers). `ArpSession` assumes the same of its workers and of
the queue; frames need not come. `CaptureControl` assumes that the constructor
ends, that the watcher's timer keeps firing and its lists can be read now and
then (`PollReads`), and that failing threads end and signals are delivered; not
that anybody clicks, that a frame comes, or that a link stays up.
`LanInfoRefresh` assumes that its timer fires, that signals are delivered, and
that a reading ends: every command it runs has a timeout. `SnmpExchange` assumes
that the client's thread runs and that now and then no datagram arrives for the
length of a timeout (each one that does starts it anew); of the agent and the
network it assumes nothing.

What the runs of expected violations show:

1. **Stale alternates** (`ChainLinked`). Going on to a gateway does not clear
   `pending_alt_ips`. If the gateway then fails, addresses of an earlier
   neighbor are probed and one becomes the next hop. `HopsNamedByPath` is what
   does hold.
2. **Root reached by an alternate** (`RootFromBelowIsTop`). A root that answered
   at its second address counts as not verified from below; with other
   neighbors the walk stops with a question instead of ending.
3. **Request consumed elsewhere** (`ForcedOnTargetHop`). The fallbacks of a
   forced request ignore the hop it names.
4. **Continuing from another switch** (`ContinuesItsPath`). The buttons of a path
   act on the start of the last request, which need not be that path's.
5. **Late address** (`FoundAddressIsOfShown`). The result of a sweep is set
   without a look at the device it was for; unless another device waits, the
   panel shows it for whatever switch is shown by then.
6. **Another adapter is captured** (`SourceIsChosen`). When the adapter shown
   goes, the combo box is refilled without its signals and the watcher keeps
   watching the one that has gone. If the replacement goes too, and the first
   is back by that poll, nothing is restarted: the box shows the first, the
   source is on the second.

One disagreement has no run of its own. Comments say that "IPv6 is never a walk
target" (`walker.py:1854`) and that "walks are IPv4-only" (`models.py:25`); that
is so of neighbors' addresses only. On a dual-stack host `_fill_windows` may
take an IPv6 address from the first "Default Gateway" line, the LAN panel caches
it, and a walk that reaches the top queries it and, if it answers, goes on there.
The run `walk` includes such a gateway and a walk resumed from one; what does
hold is `IPv6OnlyByGateway`.

## Proofs

`UpstreamWalk_proofs` proves for every set of addresses, readings, requests and
every hop limit that satisfy the assumptions:

| Theorem | Property |
|---|---|
| `TypeCorrect` | `TypeOK` |
| `NoLoopInPath` | `NoAddressTwice` |
| `PathNumbered` | `HopsNumbered` |
| `StopsAtEnd` | `OnlyLastHopStops` |
| `PathNamed` | `HopsNamedByPath` |
| `FollowsRootPorts` | `DirectionRule` |
| `NeverBackDown` | `UplinkIsNotDownlink` |
| `IPv6ByGateway` | `IPv6OnlyByGateway` |
| `ForcedAddressHonoured` | `ForcedAddressIsUsed` |
| `WalkImplementsPath` | `PathPromise` |

The argument. The inductive invariant `IInv` joins the type invariant and the
rule that alternates are IPv4 (`AlternatesIPv4`) with four facts the properties need to survive a step: the request is
intact or consumed (`WishKept`); every hop's address is in `visited`
(`PathVisited`), so that a fresh address repeats none; hops are numbered by
position and their number never passes the limit; every hop the walk has gone on
from has a status that lets it (`PathPassed`); and a hop's uplink is its root
port unless a request picked it (`PathDirected`). First come lemmas on what one
reading can be taken for (`Views`, `HopOf`, `OnLink`), then every action is shown
to end in one of a few forms (keep the path, append a hop and stop, append a hop
and go on), and the invariant is proved once per form. `NamedInv` strengthens
`HopsNamedByPath` and `IPv6OnlyByGateway` with where the current address and the
alternates come from.
The refinement follows from `NoAddressTwice` and `HopsNumbered`: a step maps to
`Extend`, `End` or a stutter.

`UpstreamSession_proofs` proves for every number of walks, addresses and
outcomes:

| Theorem | Property |
|---|---|
| `TypeCorrect` | `TypeOK` |
| `AskedOnce` | `CommunityAskedOnce` |
| `StoppedStaysBehind` | `StoppedNeverReplacesLater` |

The type invariant already needs what the handlers on the stack rely on
(`FrameOK`, `StackOK`): an answer uses an address that was noted when the dialog
was opened, possibly several nested dialogs ago, and a question for the community
is alone on the stack. The argument for stopped walks: a walk that is stopped
after its last look at the stop event reports while the window waits for it, so
no later walk exists yet (`LateOK`, which rests on the wait outlasting such a
thread); hence among the queued reports, and against the path shown, none of a
stopped walk comes behind a later one (`OrderOK`). `Finished` takes the first
report, and the theorem follows.

`ArpSession_proofs` proves, for any devices and number of frames, and, of the
sweep, for any adapters and answers:

| Theorem | Property |
|---|---|
| `NoneGivenUp` | `GivenUpForSuccessor` |
| `TypeCorrect` | `TypeOK` |
| `SweepsSound` | `SweepsAreSound` |
| `OnlyPrivate` | nothing outside the host's private block is asked for |

The first follows from an invariant that only existing workers are stopped and
that what is queued is typed. The second contains a bound: the sweeps are never
more than the frames. A frame is queued, then its device may wait, then it is
swept for; `Room` says that the sweeps, the device that waits and the frames
queued are together no more than the frames heard. Instead of counting over the
queue it says that there are upper bounds for the frames behind each place of the
queue, which a new event raises by one and a delivery shifts.

`SweepsSound` is about the operators of `AddressRules`, whatever adapters, masks
and replies they are given: each network swept has at most 1024 addresses and
lies in the network of one of the adapter's own usable addresses (`Bounded`: a
mask shorter than 22 is replaced by 24, and cutting an address at more bits is
cutting it again, `MaskedAgain`); each usable address has its network swept, and once;
and an address that is found is that of a reply of the device (`Found`: the last
reply of the device in the order in which the networks are swept). `OnlyPrivate`
needs of a private block only that it is no smaller than the largest network
that is swept. It does not hold of the smallest ones that Python counts as
private: an adapter at 203.0.113.5 with a mask of 22 has public neighbors swept.

`CaptureControl_proofs` proves, for any adapters:

| Theorem | Property |
|---|---|
| `TypeCorrect` | `TypeOK` |
| `StartMeansIdleHolds` | `StartMeansIdle` |
| `NothingLeftBehindHolds` | `NothingLeftBehind` |
| `SelectionKeptHolds` | `SelectionKept` |
| `LossEndsInCaptureHolds` | `LossEndsInCapture` |
| `CapturedRead` | `CapturedIsRead` |
| `CapturedPart` | `CapturedInPart` |

The invariants are nearly inductive together; what is missing is
`NoLossBeforePolling` (the watcher has seen no loss before it is set up). For
`NothingLeftBehind` the poll is what matters: one that empties the combo box
either sees the watched adapter gone, and then stops capture, or had an empty
list before.

`CapturedRead` and `CapturedPart` rest on `FrameFormats_proofs`, which proves of
all facts that `FactsAssumption` allows that the LLDP, CDP or DHCP frame built
from them is heard as these facts (`RoundTrips`), and that of a frame that was cut
off at any octet nothing is heard but what the whole frame says (`OnlyLosesAll`).
The argument goes in three steps:

- the parsers are recursive functions on strings, which unfold (`LldpTlvsUnfold`,
  `CdpTlvsUnfold`, `OptionsUnfold`, `MgmtAddrsUnfold`, `CdpEntriesUnfold`); one that
  finds an item at the head of whatever begins with it, and nothing in a part of
  an item, finds all of any number of items, and in a part of the whole the first
  of them (`ItemsRead`), up to the end mark (`LldpEnds`, `OptionEnds`);
- each item of a frame has its own type, so the field of a type is set by that
  item or, where an optional part is missing or was cut off, by none (`FieldSet`,
  `FieldUnset`, `FieldCut`); of what was cut off each field is kept or unset
  (`LldpKept`, `CdpKept`, `DhcpKept`);
- a cut in the headers is heard as nothing (`HearsNothing`, `HeaderCut`,
  `DhcpHeadsIs`), and no frame of one kind is taken for one of another
  (`HearsLldp`, `HearsCdp`, `HearsDhcp`, `NotEncapsulated`).

`LanInfoRefresh_proofs` proves, for any adapters and number of requests:

| Theorem | Property |
|---|---|
| `TypeCorrect` | `TypeOK` |
| `ShownIsOfAdapterHolds` | `ShownIsOfAdapter` |
| `PendingHasWakerHolds` | `PendingHasWaker` |
| `ReadsAreAskedForHolds` | `ReadsAreAskedFor` |

The signal of any reading clears the reference to the current one, so a request
that waits need not wait for the reading the panel refers to; but the reference,
while there is one, is to a reading that is still to be announced
(`CurrentUnannounced`), which is what a request that starts to wait needs.
`AskedNamesAdapter` keeps the readings typed, `Coalesced` is `ReadsAreAskedFor`
without conditions inside sums.

`SnmpExchange_proofs` proves, for tables, limits, retries and gets of any number
and for any agent:

| Theorem | Property |
|---|---|
| `TypeCorrect` | `TypeOK` |
| `RowsWereAskedForHolds` | `RowsWereAskedFor` |
| `RowsBeginTableHolds` | `RowsBeginTable` |
| `OutcomeIsOfItsRequestHolds` | `OutcomeIsOfItsRequest` |
| `ReadPromiseHolds` | `ReadPromise`, the refinement of `TableRead` |
| `AnswersRead` | `AnswersAreRead` |

The request in flight is the last one and, in a walk, asks for what follows the
last row (`InFlight`); answers suit their requests, and those of an honest agent
are the next rows (`AnswersSuit`); a walk under way has not ended (`WalkOpen`).
An accepted row then is one more row of the promise, and everything else is the
promise's end or a stutter.

`AnswersRead` rests on the facts about `SnmpCodec`, of which `RoundTrip` says of every
response that `SamplesAssumption` allows that reading it gives what was written,
and that each of its proper prefixes is refused. It is built from below:

- a length is read as it was written, in one octet or in a mark and one or two
  (`LenEncoded`, `HeaderLength`); so a TLV is found at the head of whatever begins
  with it, with its value and what follows it (`TlvRead`), and no proper prefix of
  a TLV is one (`TlvCut`);
- the elements of TLVs behind one another are these TLVs (`ElementsOfTlvs`), for
  any number of them;
- an integer is read back at each of its four widths, with its sign (`IntRead`);
- an arc in groups of seven bits is read back, whatever its size, and so are any
  number of them (`ArcRead`, `ArcsRead`), and the octet of the first two
  (`OidParts`, where 40 * a + b <= 255 and b < 40 are needed: `encode_oid` fails
  on other OIDs or writes what `decode_oid` splits differently);
- the message is a TLV of TLVs, each of which has a length that the code's header
  holds because the whole has (`TlvLonger`, `TlvSize`, `CatSize`).

These functions are recursive, and the prover has neither induction nor recursion
over data: the library's theorems on both take a predicate or an operator as
parameter. `Octets_proofs` states them for sets and functions instead. From
the library's theorem that numbers are well ordered come induction for a set of
numbers (`NatInd`) and for any set whose members have a size that shrinks
(`SizeInduction`), and from these that a function that calls itself on something
smaller exists and unfolds (`RecursionExists`, used for `Number`, `Signed`, `Joined`,
`Elements`, `Left`, `Marked`, `Arcs` and the parsers of frames).

Only model-checked is what needs fairness, which is out of the prover's reach:
`WalkReturns` of the walk and of the SNMP client, `NewestWalkAnswers`,
`WaitingLeadsToSweep`, `NewestSweepAnswers`, `LossIsRecoveredFrom` and
`RefreshAnswered`. Every safety property that a run checks is a theorem.

## What could follow

Everything planned at first is done: the walk, the session, the ARP session with
its sweep, capture control with the watcher, the LAN panel, the SNMP client, the
codecs, and their proofs. What the models leave open:

- the composition of `SnmpExchange` with `UpstreamWalk`, where the member of
  `Readings` a switch is read as would come from the tables that were read;
- that every walk is stopped by the next request or waited for at close: a late
  signal can drop the reference to a walk, and `NewestWalkAnswers` shows only
  that its path is shown all the same;
- an agent with an empty table (the exchange's tables have a row);
- the DHCP facts that the controller collects and the rows the LAN panel makes
  of them;
- restart with elevation and the Npcap question, which interrupt capture.

## Not modelled

- **Updater.** One HTTP request per start and one notification; no state.
- **Presentation, splash, theme.** Layout and formatting. What a shown path
  offers to click is part of `UpstreamSession`, the buttons of capture of
  `CaptureControl`.
- **SSH terminal, start and elevation.** Start other processes.
- **Classification.** Keyword tables; what the walk asks of them (is this an
  edge device, do two names agree) is a free choice or a constant there.
- **Host queries.** Commands of the operating system and a vendor table; that
  they may fail or be late is part of `CaptureControl` and `LanInfoRefresh`, and
  the choice among adapters of `AddressRules`.
- **Demo sources.** Canned data; their builders are in `FrameFormats`.
- **Text beyond 7 bits**, and how values are written out.
- **Controller.** Its queued signals are in `ArpSession` and `CaptureControl`;
  the DHCP facts it merges are payload of the LAN panel.
