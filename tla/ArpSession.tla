----------------------------- MODULE ArpSession -----------------------------
(***************************************************************************)
(* The switch panel and its management address                             *)
(* (linksight/ui/main_window.py, linksight/ui/switch_info_widget.py).      *)
(*                                                                         *)
(* Every LLDP or CDP frame shows its device.  For one that advertises no   *)
(* address but has a chassis address, a worker sweeps the subnet with ARP. *)
(* At most one device waits for the worker before it to end.  Frames and   *)
(* results reach the GUI thread through one queue.  An address is          *)
(* represented by the device it belongs to and by how it was learned.      *)
(***************************************************************************)
EXTENDS Naturals, Sequences

CONSTANTS
  Dev,        \* devices heard on the port
  Addressed,  \* those that advertise a management address
  Chassis,    \* those that advertise a chassis address
  None,       \* no device, no address, no worker
  MaxFrames   \* bound: frames heard in one behaviour

ASSUME ArpAssumption ==
  /\ Addressed \subseteq Dev /\ Chassis \subseteq Dev
  /\ None \notin Dev
  /\ MaxFrames \in Nat

\* A frame starts one sweep at the most.
Sweeps == 1 .. MaxFrames

Address == [of : Dev, how : {"advertised", "arp", "typed"}]

Event == [kind : {"device"}, dev : Dev] \cup [kind : {"finished", "cancelled"}, sweep : Sweeps]

VARIABLES
  shown,    \* the device in the panel
  addr,     \* _current_mgmt_ip
  asking,   \* the device shown when the address dialog was opened
  worker,   \* _arp_worker
  pending,  \* _pending_arp_dev
  closed,   \* the window is closed
  created,  \* how many workers there are, numbered in the order of creation
  devOf,    \* the device each one resolves
  phase,    \* "sweeping", "passed" the last look at the stop event, "gone"
  stopped,  \* those whose stop event is set
  found,    \* those whose sweep found the chassis address
  events,   \* frames and signals, not yet delivered
  heard     \* how many frames there have been

panel == <<shown, addr, asking>>
control == <<worker, pending, closed>>
threads == <<created, devOf, phase, stopped, found>>
vars == <<panel, control, threads, events, heard>>

Init ==
  /\ shown = None /\ addr = None /\ asking = None
  /\ worker = None /\ pending = None /\ closed = FALSE
  /\ created = 0
  /\ devOf = [s \in Sweeps |-> None]
  /\ phase = [s \in Sweeps |-> "none"]
  /\ stopped = {} /\ found = {}
  /\ events = <<>> /\ heard = 0

-----------------------------------------------------------------------------
(* Starting a sweep.                                                       *)

Running(s) == s # None /\ phase[s] \in {"sweeping", "passed"}

\* A worker is made and started; nothing is pending then.
Start(d) ==
  /\ created' = created + 1
  /\ worker' = created + 1
  /\ pending' = None
  /\ devOf' = [devOf EXCEPT ![created + 1] = d]
  /\ phase' = [phase EXCEPT ![created + 1] = "sweeping"]
  /\ UNCHANGED <<closed, stopped, found>>

\* Variant: the worker is stopped and nothing waits for it.
StopArpResolve(d) ==
  \/ /\ Running(worker)
     /\ stopped' = stopped \cup {worker}
     /\ UNCHANGED <<control, created, devOf, phase, found>>
  \/ ~Running(worker) /\ Start(d)

\* _start_arp_resolve.  Two devices are equal when all they advertise and the
\* second they were heard in agree, so the same switch may or may not be.
StartArpResolve(d) ==
  \/ Running(worker) /\ devOf[worker] = d /\ UNCHANGED <<control, threads>>
  \/ /\ Running(worker)
     /\ pending' = d
     /\ stopped' = stopped \cup {worker}
     /\ UNCHANGED <<worker, closed, created, devOf, phase, found>>
  \/ ~Running(worker) /\ Start(d)

-----------------------------------------------------------------------------
(* Frames, and the user.                                                   *)

\* The capture thread posts a device.
Hear(d) ==
  /\ ~closed /\ heard < MaxFrames
  /\ heard' = heard + 1
  /\ events' = Append(events, [kind |-> "device", dev |-> d])
  /\ UNCHANGED <<panel, control, threads>>

Delivers(kind) == ~closed /\ events # <<>> /\ Head(events).kind = kind /\ events' = Tail(events)

\* Variant: a device is swept for whatever it advertises.
OnDeviceSweepingAll ==
  /\ Delivers("device")
  /\ LET d == Head(events).dev
     IN  /\ shown' = d
         /\ addr' = IF d \in Addressed THEN [of |-> d, how |-> "advertised"] ELSE None
         /\ StartArpResolve(d)
  /\ UNCHANGED <<asking, heard>>

\* _on_device with show_device
OnDevice ==
  /\ Delivers("device")
  /\ LET d == Head(events).dev
     IN  /\ shown' = d
         /\ addr' = IF d \in Addressed THEN [of |-> d, how |-> "advertised"] ELSE None
         /\ IF d \in Chassis \ Addressed
            THEN StartArpResolve(d)
            ELSE UNCHANGED <<control, threads>>
  /\ UNCHANGED <<asking, heard>>

\* "Discover Upstream Path" on a switch without an address asks for one.  The
\* dialog is modal; signals are delivered behind it.
Ask ==
  /\ ~closed /\ asking = None /\ shown # None /\ addr = None
  /\ asking' = shown
  /\ UNCHANGED <<shown, addr, control, threads, events, heard>>

\* set_management_ip
Answer ==
  /\ ~closed /\ asking # None
  /\ addr' = [of |-> asking, how |-> "typed"]
  /\ asking' = None
  /\ UNCHANGED <<shown, control, threads, events, heard>>

Dismiss ==
  /\ ~closed /\ asking # None
  /\ asking' = None
  /\ UNCHANGED <<shown, addr, control, threads, events, heard>>

\* closeEvent
Close ==
  /\ ~closed /\ asking = None
  /\ closed' = TRUE
  /\ stopped' = IF Running(worker) THEN stopped \cup {worker} ELSE stopped
  /\ UNCHANGED <<panel, worker, pending, created, devOf, phase, found, events, heard>>

-----------------------------------------------------------------------------
(* The workers and their signals.                                          *)

\* resolve_switch_mgmt_ip returns.  A stop is noticed during the sweep or here.
SweepReturns(s) ==
  /\ phase[s] = "sweeping"
  /\ \/ /\ s \in stopped
        /\ phase' = [phase EXCEPT ![s] = "gone"]
        /\ events' = Append(events, [kind |-> "cancelled", sweep |-> s])
        /\ UNCHANGED found
     \/ /\ s \notin stopped
        /\ phase' = [phase EXCEPT ![s] = "passed"]
        /\ found' \in {found, found \cup {s}}
        /\ UNCHANGED events
  /\ UNCHANGED <<panel, control, created, devOf, stopped, heard>>

\* finished.emit(resolved or ""), and the thread ends.
Report(s) ==
  /\ phase[s] = "passed"
  /\ phase' = [phase EXCEPT ![s] = "gone"]
  /\ events' = Append(events, [kind |-> "finished", sweep |-> s])
  /\ UNCHANGED <<panel, control, created, devOf, stopped, found, heard>>

\* The worker is let go and the device that waits, if any, is next.
CheckPendingArp ==
  IF pending # None
  THEN Start(pending)
  ELSE worker' = None /\ UNCHANGED <<pending, closed, threads>>

\* Variant: only the worker the window refers to is listened to.
OnArpResolvedIfCurrent ==
  /\ Delivers("finished")
  /\ LET s == Head(events).sweep
     IN  addr' = IF s \in found /\ s = worker
                 THEN [of |-> devOf[s], how |-> "arp"] ELSE addr
  /\ CheckPendingArp
  /\ UNCHANGED <<shown, asking, heard>>

\* _on_arp_resolved with set_resolved_mgmt_ip
OnArpResolved ==
  /\ Delivers("finished")
  /\ LET s == Head(events).sweep
     IN  addr' = IF s \in found /\ pending = None
                 THEN [of |-> devOf[s], how |-> "arp"] ELSE addr
  /\ CheckPendingArp
  /\ UNCHANGED <<shown, asking, heard>>

\* Variant: the worker that waits is not started.
OnArpCancelledOnly ==
  /\ Delivers("cancelled")
  /\ worker' = None
  /\ UNCHANGED <<panel, pending, closed, threads, heard>>

\* _on_arp_cancelled
OnArpCancelled ==
  /\ Delivers("cancelled")
  /\ CheckPendingArp
  /\ UNCHANGED <<panel, heard>>

\* The window is closed and every thread has ended.
Ended == closed /\ (\A s \in Sweeps : ~Running(s)) /\ UNCHANGED vars

Next ==
  \/ \E d \in Dev : Hear(d)
  \/ OnDevice
  \/ Ask \/ Answer \/ Dismiss \/ Close
  \/ \E s \in Sweeps : SweepReturns(s) \/ Report(s)
  \/ OnArpResolved
  \/ OnArpCancelled
  \/ Ended

Spec == Init /\ [][Next]_vars

\* Threads run and the event loop delivers, also behind the dialog.
FairSpec ==
  /\ Spec
  /\ \A s \in Sweeps : WF_vars(SweepReturns(s)) /\ WF_vars(Report(s))
  /\ WF_vars(OnDevice \/ OnArpResolved \/ OnArpCancelled)

-----------------------------------------------------------------------------
(* Properties.                                                             *)

\* Every variable keeps its type, a frame starts one sweep at the most, and
\* only a device without an address of its own is swept for.
TypeOK ==
  /\ shown \in Dev \cup {None}
  /\ addr \in Address \cup {None}
  /\ asking \in Dev \cup {None}
  /\ worker \in (1 .. created) \cup {None}
  /\ pending \in (Chassis \ Addressed) \cup {None}
  /\ closed \in BOOLEAN
  /\ created \in 0 .. MaxFrames
  /\ \A s \in 1 .. created : devOf[s] \in Chassis \ Addressed
  /\ phase \in [Sweeps -> {"none", "sweeping", "passed", "gone"}]
  /\ stopped \subseteq 1 .. created /\ found \subseteq 1 .. created
  /\ events \in Seq(Event)
  /\ heard \in 0 .. MaxFrames

\* _start_arp_resolve: a sweep is never given up for nothing.  One that was told
\* to stop is followed by another, or a device waits for it to end.
GivenUpForSuccessor ==
  \A s \in stopped : created > s \/ pending # None \/ closed

\* A device that waits is swept for, or gives way to one that is: whichever
\* signals are still under way, one of them finds it waiting.
WaitingLeadsToSweep ==
  \A n \in 0 .. MaxFrames :
    created = n /\ pending # None ~> (created > n \/ closed)

\* What the newest sweep found is shown, even if the window no longer refers to
\* its worker, unless a newer sweep has been started.
NewestSweepAnswers ==
  \A s \in Sweeps :
    created = s /\ phase[s] = "passed" /\ s \in found
      ~> (addr = [of |-> devOf[s], how |-> "arp"] \/ created > s \/ closed)

\* README: "Switch Info -- neighbor device connected to the active switch port:
\* ... and management IPs".  An address found by ARP is that of the device shown.
FoundAddressIsOfShown ==
  addr # None /\ addr.how = "arp" => addr.of = shown
====
