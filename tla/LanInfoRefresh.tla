---------------------------- MODULE LanInfoRefresh ----------------------------
(***************************************************************************)
(* The LAN panel and its background readings of the adapter's              *)
(* configuration.  Requests come in bursts (every DHCP message is one, and *)
(* every change of an adapter), a reading takes seconds; so a request that *)
(* meets a reading waits for its end, and one that follows closely on a    *)
(* reading waits for a timer.                                              *)
(*                                                                         *)
(* A reading's result is a queued signal: it reaches the GUI thread some   *)
(* time after the thread has sent it and perhaps ended, and other handlers *)
(* may run in between.                                                     *)
(***************************************************************************)
EXTENDS Naturals, Sequences

CONSTANTS
  Iface,      \* names of adapters
  None,       \* no adapter
  MaxAsked    \* bound: requests

ASSUME IfaceAssumption == None \notin Iface
ASSUME AskedAssumption == MaxAsked \in Nat

VARIABLES
  iface,      \* _iface_name
  cfg,        \* _cached_cfg: the reading it came from, 0 for what psutil tells
  worker,     \* _worker, 0 for none
  pending,    \* _pending_refresh
  timer,      \* _debounce_timer is active
  recent,     \* _last_bg_completed is less than _min_interval ago
  workers,    \* the readings begun, in order
  events,     \* finished signals not yet delivered
  asked       \* history: requests so far

panel == <<iface, cfg>>
vars == <<panel, worker, pending, timer, recent, workers, events, asked>>

\* A reading: of which adapter, begun after how many requests, how far.
Reading == [on : Iface, since : 0 .. MaxAsked,
            phase : {"reading", "reported", "ended"}]

Running(i) == i # 0 /\ workers[i].phase # "ended"

Init ==
  /\ iface = None /\ cfg = 0
  /\ worker = 0 /\ pending = FALSE /\ timer = FALSE /\ recent = FALSE
  /\ workers = <<>> /\ events = <<>> /\ asked = 0

\* _start_bg_worker.  The gateway it is given is not modelled.
StartWorker(f, n) ==
  /\ workers' = Append(workers, [on |-> f, since |-> n, phase |-> "reading"])
  /\ worker' = Len(workers) + 1

\* _request_bg_refresh for adapter f, the n-th request: the reading under way
\* is followed by another, or one is begun, or one is left to the timer.
Request(f, n, immediate) ==
  /\ asked' = n
  /\ \/ /\ Running(worker)
        /\ pending' = TRUE
        /\ UNCHANGED <<worker, timer, workers>>
     \/ /\ ~Running(worker)
        /\ immediate \/ ~recent
        /\ timer' = FALSE
        /\ StartWorker(f, n)
        /\ UNCHANGED pending
     \/ /\ ~Running(worker)
        /\ ~immediate /\ recent
        /\ timer' = TRUE
        /\ UNCHANGED <<worker, pending, workers>>

\* set_interface with another adapter than the one shown.
SetInterface(f) ==
  /\ asked < MaxAsked
  /\ f # iface
  /\ iface' = f
  /\ cfg' = 0
  /\ Request(f, asked + 1, TRUE)
  /\ UNCHANGED <<recent, events>>

\* Variant: also when no adapter is shown.
RefreshAnyway ==
  /\ asked < MaxAsked
  /\ Request(iface, asked + 1, FALSE)
  /\ UNCHANGED <<panel, recent, events>>

\* refresh, after a DHCP message or a change of the adapters, and a gateway
\* that an upstream walk discovered.
Refresh ==
  /\ asked < MaxAsked
  /\ iface # None
  /\ Request(iface, asked + 1, FALSE)
  /\ UNCHANGED <<panel, recent, events>>

TimerFires ==
  /\ timer
  /\ timer' = FALSE
  /\ \/ /\ Running(worker)
        /\ pending' = TRUE
        /\ UNCHANGED <<worker, workers>>
     \/ /\ ~Running(worker)
        /\ StartWorker(iface, asked)
        /\ UNCHANGED pending
  /\ UNCHANGED <<panel, recent, events, asked>>

\* The thread has read the configuration, run the checks, and reports.
Reports(i) ==
  /\ workers[i].phase = "reading"
  /\ workers' = [workers EXCEPT ![i].phase = "reported"]
  /\ events' = Append(events, i)
  /\ UNCHANGED <<panel, worker, pending, timer, recent, asked>>

ThreadEnds(i) ==
  /\ workers[i].phase = "reported"
  /\ workers' = [workers EXCEPT ![i].phase = "ended"]
  /\ UNCHANGED <<panel, worker, pending, timer, recent, events, asked>>

\* Variants: a reading is shown whatever it is of; one of another adapter is
\* dropped at once; a request that waits is not followed up, or again and again.
FinishedShowing ==
  /\ events # <<>>
  /\ cfg' = Head(events)
  /\ events' = Tail(events)
  /\ worker' = 0 /\ recent' = TRUE /\ pending' = FALSE
  /\ timer' = (timer \/ pending)
  /\ UNCHANGED <<iface, workers, asked>>

FinishedDropping ==
  /\ events # <<>>
  /\ events' = Tail(events)
  /\ IF workers[Head(events)].on = iface
     THEN /\ cfg' = Head(events)
          /\ worker' = 0 /\ recent' = TRUE /\ pending' = FALSE
          /\ timer' = (timer \/ pending)
     ELSE UNCHANGED <<cfg, worker, recent, pending, timer>>
  /\ UNCHANGED <<iface, workers, asked>>

FinishedForgetting ==
  /\ events # <<>>
  /\ cfg' = IF workers[Head(events)].on = iface THEN Head(events) ELSE cfg
  /\ events' = Tail(events)
  /\ worker' = 0 /\ recent' = TRUE /\ pending' = FALSE
  /\ UNCHANGED <<iface, timer, workers, asked>>

FinishedRepeating ==
  /\ events # <<>>
  /\ cfg' = IF workers[Head(events)].on = iface THEN Head(events) ELSE cfg
  /\ events' = Tail(events)
  /\ worker' = 0 /\ recent' = TRUE
  /\ timer' = (timer \/ pending)
  /\ UNCHANGED <<iface, pending, workers, asked>>

\* _on_worker_finished: a reading of another adapter is dropped; whatever
\* reading it was, the reference to the current one is let go.
Finished ==
  /\ events # <<>>
  /\ LET i == Head(events) IN cfg' = IF workers[i].on = iface THEN i ELSE cfg
  /\ events' = Tail(events)
  /\ worker' = 0
  /\ recent' = TRUE
  /\ pending' = FALSE
  /\ timer' = (timer \/ pending)
  /\ UNCHANGED <<iface, workers, asked>>

IntervalEnds ==
  /\ recent
  /\ recent' = FALSE
  /\ UNCHANGED <<panel, worker, pending, timer, workers, events, asked>>

Next ==
  \/ \E f \in Iface : SetInterface(f)
  \/ Refresh \/ TimerFires \/ Finished \/ IntervalEnds
  \/ \E i \in DOMAIN workers : Reports(i) \/ ThreadEnds(i)

Spec == Init /\ [][Next]_vars

\* Every command a reading runs has a timeout; the timer fires and signals are
\* delivered while the event loop turns.
FairSpec ==
  /\ Spec
  /\ WF_vars(TimerFires) /\ WF_vars(Finished)
  /\ \A i \in 1 .. MaxAsked :
       WF_vars(i \in DOMAIN workers /\ (Reports(i) \/ ThreadEnds(i)))

-----------------------------------------------------------------------------
(* Properties.                                                             *)

TypeOK ==
  /\ iface \in Iface \cup {None}
  /\ workers \in Seq(Reading) /\ Len(workers) <= asked
  /\ cfg \in 0 .. Len(workers) /\ worker \in 0 .. Len(workers)
  /\ events \in Seq(1 .. Len(workers))
  /\ pending \in BOOLEAN /\ timer \in BOOLEAN /\ recent \in BOOLEAN
  /\ asked \in 0 .. MaxAsked

\* The configuration shown is that of the adapter named, however late the
\* reading of another one comes in.
ShownIsOfAdapter == cfg # 0 => workers[cfg].on = iface

\* A reading whose end will still be announced.
Unannounced(i) ==
  workers[i].phase = "reading" \/ \E k \in DOMAIN events : events[k] = i

\* A request that waits for the end of a reading waits for one whose end will
\* be announced: the last request of a burst is not left waiting for nothing.
PendingHasWaker == pending => \E i \in DOMAIN workers : Unannounced(i)

\* Requests are coalesced and never multiplied: the readings begun, the one
\* the timer will begin and the one that waits were all asked for.  The end of
\* a reading does not by itself lead to another.
ReadsAreAskedFor ==
  Len(workers) + (IF timer THEN 1 ELSE 0) + (IF pending THEN 1 ELSE 0) <= asked

\* No refresh is lost: unless there is another request, a reading of the
\* adapter that was begun after the last one is delivered.  (It need not stay:
\* a reading that was let go may be delivered after a later one.)
RefreshAnswered ==
  \A n \in 1 .. MaxAsked :
    asked = n ~>
      \/ asked # n
      \/ \E i \in DOMAIN workers :
           workers[i].on = iface /\ workers[i].since >= n /\ ~Unannounced(i)
====
