-------------------------- MODULE ArpSession_proofs --------------------------
(***************************************************************************)
(* Proofs about ArpSession, for any number of frames and any devices: no   *)
(* sweep is given up for nothing, and the types, with the bound on the     *)
(* number of sweeps; then, for any adapters and answers, of the rules a    *)
(* sweep follows: what is swept is bounded and part of the host's own      *)
(* networks, and an address that is found is the device's.                 *)
(***************************************************************************)
EXTENDS MCArpSession, Octets_proofs

\* Only existing workers are referred to and stopped, and what is queued is a
\* frame of a device or a signal of a worker.
IInv ==
  /\ created \in Nat
  /\ worker \in (1 .. created) \cup {None}
  /\ stopped \subseteq 1 .. created
  /\ events \in Seq(Event)
  /\ GivenUpForSuccessor

LEMMA InitOK == Init => IInv
BY DEF Init, IInv, GivenUpForSuccessor

\* Taking the first event leaves a queue of events.
LEMMA DeliverStep ==
  ASSUME IInv, NEW kind, Delivers(kind)
  PROVE  events' \in Seq(Event) /\ Head(events) \in Event /\ Head(events).kind = kind
<1>1. events \in Seq(Event) /\ events # <<>>
  BY DEF IInv, Delivers
<1> QED
  BY <1>1 DEF Delivers

\* A new worker succeeds all that were stopped.
LEMMA StartStep ==
  ASSUME IInv, NEW d, Start(d), events' \in Seq(Event)
  PROVE  IInv'
<1>1. created' = created + 1 /\ worker' = created + 1 /\ stopped' = stopped /\ closed' = closed
  BY DEF Start
<1>2. created \in Nat /\ stopped \subseteq 1 .. created
  BY DEF IInv
<1>3. GivenUpForSuccessor'
  BY <1>1, <1>2 DEF GivenUpForSuccessor
<1> QED
  BY <1>1, <1>2, <1>3 DEF IInv

\* A worker is stopped only for a device that then waits for it.
LEMMA ResolveStep ==
  ASSUME IInv, NEW d \in Dev, StartArpResolve(d), events' \in Seq(Event)
  PROVE  IInv'
<1>1. CASE UNCHANGED <<control, threads>>
  BY <1>1 DEF IInv, GivenUpForSuccessor, control, threads
<1>2. CASE /\ Running(worker)
           /\ pending' = d
           /\ stopped' = stopped \cup {worker}
           /\ UNCHANGED <<worker, closed, created, devOf, phase, found>>
  <2>1. worker \in 1 .. created
    BY <1>2 DEF IInv, Running
  <2>2. pending' # None
    BY <1>2, ArpAssumption
  <2> QED
    BY <1>2, <2>1, <2>2 DEF IInv, GivenUpForSuccessor
<1>3. CASE Start(d)
  BY <1>3, StartStep
<1> QED
  BY <1>1, <1>2, <1>3 DEF StartArpResolve

\* When a worker is let go, the device that waits is next.
LEMMA PendingStep ==
  ASSUME IInv, CheckPendingArp, events' \in Seq(Event)
  PROVE  IInv'
<1>1. CASE pending # None
  BY <1>1, StartStep DEF CheckPendingArp
<1>2. CASE pending = None
  BY <1>2 DEF CheckPendingArp, IInv, GivenUpForSuccessor, threads
<1> QED
  BY <1>1, <1>2

\* Nothing changes but the panel and the queue.
LEMMA QueueStep ==
  ASSUME IInv, events' \in Seq(Event),
         UNCHANGED <<worker, pending, closed, created, stopped>>
  PROVE  IInv'
BY DEF IInv, GivenUpForSuccessor

LEMMA NextStep ==
  ASSUME IInv, [Next]_vars
  PROVE  IInv'
<1>0. events \in Seq(Event)
  BY DEF IInv
<1>1. ASSUME NEW d \in Dev, Hear(d)
      PROVE  IInv'
  <2>1. [kind |-> "device", dev |-> d] \in Event
    BY DEF Event
  <2> QED
    BY <1>0, <1>1, <2>1, QueueStep DEF Hear, control, threads
<1>2. CASE OnDevice
  <2>1. Delivers("device")
    BY <1>2 DEF OnDevice
  <2>2. events' \in Seq(Event) /\ Head(events).dev \in Dev
    BY <2>1, DeliverStep DEF Event
  <2>3. CASE StartArpResolve(Head(events).dev)
    BY <2>2, <2>3, ResolveStep
  <2>4. CASE UNCHANGED <<control, threads>>
    BY <2>2, <2>4, QueueStep DEF control, threads
  <2> QED
    BY <1>2, <2>3, <2>4 DEF OnDevice
<1>3. CASE Ask \/ Answer \/ Dismiss
  BY <1>0, <1>3, QueueStep DEF Ask, Answer, Dismiss, control, threads
<1>4. CASE Close
  <2>1. /\ closed' = TRUE
        /\ UNCHANGED <<worker, created, events>>
        /\ stopped' = IF Running(worker) THEN stopped \cup {worker} ELSE stopped
    BY <1>4 DEF Close
  <2>2. stopped' \subseteq 1 .. created
    BY <2>1 DEF IInv, Running
  <2> QED
    BY <2>1, <2>2 DEF IInv, GivenUpForSuccessor
<1>5. ASSUME NEW s \in Sweeps, SweepReturns(s)
      PROVE  IInv'
  <2>1. [kind |-> "cancelled", sweep |-> s] \in Event
    BY DEF Event
  <2>2. events' \in Seq(Event)
    BY <1>0, <1>5, <2>1 DEF SweepReturns
  <2> QED
    BY <1>5, <2>2, QueueStep DEF SweepReturns, control
<1>6. ASSUME NEW s \in Sweeps, Report(s)
      PROVE  IInv'
  <2>1. [kind |-> "finished", sweep |-> s] \in Event
    BY DEF Event
  <2>2. events' \in Seq(Event)
    BY <1>0, <1>6, <2>1 DEF Report
  <2> QED
    BY <1>6, <2>2, QueueStep DEF Report, control
<1>7. CASE OnArpResolved
  <2>1. Delivers("finished") /\ CheckPendingArp
    BY <1>7 DEF OnArpResolved
  <2> QED
    BY <2>1, DeliverStep, PendingStep
<1>8. CASE OnArpCancelled
  <2>1. Delivers("cancelled") /\ CheckPendingArp
    BY <1>8 DEF OnArpCancelled
  <2> QED
    BY <2>1, DeliverStep, PendingStep
<1>9. CASE UNCHANGED vars
  BY <1>0, <1>9, QueueStep DEF vars, control, threads
<1> QED
  BY <1>1, <1>2, <1>3, <1>4, <1>5, <1>6, <1>7, <1>8, <1>9 DEF Next, Ended

\* A worker that was told to stop has a successor, or a device waits for it to
\* end, whichever signals are still queued (_start_arp_resolve and
\* _check_pending_arp).
THEOREM NoneGivenUp == Spec => []GivenUpForSuccessor
<1>1. IInv => GivenUpForSuccessor
  BY DEF IInv
<1> QED
  BY <1>1, InitOK, NextStep, PTL DEF Spec

-----------------------------------------------------------------------------
(* The type invariant.  A frame starts one sweep at the most: it is queued, *)
(* then its device may wait, then it is swept for; so the sweeps, the       *)
(* device that waits and the frames queued are never more than the frames.  *)

\* c[i] is not less than the number of frames behind the first i events.
Frame(e) == IF e.kind = "device" THEN 1 ELSE 0
Bounds(c, q) == \A i \in 1 .. Len(q) : c[i] + Frame(q[i]) <= c[i - 1]
Waits == IF pending = None THEN 0 ELSE 1

Room == \E c \in [Nat -> Nat] : Bounds(c, events) /\ created + c[0] + Waits <= heard

\* Threads are those of workers.
ThreadsOK ==
  /\ devOf \in [Sweeps -> Dev \cup {None}]
  /\ \A s \in Sweeps : phase[s] \in {"sweeping", "passed"} => s <= created

TInv == TypeOK /\ ThreadsOK /\ Room

LEMMA TInitOK == Init => TInv
<1> SUFFICES ASSUME Init PROVE TInv
  OBVIOUS
<1>1. TypeOK
  <2>1. <<>> \in Seq(Event) /\ 0 \in 0 .. MaxFrames
    BY ArpAssumption
  <2>2. [s \in Sweeps |-> "none"] \in [Sweeps -> {"none", "sweeping", "passed", "gone"}]
    OBVIOUS
  <2>3. \A s \in 1 .. created : FALSE
    BY DEF Init
  <2> QED
    BY <2>1, <2>2, <2>3 DEF Init, TypeOK
<1>2. ThreadsOK
  BY DEF Init, ThreadsOK
<1>3. Room
  <2> DEFINE c == [i \in Nat |-> 0]
  <2>1. c \in [Nat -> Nat] /\ c[0] = 0
    OBVIOUS
  <2>2. Bounds(c, events) /\ Waits = 0
    BY DEF Init, Bounds, Waits
  <2>3. created + c[0] + Waits <= heard
    BY <2>1, <2>2 DEF Init
  <2> QED
    BY <2>1, <2>2, <2>3 DEF Room
<1> QED
  BY <1>1, <1>2, <1>3 DEF TInv

LEMMA Numbers ==
  ASSUME TypeOK
  PROVE  /\ created \in Nat /\ heard \in Nat /\ MaxFrames \in Nat
         /\ Waits \in {0, 1} /\ events \in Seq(Event)
BY ArpAssumption DEF TypeOK, Waits

\* What is true of some numbers stays true when m is added on both sides.
LEMMA AddBoth ==
  ASSUME NEW m \in Nat, NEW a \in Nat, NEW b \in Nat, NEW k \in Nat
  PROVE  /\ a + k <= b => (a + m) + k <= b + m
         /\ \A w \in Nat : a + b + w <= k => a + (b + m) + w <= k + m
OBVIOUS

\* A bound for a queue with one event more.
LEMMA BoundsAppend ==
  ASSUME NEW q \in Seq(Event), NEW e \in Event,
         NEW c \in [Nat -> Nat], Bounds(c, q)
  PROVE  \E d \in [Nat -> Nat] : Bounds(d, Append(q, e)) /\ d[0] = c[0] + Frame(e)
<1> DEFINE n == Len(q)
<1> DEFINE m == Frame(e)
<1>1. n \in Nat /\ m \in {0, 1} /\ m \in Nat
  BY DEF Frame
<1>2. /\ Len(Append(q, e)) = n + 1 /\ Append(q, e)[n + 1] = e
      /\ \A i \in 1 .. n : Append(q, e)[i] = q[i]
  OBVIOUS
<1>3. \A i \in 1 .. n : c[i] + Frame(q[i]) <= c[i - 1]
  BY DEF Bounds
<1> HIDE DEF n, m
<1> DEFINE d == [i \in Nat |-> IF i <= n THEN c[i] + m ELSE 0]
<1>4. d \in [Nat -> Nat]
  BY <1>1
<1>5. \A i \in 0 .. n : d[i] = c[i] + m
  BY <1>1
<1>6. d[n + 1] = 0
  BY <1>1
<1> HIDE DEF d
<1>7. \A i \in 1 .. n + 1 : d[i] + Frame(Append(q, e)[i]) <= d[i - 1]
  <2> TAKE i \in 1 .. n + 1
  <2>1. CASE i \in 1 .. n
    <3>1. i \in 0 .. n /\ i - 1 \in 0 .. n /\ i \in Nat /\ i - 1 \in Nat
      BY <1>1, <2>1
    <3>2. d[i] = c[i] + m /\ d[i - 1] = c[i - 1] + m /\ c[i] \in Nat /\ c[i - 1] \in Nat
      BY <1>5, <3>1
    <3>3. Frame(q[i]) \in Nat /\ c[i] + Frame(q[i]) <= c[i - 1]
      BY <1>3, <2>1 DEF Frame
    <3>4. (c[i] + m) + Frame(q[i]) <= c[i - 1] + m
      BY <1>1, <3>2, <3>3, AddBoth
    <3>5. Append(q, e)[i] = q[i]
      BY <1>2, <2>1
    <3> QED
      BY <3>2, <3>4, <3>5
  <2>2. CASE i = n + 1
    <3>1. i - 1 = n /\ n \in 0 .. n /\ c[n] \in Nat
      BY <1>1, <2>2
    <3>2. d[i] = 0 /\ d[i - 1] = c[n] + m
      BY <1>5, <1>6, <2>2, <3>1
    <3>3. Frame(Append(q, e)[i]) = m
      BY <1>2, <2>2 DEF m
    <3> QED
      BY <1>1, <3>1, <3>2, <3>3
  <2>3. i \in 1 .. n \/ i = n + 1
    BY <1>1
  <2> QED
    BY <2>1, <2>2, <2>3
<1>8. Bounds(d, Append(q, e))
  BY <1>2, <1>7 DEF Bounds
<1>9. d[0] = c[0] + m
  BY <1>1, <1>5
<1> QED
  BY <1>4, <1>8, <1>9 DEF m

\* A bound for a queue without its first event.
LEMMA BoundsTail ==
  ASSUME NEW q \in Seq(Event), q # <<>>,
         NEW c \in [Nat -> Nat], Bounds(c, q)
  PROVE  \E d \in [Nat -> Nat] : Bounds(d, Tail(q)) /\ d[0] + Frame(Head(q)) <= c[0]
<1> DEFINE n == Len(q)
<1>1. n \in Nat /\ n >= 1
  OBVIOUS
<1>2. /\ Len(Tail(q)) = n - 1 /\ Head(q) = q[1]
      /\ \A i \in 1 .. n - 1 : Tail(q)[i] = q[i + 1]
  OBVIOUS
<1>3. \A i \in 1 .. n : c[i] + Frame(q[i]) <= c[i - 1]
  BY DEF Bounds
<1> HIDE DEF n
<1> DEFINE d == [i \in Nat |-> c[i + 1]]
<1>4. d \in [Nat -> Nat] /\ \A i \in Nat : d[i] = c[i + 1]
  OBVIOUS
<1> HIDE DEF d
<1>5. \A i \in 1 .. n - 1 : d[i] + Frame(Tail(q)[i]) <= d[i - 1]
  <2> TAKE i \in 1 .. n - 1
  <2>1. i \in Nat /\ i - 1 \in Nat /\ i + 1 \in 1 .. n /\ (i - 1) + 1 = i /\ (i + 1) - 1 = i
    BY <1>1
  <2>2. d[i] = c[i + 1] /\ d[i - 1] = c[i]
    BY <1>4, <2>1
  <2>3. c[i + 1] + Frame(q[i + 1]) <= c[i]
    BY <1>3, <2>1
  <2> QED
    BY <1>2, <2>2, <2>3
<1>6. Bounds(d, Tail(q))
  BY <1>2, <1>5 DEF Bounds
<1>7. d[0] + Frame(Head(q)) <= c[0]
  <2>1. d[0] = c[1]
    BY <1>4
  <2>2. 1 \in 1 .. n /\ 1 - 1 = 0
    BY <1>1
  <2>3. c[1] + Frame(q[1]) <= c[0]
    BY <1>3, <2>2
  <2> QED
    BY <1>2, <2>1, <2>3
<1> QED
  BY <1>4, <1>6, <1>7

\* An event more leaves room, if a frame that it carries is counted.
LEMMA AppendRoom ==
  ASSUME TInv, NEW e \in Event, events' = Append(events, e),
         UNCHANGED <<created, pending>>, heard' = heard + Frame(e)
  PROVE  Room'
<1>1. PICK c \in [Nat -> Nat] : Bounds(c, events) /\ created + c[0] + Waits <= heard
  BY DEF TInv, Room
<1>2. PICK d \in [Nat -> Nat] : Bounds(d, Append(events, e)) /\ d[0] = c[0] + Frame(e)
  BY <1>1, Numbers, BoundsAppend DEF TInv
<1>3. created \in Nat /\ heard \in Nat /\ Waits \in {0, 1} /\ c[0] \in Nat /\ Frame(e) \in Nat
  BY Numbers DEF TInv, Frame
<1>4. created + (c[0] + Frame(e)) + Waits <= heard + Frame(e)
  BY <1>1, <1>3, AddBoth
<1>5. Bounds(d, events')
  BY <1>2
<1>6. created' + d[0] + Waits' <= heard'
  BY <1>2, <1>4 DEF Waits
<1> QED
  BY <1>5, <1>6 DEF Room

\* The event delivered leaves room for what it may lead to.
LEMMA TailRoom ==
  ASSUME TInv, NEW kind, Delivers(kind)
  PROVE  /\ events' \in Seq(Event) /\ Head(events) \in Event /\ Head(events).kind = kind
         /\ \E d \in [Nat -> Nat] :
              /\ Bounds(d, events')
              /\ created + d[0] + Waits + Frame(Head(events)) <= heard
<1>1. PICK c \in [Nat -> Nat] : Bounds(c, events) /\ created + c[0] + Waits <= heard
  BY DEF TInv, Room
<1>2. events \in Seq(Event) /\ events # <<>> /\ events' = Tail(events) /\ Head(events).kind = kind
  BY DEF TInv, TypeOK, Delivers
<1>3. PICK d \in [Nat -> Nat] : Bounds(d, Tail(events)) /\ d[0] + Frame(Head(events)) <= c[0]
  BY <1>1, <1>2, BoundsTail
<1>4. /\ created \in Nat /\ heard \in Nat /\ Waits \in {0, 1}
      /\ c[0] \in Nat /\ d[0] \in Nat /\ Frame(Head(events)) \in {0, 1}
  BY Numbers DEF TInv, Frame
<1>5. created + d[0] + Waits + Frame(Head(events)) <= heard
  BY <1>1, <1>3, <1>4
<1>6. Bounds(d, events') /\ events' \in Seq(Event) /\ Head(events) \in Event
  BY <1>2, <1>3
<1> QED
  BY <1>2, <1>5, <1>6

\* The part of the types that concerns the workers.
ControlOK ==
  /\ worker \in (1 .. created) \cup {None}
  /\ pending \in (Chassis \ Addressed) \cup {None}
  /\ closed \in BOOLEAN
  /\ created \in 0 .. MaxFrames
  /\ \A s \in 1 .. created : devOf[s] \in Chassis \ Addressed
  /\ phase \in [Sweeps -> {"none", "sweeping", "passed", "gone"}]
  /\ stopped \subseteq 1 .. created /\ found \subseteq 1 .. created
  /\ ThreadsOK

\* The part that concerns the panel.
PanelOK ==
  /\ shown \in Dev \cup {None}
  /\ addr \in Address \cup {None}
  /\ asking \in Dev \cup {None}

LEMMA Parts ==
  TInv <=> PanelOK /\ ControlOK /\ events \in Seq(Event) /\ heard \in 0 .. MaxFrames /\ Room
BY DEF TInv, TypeOK, PanelOK, ControlOK

LEMMA PartsNext ==
  ASSUME PanelOK', ControlOK', events' \in Seq(Event), heard' \in 0 .. MaxFrames, Room'
  PROVE  TInv'
BY DEF TInv, TypeOK, PanelOK, ControlOK

LEMMA StartControl ==
  ASSUME TInv, NEW x \in Chassis \ Addressed, Start(x), created + 1 <= heard
  PROVE  ControlOK' /\ created' = created + 1 /\ pending' = None
<1>1. /\ created' = created + 1 /\ worker' = created + 1 /\ pending' = None
      /\ devOf' = [devOf EXCEPT ![created + 1] = x]
      /\ phase' = [phase EXCEPT ![created + 1] = "sweeping"]
      /\ closed' = closed /\ stopped' = stopped /\ found' = found
  BY DEF Start
<1>2. ControlOK /\ heard \in 0 .. MaxFrames /\ MaxFrames \in Nat
  BY Parts, ArpAssumption
<1>3. /\ created \in Nat /\ created + 1 \in Sweeps /\ created + 1 \in 0 .. MaxFrames
      /\ \A s \in 1 .. created + 1 : s \in Sweeps /\ (s # created + 1 => s \in 1 .. created)
  BY <1>2 DEF ControlOK, Sweeps
<1>4. devOf \in [Sweeps -> Dev \cup {None}] /\ x \in Dev
  BY <1>2, ArpAssumption DEF ControlOK, ThreadsOK
<1>5. \A s \in 1 .. created' : devOf'[s] \in Chassis \ Addressed
  BY <1>1, <1>2, <1>3, <1>4 DEF ControlOK
<1>6. phase' \in [Sweeps -> {"none", "sweeping", "passed", "gone"}]
  BY <1>1, <1>2 DEF ControlOK
<1>7. devOf' \in [Sweeps -> Dev \cup {None}]
  BY <1>1, <1>4
<1>8. \A s \in Sweeps : phase'[s] \in {"sweeping", "passed"} => s <= created'
  <2> TAKE s \in Sweeps
  <2>1. CASE s = created + 1
    BY <1>1, <1>3, <2>1
  <2>2. CASE s # created + 1
    <3>1. phase'[s] = phase[s] /\ (phase[s] \in {"sweeping", "passed"} => s <= created)
      BY <1>1, <1>2, <2>2 DEF ControlOK, ThreadsOK
    <3> QED
      BY <1>1, <1>3, <3>1 DEF Sweeps
  <2> QED
    BY <2>1, <2>2
<1>9. worker' \in 1 .. created' /\ stopped' \subseteq 1 .. created' /\ found' \subseteq 1 .. created'
  BY <1>1, <1>2, <1>3 DEF ControlOK
<1> QED
  BY <1>1, <1>2, <1>3, <1>5, <1>6, <1>7, <1>8, <1>9 DEF ControlOK, ThreadsOK

\* A frame that is shown is swept for, waits, or leaves everything as it was.
LEMMA ResolveTInv ==
  ASSUME TInv, Delivers("device"), PanelOK', heard' = heard,
         \/ Head(events).dev \in Chassis \ Addressed /\ StartArpResolve(Head(events).dev)
         \/ UNCHANGED <<control, threads>>
  PROVE  TInv'
<1>1. events' \in Seq(Event) /\ Head(events).kind = "device"
  BY TailRoom
<1>2. PICK d \in [Nat -> Nat] :
        Bounds(d, events') /\ created + d[0] + Waits + Frame(Head(events)) <= heard
  BY TailRoom
<1>3. Frame(Head(events)) = 1
  BY <1>1 DEF Frame
<1>4. created \in Nat /\ heard \in Nat /\ Waits \in {0, 1} /\ d[0] \in Nat
  BY Numbers DEF TInv
<1>5. created + d[0] + Waits + 1 <= heard
  BY <1>2, <1>3
<1>6. heard' \in 0 .. MaxFrames /\ ControlOK
  BY Parts
<1>7. CASE UNCHANGED <<control, threads>>
  <2>1. ControlOK'
    BY <1>6, <1>7 DEF ControlOK, ThreadsOK, control, threads
  <2>2. created' = created /\ Waits' = Waits
    BY <1>7 DEF control, threads, Waits
  <2>3. created' + d[0] + Waits' <= heard'
    BY <1>4, <1>5, <2>2
  <2> QED
    BY <1>1, <1>2, <1>6, <2>1, <2>3, PartsNext DEF Room
<1>8. CASE /\ Head(events).dev \in Chassis \ Addressed
           /\ Running(worker)
           /\ pending' = Head(events).dev
           /\ stopped' = stopped \cup {worker}
           /\ UNCHANGED <<worker, closed, created, devOf, phase, found>>
  <2>1. worker \in 1 .. created
    BY <1>6, <1>8 DEF ControlOK, Running
  <2>2. ControlOK'
    BY <1>6, <1>8, <2>1 DEF ControlOK, ThreadsOK
  <2>3. Waits' \in {0, 1} /\ created' = created
    BY <1>8 DEF Waits
  <2>4. created' + d[0] + Waits' <= heard'
    BY <1>4, <1>5, <2>3
  <2> QED
    BY <1>1, <1>2, <1>6, <2>2, <2>4, PartsNext DEF Room
<1>9. CASE Head(events).dev \in Chassis \ Addressed /\ Start(Head(events).dev)
  <2>1. created + 1 <= heard
    BY <1>4, <1>5
  <2>2. ControlOK' /\ created' = created + 1 /\ pending' = None
    BY <1>9, <2>1, StartControl
  <2>3. created' + d[0] + Waits' <= heard'
    BY <1>4, <1>5, <2>2 DEF Waits
  <2> QED
    BY <1>1, <1>2, <1>6, <2>2, <2>3, PartsNext DEF Room
<1> QED
  BY <1>7, <1>8, <1>9 DEF StartArpResolve

\* A signal makes room for the device that waits.
LEMMA PendingTInv ==
  ASSUME TInv, NEW kind, kind # "device", Delivers(kind), PanelOK', heard' = heard,
         CheckPendingArp
  PROVE  TInv'
<1>1. events' \in Seq(Event) /\ Head(events).kind = kind
  BY TailRoom
<1>2. PICK d \in [Nat -> Nat] :
        Bounds(d, events') /\ created + d[0] + Waits + Frame(Head(events)) <= heard
  BY TailRoom
<1>3. Frame(Head(events)) = 0
  BY <1>1 DEF Frame
<1>4. created \in Nat /\ heard \in Nat /\ Waits \in {0, 1} /\ d[0] \in Nat
  BY Numbers DEF TInv
<1>5. created + d[0] + Waits <= heard
  BY <1>2, <1>3, <1>4
<1>6. heard' \in 0 .. MaxFrames /\ ControlOK
  BY Parts
<1>7. CASE pending # None
  <2>1. Start(pending) /\ pending \in Chassis \ Addressed /\ Waits = 1
    BY <1>6, <1>7 DEF CheckPendingArp, ControlOK, Waits
  <2>2. created + 1 <= heard
    BY <1>4, <1>5, <2>1
  <2>3. ControlOK' /\ created' = created + 1 /\ pending' = None
    BY <2>1, <2>2, StartControl
  <2>4. created' + d[0] + Waits' <= heard'
    BY <1>4, <1>5, <2>1, <2>3 DEF Waits
  <2> QED
    BY <1>1, <1>2, <1>6, <2>3, <2>4, PartsNext DEF Room
<1>8. CASE pending = None
  <2>1. worker' = None /\ UNCHANGED <<pending, closed, threads>>
    BY <1>8 DEF CheckPendingArp
  <2>2. ControlOK'
    BY <1>6, <2>1 DEF ControlOK, ThreadsOK, threads
  <2>3. created' + d[0] + Waits' <= heard'
    BY <1>4, <1>5, <2>1 DEF Waits, threads
  <2> QED
    BY <1>1, <1>2, <1>6, <2>2, <2>3, PartsNext DEF Room
<1> QED
  BY <1>7, <1>8

\* The queue and the number of sweeps stay as they are.
LEMMA QuietTInv ==
  ASSUME TInv, PanelOK', ControlOK', UNCHANGED <<created, pending, events, heard>>
  PROVE  TInv'
<1>1. Room'
  BY DEF TInv, Room, Waits
<1>2. events' \in Seq(Event) /\ heard' \in 0 .. MaxFrames
  BY Parts
<1> QED
  BY <1>1, <1>2, PartsNext

\* The queue gets an event more.
LEMMA AppendTInv ==
  ASSUME TInv, PanelOK', ControlOK', NEW e \in Event, events' = Append(events, e),
         UNCHANGED <<created, pending>>,
         heard' = heard + Frame(e), heard' \in 0 .. MaxFrames
  PROVE  TInv'
<1>1. Room'
  BY AppendRoom
<1>2. events' \in Seq(Event)
  BY Parts
<1> QED
  BY <1>1, <1>2, PartsNext

\* A thread's step touches neither the panel nor what the window refers to.
LEMMA ThreadTInv ==
  ASSUME TInv, NEW s \in Sweeps, SweepReturns(s) \/ Report(s)
  PROVE  TInv'
<1>1. PanelOK /\ ControlOK /\ heard \in 0 .. MaxFrames /\ created \in Nat /\ heard \in Nat
  BY Parts, Numbers DEF TInv
<1>2. s \in 1 .. created
  BY <1>1 DEF SweepReturns, Report, ControlOK, ThreadsOK, Sweeps
<1>3. PanelOK' /\ UNCHANGED <<worker, pending, closed, created, devOf, stopped, heard>>
  BY <1>1 DEF SweepReturns, Report, PanelOK, panel, control
<1>4. found' \subseteq 1 .. created
  BY <1>1, <1>2 DEF SweepReturns, Report, ControlOK
<1>5. phase' \in [Sweeps -> {"none", "sweeping", "passed", "gone"}]
  BY <1>1 DEF SweepReturns, Report, ControlOK
<1>6. \A t \in Sweeps : phase'[t] \in {"sweeping", "passed"} => t <= created'
  BY <1>1, <1>2, <1>3 DEF SweepReturns, Report, ControlOK, ThreadsOK
<1>7. ControlOK'
  BY <1>1, <1>3, <1>4, <1>5, <1>6 DEF ControlOK, ThreadsOK
<1>8. \/ UNCHANGED events
      \/ events' = Append(events, [kind |-> "cancelled", sweep |-> s])
      \/ events' = Append(events, [kind |-> "finished", sweep |-> s])
  BY DEF SweepReturns, Report
<1>9. CASE UNCHANGED events
  BY <1>3, <1>7, <1>9, QuietTInv
<1>10. ASSUME NEW k \in {"finished", "cancelled"},
              events' = Append(events, [kind |-> k, sweep |-> s])
       PROVE  TInv'
  <2>1. [kind |-> k, sweep |-> s] \in Event /\ Frame([kind |-> k, sweep |-> s]) = 0
    BY DEF Event, Frame
  <2>2. heard' = heard + Frame([kind |-> k, sweep |-> s])
    BY <1>1, <1>3, <2>1
  <2> QED
    BY <1>1, <1>3, <1>7, <1>10, <2>1, <2>2, AppendTInv
<1> QED
  BY <1>8, <1>9, <1>10

LEMMA TNextStep ==
  ASSUME TInv, [Next]_vars
  PROVE  TInv'
<1>0. PanelOK /\ ControlOK /\ heard \in 0 .. MaxFrames /\ heard \in Nat /\ MaxFrames \in Nat
  BY Parts, Numbers DEF TInv
<1>1. ASSUME NEW d \in Dev, Hear(d)
      PROVE  TInv'
  <2>1. [kind |-> "device", dev |-> d] \in Event /\ Frame([kind |-> "device", dev |-> d]) = 1
    BY DEF Event, Frame
  <2>2. PanelOK' /\ ControlOK' /\ UNCHANGED <<created, pending>>
    BY <1>0, <1>1 DEF Hear, PanelOK, ControlOK, ThreadsOK, panel, control, threads
  <2>3. /\ heard' = heard + 1 /\ heard' \in 0 .. MaxFrames
        /\ events' = Append(events, [kind |-> "device", dev |-> d])
    BY <1>0, <1>1 DEF Hear
  <2> QED
    BY <2>1, <2>2, <2>3, AppendTInv
<1>2. CASE OnDevice
  <2>1. Delivers("device") /\ heard' = heard
    BY <1>2 DEF OnDevice
  <2>2. Head(events).dev \in Dev
    BY <2>1, TailRoom DEF Event
  <2>3. PanelOK'
    BY <1>0, <1>2, <2>2 DEF OnDevice, PanelOK, Address
  <2>4. \/ Head(events).dev \in Chassis \ Addressed /\ StartArpResolve(Head(events).dev)
        \/ UNCHANGED <<control, threads>>
    BY <1>2 DEF OnDevice
  <2> QED
    BY <2>1, <2>3, <2>4, ResolveTInv
<1>3. CASE Ask \/ Answer \/ Dismiss
  <2>1. PanelOK'
    BY <1>0, <1>3 DEF Ask, Answer, Dismiss, PanelOK, Address
  <2>2. ControlOK' /\ UNCHANGED <<created, pending, events, heard>>
    BY <1>0, <1>3 DEF Ask, Answer, Dismiss, ControlOK, ThreadsOK, control, threads
  <2> QED
    BY <2>1, <2>2, QuietTInv
<1>4. CASE Close
  <2>1. PanelOK' /\ UNCHANGED <<created, pending, events, heard>>
    BY <1>0, <1>4 DEF Close, PanelOK, panel
  <2>2. stopped' \subseteq 1 .. created
    BY <1>0, <1>4 DEF Close, ControlOK, Running
  <2>3. ControlOK'
    BY <1>0, <1>4, <2>1, <2>2 DEF Close, ControlOK, ThreadsOK
  <2> QED
    BY <2>1, <2>3, QuietTInv
<1>5. ASSUME NEW s \in Sweeps, SweepReturns(s) \/ Report(s)
      PROVE  TInv'
  BY <1>5, ThreadTInv
<1>6. CASE OnArpResolved
  <2>1. Delivers("finished") /\ CheckPendingArp /\ heard' = heard
    BY <1>6 DEF OnArpResolved
  <2>2. \A s \in found : devOf[s] \in Dev
    BY <1>0, ArpAssumption DEF ControlOK
  <2>3. PanelOK'
    BY <1>0, <1>6, <2>2 DEF OnArpResolved, PanelOK, Address
  <2> QED
    BY <2>1, <2>3, PendingTInv
<1>7. CASE OnArpCancelled
  <2>1. Delivers("cancelled") /\ CheckPendingArp /\ heard' = heard
    BY <1>7 DEF OnArpCancelled
  <2>2. PanelOK'
    BY <1>0, <1>7 DEF OnArpCancelled, PanelOK, panel
  <2> QED
    BY <2>1, <2>2, PendingTInv
<1>8. CASE UNCHANGED vars
  BY <1>0, <1>8, QuietTInv DEF vars, panel, control, threads, PanelOK, ControlOK, ThreadsOK
<1> QED
  BY <1>1, <1>2, <1>3, <1>4, <1>5, <1>6, <1>7, <1>8 DEF Next, Ended

\* Every variable keeps its type; in particular a frame starts one sweep at the
\* most, and only a device without an address of its own is swept for
\* (_on_device, _start_arp_resolve and _check_pending_arp).
THEOREM TypeCorrect == Spec => []TypeOK
<1>1. TInv => TypeOK
  BY DEF TInv
<1> QED
  BY <1>1, TInitOK, TNextStep, PTL DEF Spec

-----------------------------------------------------------------------------
(* Networks.                                                               *)

\* The powers of two, and those that a prefix cuts an octet at.
Widths == {1, 2, 4, 8, 16, 32, 64, 128, 256}
Width(f, w) ==
  /\ f = 0 => w = 1
  /\ f = 1 => w = 2
  /\ f = 2 => w = 4
  /\ f = 3 => w = 8
  /\ f = 4 => w = 16
  /\ f = 5 => w = 32
  /\ f = 6 => w = 64
  /\ f = 7 => w = 128
  /\ f = 8 => w = 256
  /\ f = 9 => w = 512
  /\ f = 10 => w = 1024

LEMMA Powers ==
  ASSUME NEW f
  PROVE  Width(f, 2 ^ f)
<1>0. f = 0 => 2 ^ f = 1
  <2>1. 2 ^ 0 = 1
    OBVIOUS
  <2> QED
    BY <2>1, SMT
<1>1. f = 1 => 2 ^ f = 2
  <2>1. 2 ^ 1 = 2
    OBVIOUS
  <2> QED
    BY <2>1, SMT
<1>2. f = 2 => 2 ^ f = 4
  <2>1. 2 ^ 2 = 4
    OBVIOUS
  <2> QED
    BY <2>1, SMT
<1>3. f = 3 => 2 ^ f = 8
  <2>1. 2 ^ 3 = 8
    OBVIOUS
  <2> QED
    BY <2>1, SMT
<1>4. f = 4 => 2 ^ f = 16
  <2>1. 2 ^ 4 = 16
    OBVIOUS
  <2> QED
    BY <2>1, SMT
<1>5. f = 5 => 2 ^ f = 32
  <2>1. 2 ^ 5 = 32
    OBVIOUS
  <2> QED
    BY <2>1, SMT
<1>6. f = 6 => 2 ^ f = 64
  <2>1. 2 ^ 6 = 64
    OBVIOUS
  <2> QED
    BY <2>1, SMT
<1>7. f = 7 => 2 ^ f = 128
  <2>1. 2 ^ 7 = 128
    OBVIOUS
  <2> QED
    BY <2>1, SMT
<1>8. f = 8 => 2 ^ f = 256
  <2>1. 2 ^ 8 = 256
    OBVIOUS
  <2> QED
    BY <2>1, SMT
<1>9. f = 9 => 2 ^ f = 512
  <2>1. 2 ^ 9 = 512
    OBVIOUS
  <2> QED
    BY <2>1, SMT
<1>10. f = 10 => 2 ^ f = 1024
  <2>1. 2 ^ 10 = 1024
    OBVIOUS
  <2> QED
    BY <2>1, SMT
<1> QED
  BY <1>0, <1>1, <1>2, <1>3, <1>4, <1>5, <1>6, <1>7, <1>8, <1>9, <1>10, Zenon DEF Width

LEMMA WidthOf ==
  ASSUME NEW f \in 0 .. 8, NEW w, Width(f, w)
  PROVE  w \in Widths
<1>1. f = 0 \/ f = 1 \/ f = 2 \/ f = 3 \/ f = 4 \/ f = 5 \/ f = 6 \/ f = 7 \/ f = 8
  OBVIOUS
<1> QED
  BY <1>1 DEF Width, Widths

LEMMA WidthDivides ==
  ASSUME NEW f \in 0 .. 8, NEW g \in f .. 8, NEW v, NEW w, Width(f, v), Width(g, w)
  PROVE  \E k \in Widths : w = k * v
<1>1. f = 0 \/ f = 1 \/ f = 2 \/ f = 3 \/ f = 4 \/ f = 5 \/ f = 6 \/ f = 7 \/ f = 8
  OBVIOUS
<1>2. g = 0 \/ g = 1 \/ g = 2 \/ g = 3 \/ g = 4 \/ g = 5 \/ g = 6 \/ g = 7 \/ g = 8
  OBVIOUS
<1> QED
  BY <1>1, <1>2 DEF Width, Widths

\* To clear the lower bits of an octet is to be left with an octet; to clear
\* more after them is to clear more at once.
LEMMA ClearBits ==
  ASSUME NEW x \in Octet, NEW w \in Widths
  PROVE  (x \div w) * w \in Octet
BY DEF Octet, Widths

LEMMA ClearMore ==
  ASSUME NEW x \in Octet, NEW v \in Widths, NEW k \in Widths
  PROVE  (((x \div v) * v) \div (k * v)) * (k * v) = (x \div (k * v)) * (k * v)
BY DEF Octet, Widths

LEMMA FreeBits ==
  ASSUME NEW i \in 1 .. 4, NEW p \in 0 .. 32, NEW q \in 0 .. p
  PROVE  Free(p, i) \in 0 .. 8 /\ Free(q, i) \in Free(p, i) .. 8
BY DEF Free

\* Of a network, a part by a longer prefix is part of the network.
LEMMA MaskedAgain ==
  ASSUME NEW a \in Addr, NEW p \in 0 .. 32, NEW q \in 0 .. p
  PROVE  Masked(a, p) \in Addr /\ Masked(Masked(a, p), q) = Masked(a, q)
<1>1. ASSUME NEW i \in 1 .. 4
      PROVE  /\ Masked(a, p)[i] \in Octet
             /\ (Masked(a, p)[i] \div 2 ^ Free(q, i)) * 2 ^ Free(q, i)
                  = (a[i] \div 2 ^ Free(q, i)) * 2 ^ Free(q, i)
  <2>1. Free(p, i) \in 0 .. 8 /\ Free(q, i) \in Free(p, i) .. 8
    BY FreeBits
  <2>2. a[i] \in Octet
    BY DEF Addr
  <2>3. PICK v : v = 2 ^ Free(p, i)
    OBVIOUS
  <2>4. PICK w : w = 2 ^ Free(q, i)
    OBVIOUS
  <2>5. Width(Free(p, i), v) /\ Width(Free(q, i), w)
    BY <2>3, <2>4, Powers, Zenon
  <2>6. v \in Widths
    BY <2>1, <2>5, WidthOf
  <2>7. PICK k \in Widths : w = k * v
    BY <2>1, <2>5, WidthDivides
  <2>8. Masked(a, p)[i] = (a[i] \div v) * v
    BY <2>3, Zenon DEF Masked
  <2>9. Masked(a, p)[i] \in Octet
    BY <2>2, <2>6, <2>8, ClearBits
  <2>10. (Masked(a, p)[i] \div w) * w = (a[i] \div w) * w
    BY <2>2, <2>6, <2>7, <2>8, ClearMore, Zenon
  <2> QED
    BY <2>4, <2>9, <2>10, Zenon
<1>2. Masked(a, p) \in Addr
  <2>1. Masked(a, p) = [i \in 1 .. 4 |-> Masked(a, p)[i]]
    BY DEF Masked
  <2> QED
    BY <1>1, <2>1, Zenon DEF Addr
<1>3. Masked(Masked(a, p), q) = Masked(a, q)
  <2>1. \A i \in 1 .. 4 : (Masked(a, p)[i] \div 2 ^ Free(q, i)) * 2 ^ Free(q, i)
                            = (a[i] \div 2 ^ Free(q, i)) * 2 ^ Free(q, i)
    BY <1>1, Zenon
  <2> QED
    BY <2>1, Zenon DEF Masked
<1> QED
  BY <1>2, <1>3

\* So what is in the part is in the network,
LEMMA PartOfNet ==
  ASSUME NEW a \in Addr, NEW p \in 0 .. 32, NEW q \in 0 .. p
  PROVE  Net(Masked(a, p), q) = Net(a, q)
BY MaskedAgain, Zenon DEF Net

LEMMA OwnNet ==
  ASSUME NEW a \in Addr, NEW p \in 0 .. 32
  PROVE  Contained(a, Net(a, p)) /\ Within(Net(a, p), Net(a, p))
<1>1. p \in 0 .. p /\ p <= p
  OBVIOUS
<1>2. Net(a, p).prefix = p /\ Net(a, p).net = Masked(a, p)
  BY DEF Net
<1> QED
  BY <1>1, <1>2, PartOfNet, Zenon DEF Contained, Within

\* and the part of a network around one of its addresses is within it.
LEMMA WithinNet ==
  ASSUME NEW a \in Addr, NEW p \in 0 .. 32, NEW n, n.prefix \in 0 .. p, Contained(a, n)
  PROVE  Within(Net(a, p), n)
<1>1. Net(a, p).prefix = p /\ Net(a, p).net = Masked(a, p)
  BY DEF Net
<1>2. Net(Masked(a, p), n.prefix) = n
  BY PartOfNet DEF Contained
<1>3. n.prefix <= p
  OBVIOUS
<1> QED
  BY <1>1, <1>2, <1>3, Zenon DEF Contained, Within

LEMMA ContainedWithin ==
  ASSUME NEW a \in Addr, NEW b \in Addr, NEW p \in 0 .. 32, NEW n,
         n.prefix \in Nat, Within(Net(b, p), n), Contained(a, Net(b, p))
  PROVE  Contained(a, n)
<1>1. Net(b, p).prefix = p /\ Net(a, p).net = Masked(a, p)
  BY DEF Net
<1>2. Net(a, p) = Net(b, p) /\ Net(b, p).net = Masked(a, p)
  BY <1>1 DEF Contained
<1>3. n.prefix \in 0 .. p
  BY <1>1 DEF Within
<1>4. Net(Masked(a, p), n.prefix) = n
  BY <1>2 DEF Contained, Within
<1> QED
  BY <1>3, <1>4, PartOfNet DEF Contained

\* The private blocks.
LEMMA PrivatePrefix ==
  ASSUME NEW block \in Private
  PROVE  block.prefix \in 0 .. 32
BY DEF Private, Loopback, Net

LEMMA ThousandAddresses ==
  ASSUME NEW p \in 22 .. 32
  PROVE  2 ^ (32 - p) <= 1024
<1>1. PICK f, w : f = 32 - p /\ w = 2 ^ f
  OBVIOUS
<1>2. Width(f, w)
  BY <1>1, Powers, Zenon
<1>3. f \in 0 .. 10
  BY <1>1
<1>4. w <= 1024
  <2>1. \/ f = 0 \/ f = 1 \/ f = 2 \/ f = 3 \/ f = 4 \/ f = 5
        \/ f = 6 \/ f = 7 \/ f = 8 \/ f = 9 \/ f = 10
    BY <1>3
  <2>2. Width(f, w)
    BY <1>2
  <2> HIDE <1>1
  <2> QED
    BY <2>1, <2>2 DEF Width
<1> QED
  BY <1>1, <1>4, Zenon

-----------------------------------------------------------------------------
(* What is swept on an adapter.                                            *)

LEMMA ListedSeq ==
  ASSUME NEW nic, IsAdapter(nic)
  PROVE  Listed(nic) \in Seq(Item) /\ Len(Listed(nic)) \in Nat
<1>1. [addr |-> nic.config.addr, prefix |-> NoPrefix] \in Item
  BY DEF IsAdapter, Item
<1>2. Listed(nic) \in Seq(Item)
  BY <1>1 DEF IsAdapter, Listed
<1> QED
  BY <1>2

LEMMA ListedItem ==
  ASSUME NEW nic, IsAdapter(nic)
  PROVE  /\ DOMAIN Listed(nic) \subseteq Nat
         /\ \A i \in DOMAIN Listed(nic) : Listed(nic)[i] \in Item
BY ListedSeq

\* The network of a usable address: its prefix, and the one it is swept with.
LEMMA SweptItem ==
  ASSUME NEW nic, IsAdapter(nic), NEW i \in SweptAt(nic)
  PROVE  /\ Listed(nic)[i].addr \in Addr
         /\ Prefix(Listed(nic)[i], nic.config) \in 0 .. 32
         /\ \E p \in 22 .. 32 : /\ Prefix(Listed(nic)[i], nic.config) <= p
                                /\ SubnetAt(nic, i) = Net(Listed(nic)[i].addr, p)
<1> DEFINE item == Listed(nic)[i]
           own == Prefix(item, nic.config)
<1>1. item \in Item /\ item.addr # NoAddr
  BY ListedItem DEF SweptAt, Usable
<1>2. item.addr \in Addr /\ item.prefix \in (0 .. 32) \cup {NoPrefix}
  BY <1>1 DEF Item
<1>3. nic.config.prefix \in (0 .. 32) \cup {NoPrefix}
  BY DEF IsAdapter, Item
<1>4. own \in 0 .. 32
  BY <1>2, <1>3 DEF Prefix, NoPrefix
<1>5. SubnetAt(nic, i) = Net(item.addr, IF Large(own) THEN 24 ELSE own)
  BY DEF SubnetAt, SubnetOf
<1> HIDE DEF own
<1>6. (IF Large(own) THEN 24 ELSE own) \in 22 .. 32 /\ own <= (IF Large(own) THEN 24 ELSE own)
  BY <1>4 DEF Large
<1> QED
  BY <1>2, <1>4, <1>5, <1>6 DEF own

\* The network of each usable address has its turn,
LEMMA EachHasItsTurn ==
  ASSUME NEW nic, IsAdapter(nic), NEW i \in SweptAt(nic)
  PROVE  \E j \in Turns(nic) : SubnetAt(nic, j) = SubnetAt(nic, i)
<1> DEFINE T == {j \in SweptAt(nic) : SubnetAt(nic, j) = SubnetAt(nic, i)}
<1>1. SweptAt(nic) \subseteq Nat
  BY ListedItem DEF SweptAt
<1>2. T \in SUBSET Nat /\ T # {}
  BY <1>1
<1>3. PICK j \in T : \A k \in T : j <= k
  <2> HIDE DEF T
  <2> QED
    BY <1>2, NatMin
<1>4. j \in Turns(nic)
  <2>1. \A k \in SweptAt(nic) : k < j => SubnetAt(nic, k) # SubnetAt(nic, j)
    BY <1>1, <1>3
  <2> QED
    BY <1>3, <2>1 DEF Turns
<1> QED
  BY <1>3, <1>4

\* and no network has two.
LEMMA NoneHasTwo ==
  ASSUME NEW nic, IsAdapter(nic), NEW i \in Turns(nic), NEW j \in Turns(nic),
         SubnetAt(nic, j) = SubnetAt(nic, i)
  PROVE  i = j
<1>1. i \in SweptAt(nic) /\ j \in SweptAt(nic) /\ SweptAt(nic) \subseteq Nat
  BY ListedItem DEF Turns, SweptAt
<1>2. ~(i < j) /\ ~(j < i)
  BY <1>1 DEF Turns
<1> QED
  BY <1>1, <1>2

\* Whatever the addresses and masks of the adapters are, the network of every
\* usable address is swept once, a thousand addresses of it at most, and never
\* what lies outside the host's own network or its private block.
THEOREM Bounded == SweepsAreBounded
<1> SUFFICES ASSUME NEW nic \in Nics
             PROVE  /\ \A i \in SweptAt(nic) : \E j \in Turns(nic) : SubnetAt(nic, j) = SubnetAt(nic, i)
                    /\ \A i, j \in Turns(nic) : SubnetAt(nic, j) = SubnetAt(nic, i) => i = j
                    /\ \A i \in Turns(nic) :
                         LET item == Listed(nic)[i]
                             n == SubnetAt(nic, i)
                         IN /\ 2 ^ (32 - n.prefix) <= 1024
                            /\ Contained(item.addr, n)
                            /\ Within(n, Net(item.addr, Prefix(item, nic.config)))
                            /\ \A block \in Private :
                                 block.prefix <= 22 /\ Contained(item.addr, block) => Within(n, block)
  BY DEF SweepsAreBounded
<1>1. IsAdapter(nic)
  BY AdapterAssumption
<1>2. ASSUME NEW i \in Turns(nic)
      PROVE  /\ 2 ^ (32 - SubnetAt(nic, i).prefix) <= 1024
             /\ Contained(Listed(nic)[i].addr, SubnetAt(nic, i))
             /\ Within(SubnetAt(nic, i), Net(Listed(nic)[i].addr, Prefix(Listed(nic)[i], nic.config)))
             /\ \A block \in Private :
                  block.prefix <= 22 /\ Contained(Listed(nic)[i].addr, block)
                    => Within(SubnetAt(nic, i), block)
  <2>1. i \in SweptAt(nic)
    BY DEF Turns
  <2>2. PICK a \in Addr, own \in 0 .. 32 :
          a = Listed(nic)[i].addr /\ own = Prefix(Listed(nic)[i], nic.config)
    BY <1>1, <2>1, SweptItem, Zenon
  <2>3. PICK p \in 22 .. 32 : own <= p /\ SubnetAt(nic, i) = Net(a, p)
    BY <1>1, <2>1, <2>2, SweptItem, Zenon
  <2>4. p \in 0 .. 32 /\ own \in 0 .. p
    BY <2>3
  <2>5. SubnetAt(nic, i).prefix = p
    BY <2>3 DEF Net
  <2>6. 2 ^ (32 - SubnetAt(nic, i).prefix) <= 1024
    BY <2>5, ThousandAddresses, Zenon
  <2>7. Contained(a, SubnetAt(nic, i))
    BY <2>3, <2>4, OwnNet, Zenon
  <2>8. Within(SubnetAt(nic, i), Net(a, own))
    <3>1. Net(a, own).prefix = own /\ Contained(a, Net(a, own))
      BY OwnNet DEF Net
    <3> QED
      BY <2>3, <2>4, <3>1, WithinNet, Zenon
  <2>9. ASSUME NEW block \in Private, block.prefix <= 22, Contained(a, block)
        PROVE  Within(SubnetAt(nic, i), block)
    <3>1. block.prefix \in 0 .. p
      BY <2>9, PrivatePrefix
    <3> QED
      BY <2>3, <2>4, <2>9, <3>1, WithinNet, Zenon
  <2> QED
    BY <2>2, <2>6, <2>7, <2>8, <2>9, Zenon
<1> QED
  BY <1>1, <1>2, EachHasItsTurn, NoneHasTwo, Zenon

\* And so no address is asked for that is not private, where the block is no
\* smaller than what may be swept.
THEOREM OnlyPrivate ==
  \A nic \in Nics : \A i \in Turns(nic), block \in Private, a \in Addr :
    block.prefix <= 22 /\ Contained(Listed(nic)[i].addr, block) /\ Contained(a, SubnetAt(nic, i))
      => Contained(a, block)
<1> SUFFICES ASSUME NEW nic \in Nics, NEW i \in Turns(nic), NEW block \in Private, NEW a \in Addr,
                    block.prefix <= 22, Contained(Listed(nic)[i].addr, block),
                    Contained(a, SubnetAt(nic, i))
             PROVE  Contained(a, block)
  OBVIOUS
<1>1. Within(SubnetAt(nic, i), block)
  BY Bounded DEF SweepsAreBounded
<1>2. IsAdapter(nic) /\ i \in SweptAt(nic)
  BY AdapterAssumption DEF Turns
<1>3. Listed(nic)[i].addr \in Addr
  BY <1>2, SweptItem, Zenon
<1>4. PICK p \in 22 .. 32 : SubnetAt(nic, i) = Net(Listed(nic)[i].addr, p)
  BY <1>2, SweptItem, Zenon
<1>5. p \in 0 .. 32 /\ block.prefix \in Nat
  BY PrivatePrefix
<1> QED
  BY <1>1, <1>3, <1>4, <1>5, ContainedWithin, Zenon

-----------------------------------------------------------------------------
(* What is made of the answers.                                            *)

\* An answer heard is one of a network that was swept.
LEMMA HeardIsAnswered ==
  ASSUME NEW dev, NEW nic, NEW answers, NEW t \in Heard(dev, nic, answers)
  PROVE  Reply(nic, answers, t).addr \in Answered(dev, nic, answers)
<1>1. PICK i \in Turns(nic) : t \in {i} \X DOMAIN answers[SubnetAt(nic, i)]
  BY DEF Heard
<1>2. t[1] = i /\ t[2] \in DOMAIN answers[SubnetAt(nic, i)]
  BY <1>1
<1>3. SubnetAt(nic, i) \in Subnets(nic)
  BY DEF Turns, Subnets
<1>4. Reply(nic, answers, t) \in ToSet(answers[SubnetAt(nic, i)])
  BY <1>2 DEF Reply, ToSet
<1>5. Reply(nic, answers, t).mac = dev.mac
  BY DEF Heard
<1> QED
  BY <1>3, <1>4, <1>5 DEF Answered

\* An answer in any of the networks is heard in some turn.
LEMMA AnsweredIsHeard ==
  ASSUME NEW dev, NEW nic, IsAdapter(nic), NEW answers, Answered(dev, nic, answers) # {}
  PROVE  Heard(dev, nic, answers) # {}
<1>1. PICK n \in Subnets(nic) : \E q \in ToSet(answers[n]) : q.mac = dev.mac
  BY DEF Answered
<1>2. PICK r \in ToSet(answers[n]) : r.mac = dev.mac
  BY <1>1
<1>3. PICK i \in SweptAt(nic) : n = SubnetAt(nic, i)
  BY <1>1 DEF Subnets
<1>4. PICK j \in Turns(nic) : SubnetAt(nic, j) = n
  BY <1>3, EachHasItsTurn
<1>5. PICK k \in DOMAIN answers[n] : answers[n][k] = r
  BY <1>2 DEF ToSet
<1>6. <<j, k>> \in {j} \X DOMAIN answers[SubnetAt(nic, j)]
  BY <1>4, <1>5
<1>7. Reply(nic, answers, <<j, k>>).mac = dev.mac
  BY <1>2, <1>4, <1>5 DEF Reply
<1> QED
  BY <1>6, <1>7 DEF Heard

\* Of what is heard there is a last.
LEMMA LastIsHeard ==
  ASSUME NEW dev, NEW nic, IsAdapter(nic), NEW answers,
         \A i \in Turns(nic) : answers[SubnetAt(nic, i)] \in Seq(ToSet(answers[SubnetAt(nic, i)])),
         Heard(dev, nic, answers) # {}
  PROVE  LastHeard(dev, nic, answers) \in Heard(dev, nic, answers)
<1> DEFINE H == Heard(dev, nic, answers)
           L == Len(Listed(nic))
           I == {t[1] : t \in H}
<1>1. ASSUME NEW t \in H
      PROVE  /\ t[1] \in Turns(nic) /\ t[1] \in Nat /\ t[1] <= L
             /\ t[2] \in Nat /\ t[2] <= Len(answers[SubnetAt(nic, t[1])])
             /\ t = <<t[1], t[2]>>
  <2>1. PICK i \in Turns(nic) : t \in {i} \X DOMAIN answers[SubnetAt(nic, i)]
    BY DEF Heard
  <2>2. t[1] = i /\ t[2] \in DOMAIN answers[SubnetAt(nic, i)] /\ t = <<t[1], t[2]>>
    BY <2>1
  <2>3. t[2] \in 1 .. Len(answers[SubnetAt(nic, i)]) /\ Len(answers[SubnetAt(nic, i)]) \in Nat
    BY <2>2
  <2>4. i \in DOMAIN Listed(nic)
    BY DEF Turns, SweptAt
  <2>5. Listed(nic) \in Seq(Item)
    BY ListedSeq
  <2> QED
    BY <2>2, <2>3, <2>4, <2>5
<1>2. L \in Nat
  BY ListedSeq
<1> HIDE DEF H, L
<1>3. I \in SUBSET Nat /\ I # {} /\ \A i \in I : i <= L
  BY <1>1 DEF H
<1>4. PICK t1 \in H : \A u \in H : u[1] <= t1[1]
  <2>1. PICK i \in I : \A j \in I : j <= i
    <3> HIDE DEF I
    <3> QED
      BY <1>2, <1>3, NatMax
  <2> QED
    BY <2>1
<1> DEFINE K == {t[2] : t \in {u \in H : u[1] = t1[1]}}
           M == Len(answers[SubnetAt(nic, t1[1])])
<1>5. M \in Nat
  BY <1>1, <1>4
<1>6. K \in SUBSET Nat /\ K # {} /\ \A k \in K : k <= M
  BY <1>1, <1>4
<1>7. PICK t \in H : t[1] = t1[1] /\ \A u \in H : u[1] = t1[1] => u[2] <= t[2]
  <2>1. PICK k \in K : \A j \in K : j <= k
    <3> HIDE DEF K, M
    <3> QED
      BY <1>5, <1>6, NatMax
  <2> QED
    BY <2>1
<1>8. \A u \in H : NotBefore(t, u)
  BY <1>1, <1>4, <1>7 DEF NotBefore
<1> QED
  BY <1>7, <1>8, Zenon DEF LastHeard, H

\* The adapter that is taken is one of those it is chosen from.
LEMMA AdapterIsOne ==
  ASSUME NEW dev, NEW nics, NEW S, nics \in Seq(S), Adapters(dev, nics) # {}
  PROVE  /\ Min(Adapters(dev, nics)) \in Adapters(dev, nics)
         /\ Min(Adapters(dev, nics)) \in DOMAIN nics
<1>1. Adapters(dev, nics) \in SUBSET DOMAIN nics
  BY DEF Adapters, HeardOn, Preferred, Wired
<1>2. DOMAIN nics \subseteq Nat
  OBVIOUS
<1>3. \E x \in Adapters(dev, nics) : \A y \in Adapters(dev, nics) : x <= y
  BY <1>1, <1>2, NatMin
<1> QED
  BY <1>1, <1>3 DEF Min

\* Whoever answers, and in whichever of the networks: what is found is an
\* address the device answered from, and it is found if it answered where it was
\* heard.
THEOREM Found == FoundAsAnswered
<1> SUFFICES ASSUME NEW nics \in Hosts, NEW dev \in Devs,
                    NEW answers \in [UNION {Subnets(nic) : nic \in ToSet(nics)} -> Replies]
             PROVE  /\ Resolve(dev, nics, answers) # NoAddr =>
                         \E nic \in ToSet(nics) :
                           Resolve(dev, nics, answers) \in Answered(dev, nic, answers)
                    /\ /\ dev.ips = <<>> /\ dev.kind = MacKind /\ dev.mac # NoAddr
                       /\ HeardOn(dev, nics) # {}
                       /\ \A i \in HeardOn(dev, nics) : Answered(dev, nics[i], answers) # {}
                       => Resolve(dev, nics, answers) # NoAddr
  BY DEF FoundAsAnswered
<1>1. nics \in Seq(ToSet(nics)) /\ \A nic \in ToSet(nics) : IsAdapter(nic)
  BY AdapterAssumption
<1> DEFINE named == Heard(dev, Adapter(dev, nics), answers)
           last == LastHeard(dev, Adapter(dev, nics), answers)
<1>2. ASSUME Adapters(dev, nics) # {}, named # {}
      PROVE  /\ Adapter(dev, nics) \in ToSet(nics)
             /\ Reply(Adapter(dev, nics), answers, last).addr
                  \in Answered(dev, Adapter(dev, nics), answers)
             /\ Reply(Adapter(dev, nics), answers, last).addr # NoAddr
  <2>1. Adapter(dev, nics) \in ToSet(nics)
    BY <1>1, <1>2, AdapterIsOne DEF Adapter, ToSet
  <2>2. PICK nic \in ToSet(nics) : nic = Adapter(dev, nics)
    BY <2>1
  <2>3. ASSUME NEW i \in Turns(nic)
        PROVE  /\ answers[SubnetAt(nic, i)] \in Replies
               /\ answers[SubnetAt(nic, i)] \in Seq(ToSet(answers[SubnetAt(nic, i)]))
    <3>1. SubnetAt(nic, i) \in Subnets(nic)
      BY DEF Turns, Subnets
    <3> QED
      BY <3>1, ReplyAssumption
  <2>4. last \in named
    BY <1>1, <1>2, <2>2, <2>3, LastIsHeard, Zenon
  <2>5. PICK t \in Heard(dev, nic, answers) : t = last
    BY <2>2, <2>4, Zenon
  <2>6. Reply(nic, answers, t).addr \in Answered(dev, nic, answers)
    BY HeardIsAnswered, Zenon
  <2>7. Reply(nic, answers, t).addr \in Addr
    <3>1. PICK i \in Turns(nic) : t \in {i} \X DOMAIN answers[SubnetAt(nic, i)]
      BY DEF Heard
    <3>2. t[1] = i /\ t[2] \in DOMAIN answers[SubnetAt(nic, i)]
      BY <3>1
    <3>3. Reply(nic, answers, t) \in ToSet(answers[SubnetAt(nic, i)])
      BY <3>2 DEF Reply, ToSet
    <3> QED
      BY <2>3, <3>3, ReplyAssumption
  <2>8. NoAddr \notin Addr
    <3>1. \A a \in Addr : 1 \in DOMAIN a
      BY DEF Addr
    <3>2. 1 \notin DOMAIN NoAddr
      BY DEF NoAddr
    <3> QED
      BY <3>1, <3>2, Zenon
  <2> QED
    BY <2>1, <2>2, <2>5, <2>6, <2>7, <2>8, Zenon
<1>3. ASSUME Resolve(dev, nics, answers) # NoAddr
      PROVE  \E nic \in ToSet(nics) :
               Resolve(dev, nics, answers) \in Answered(dev, nic, answers)
  <2>1. /\ Adapters(dev, nics) # {} /\ named # {}
        /\ Resolve(dev, nics, answers) = Reply(Adapter(dev, nics), answers, last).addr
    BY <1>3 DEF Resolve
  <2> QED
    BY <1>2, <2>1, Zenon
<1>4. ASSUME dev.ips = <<>>, dev.kind = MacKind, dev.mac # NoAddr, HeardOn(dev, nics) # {},
             \A i \in HeardOn(dev, nics) : Answered(dev, nics[i], answers) # {}
      PROVE  Resolve(dev, nics, answers) # NoAddr
  <2>1. Adapters(dev, nics) = HeardOn(dev, nics)
    BY <1>4 DEF Adapters
  <2>2. PICK i \in HeardOn(dev, nics) : Adapter(dev, nics) = nics[i] /\ i \in DOMAIN nics
    BY <1>1, <1>4, <2>1, AdapterIsOne DEF Adapter
  <2>3. IsAdapter(Adapter(dev, nics))
    BY <1>1, <2>2 DEF ToSet
  <2>4. named # {}
    BY <1>4, <2>2, <2>3, AnsweredIsHeard, Zenon
  <2>5. Resolve(dev, nics, answers) = Reply(Adapter(dev, nics), answers, last).addr
    BY <1>4, <2>1, <2>4 DEF Resolve
  <2> QED
    BY <1>2, <1>4, <2>1, <2>4, <2>5, Zenon
<1> QED
  BY <1>3, <1>4, Zenon

\* What a worker sweeps is bounded and its own, and what it finds is the device's.
THEOREM SweepsSound == Spec => []SweepsAreSound
<1>1. SweepsAreSound
  BY Bounded, Found DEF SweepsAreSound
<1> QED
  BY <1>1, PTL
====
