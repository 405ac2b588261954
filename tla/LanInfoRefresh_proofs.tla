------------------------- MODULE LanInfoRefresh_proofs -------------------------
(***************************************************************************)
(* Proofs about LanInfoRefresh, for any adapters and any number of         *)
(* requests: what is shown is of the adapter named, a request that waits   *)
(* waits for a reading that will be announced, and readings are never more *)
(* than the requests.                                                      *)
(***************************************************************************)
EXTENDS LanInfoRefresh, SequenceTheorems, TLAPS

\* A panel that was asked to read names an adapter.
AskedNamesAdapter == asked > 0 => iface \in Iface

\* The reading the panel refers to will be announced: the reference is let go
\* when a reading is, whichever it was.
CurrentUnannounced == worker # 0 => Unannounced(worker)

\* The same bound, without arithmetic on conditions.
Coalesced ==
  /\ Len(workers) <= asked
  /\ timer \/ pending => Len(workers) + 1 <= asked
  /\ timer /\ pending => Len(workers) + 2 <= asked

IInv ==
  /\ TypeOK /\ ShownIsOfAdapter /\ PendingHasWaker /\ Coalesced
  /\ AskedNamesAdapter /\ CurrentUnannounced

-----------------------------------------------------------------------------

LEMMA CoalescedByCases ==
  ASSUME Len(workers) \in Nat, asked \in Nat
  PROVE  ReadsAreAskedFor <=> Coalesced
<1>1. CASE timer /\ pending
  <2>1. ReadsAreAskedFor <=> Len(workers) + 1 + 1 <= asked
    BY <1>1 DEF ReadsAreAskedFor
  <2> QED
    BY <1>1, <2>1 DEF Coalesced
<1>2. CASE timer /\ ~pending
  BY <1>2 DEF ReadsAreAskedFor, Coalesced
<1>3. CASE ~timer /\ pending
  <2>1. (IF timer THEN 1 ELSE 0) = 0 /\ (IF pending THEN 1 ELSE 0) = 1
    BY <1>3
  <2> QED
    BY <1>3, <2>1 DEF ReadsAreAskedFor, Coalesced
<1>4. CASE ~timer /\ ~pending
  <2>1. (IF timer THEN 1 ELSE 0) = 0 /\ (IF pending THEN 1 ELSE 0) = 0
    BY <1>4
  <2> QED
    BY <1>4, <2>1 DEF ReadsAreAskedFor, Coalesced
<1> QED
  BY <1>1, <1>2, <1>3, <1>4

LEMMA InitOK == Init => IInv
<1> SUFFICES ASSUME Init PROVE IInv
  OBVIOUS
<1>1. workers \in Seq(Reading) /\ Len(workers) = 0 /\ events \in Seq(1 .. Len(workers))
  BY EmptySeq DEF Init
<1>2. TypeOK
  <2>1. 0 \in 0 .. Len(workers) /\ 0 \in 0 .. MaxAsked /\ Len(workers) <= 0
    BY <1>1, AskedAssumption
  <2> QED
    BY <1>1, <2>1 DEF Init, TypeOK
<1>3. Coalesced
  BY <1>1 DEF Init, Coalesced
<1> QED
  BY <1>2, <1>3 DEF Init, IInv, ShownIsOfAdapter, PendingHasWaker, AskedNamesAdapter,
                    CurrentUnannounced

\* A reading begun leaves the earlier ones as they are, and will be announced.
LEMMA StartStep ==
  ASSUME TypeOK, NEW f \in Iface, NEW n \in 0 .. MaxAsked, StartWorker(f, n)
  PROVE  /\ workers' \in Seq(Reading) /\ Len(workers') = Len(workers) + 1
         /\ worker' = Len(workers')
         /\ \A i \in 1 .. Len(workers) : workers'[i] = workers[i]
         /\ workers'[worker'].phase = "reading"
<1> DEFINE r == [on |-> f, since |-> n, phase |-> "reading"]
<1>1. r \in Reading /\ workers \in Seq(Reading)
  BY DEF Reading, TypeOK
<1>2. workers' = Append(workers, r) /\ worker' = Len(workers) + 1
  BY DEF StartWorker
<1> HIDE DEF r
<1>3. /\ workers' \in Seq(Reading) /\ Len(workers') = Len(workers) + 1
      /\ \A i \in 1 .. Len(workers) : workers'[i] = workers[i]
      /\ workers'[Len(workers) + 1] = r
  BY <1>1, <1>2, AppendProperties
<1> QED
  BY <1>2, <1>3 DEF r

\* Readings that are kept, and signals that are, keep what was said of them.
LEMMA KeptReadings ==
  ASSUME TypeOK, workers' \in Seq(Reading), Len(workers) <= Len(workers'),
         \A i \in 1 .. Len(workers) : workers'[i] = workers[i],
         events' = events
  PROVE  /\ events' \in Seq(1 .. Len(workers'))
         /\ \A i \in 1 .. Len(workers) : Unannounced(i) => Unannounced(i)'
<1>1. Len(workers) \in Nat /\ Len(workers') \in Nat
  BY DEF TypeOK
<1>2. events' \in Seq(1 .. Len(workers'))
  BY <1>1, SeqDef, LenProperties, ElementOfSeq DEF TypeOK
<1>3. ASSUME NEW i \in 1 .. Len(workers), Unannounced(i) PROVE Unannounced(i)'
  BY <1>3 DEF Unannounced
<1> QED
  BY <1>2, <1>3

\* What a request for an adapter makes of a state that satisfies the
\* invariant: another reading at most, and one that waits is announced.
LEMMA RequestStep ==
  ASSUME IInv, NEW f \in Iface, NEW immediate \in BOOLEAN, asked < MaxAsked,
         Request(f, asked + 1, immediate), events' = events
  PROVE  /\ asked' = asked + 1 /\ asked' \in 0 .. MaxAsked
         /\ workers' \in Seq(Reading) /\ Len(workers) <= Len(workers') /\ Len(workers') <= asked'
         /\ \A i \in 1 .. Len(workers) : workers'[i] = workers[i]
         /\ events' \in Seq(1 .. Len(workers'))
         /\ worker' \in 0 .. Len(workers')
         /\ pending' \in BOOLEAN /\ timer' \in BOOLEAN
         /\ PendingHasWaker' /\ Coalesced' /\ CurrentUnannounced'
<1>1. /\ asked \in Nat /\ asked' = asked + 1 /\ asked' \in 0 .. MaxAsked
      /\ workers \in Seq(Reading) /\ Len(workers) \in Nat /\ Len(workers) <= asked
      /\ worker \in 0 .. Len(workers) /\ pending \in BOOLEAN /\ timer \in BOOLEAN
  BY AskedAssumption DEF IInv, TypeOK, Request
<1>2. Coalesced
  BY DEF IInv
<1>3. CASE /\ Running(worker)
           /\ pending' = TRUE
           /\ UNCHANGED <<worker, timer, workers>>
  <2>1. worker \in 1 .. Len(workers) /\ Unannounced(worker)
    BY <1>1, <1>3 DEF Running, IInv, CurrentUnannounced
  <2>2. Unannounced(worker)'
    BY <1>3, <2>1 DEF Unannounced
  <2>3. PendingHasWaker' /\ CurrentUnannounced'
    BY <1>1, <1>3, <2>1, <2>2 DEF PendingHasWaker, CurrentUnannounced
  <2>4. Coalesced'
    BY <1>1, <1>2, <1>3 DEF Coalesced
  <2> QED
    BY <1>1, <1>3, <2>3, <2>4 DEF IInv, TypeOK
<1>4. CASE /\ ~Running(worker)
           /\ immediate \/ ~recent
           /\ timer' = FALSE
           /\ StartWorker(f, asked + 1)
           /\ UNCHANGED pending
  <2>1. /\ workers' \in Seq(Reading) /\ Len(workers') = Len(workers) + 1
        /\ worker' = Len(workers')
        /\ \A i \in 1 .. Len(workers) : workers'[i] = workers[i]
        /\ workers'[worker'].phase = "reading"
    BY <1>1, <1>4, StartStep DEF IInv
  <2>2. /\ events' \in Seq(1 .. Len(workers'))
        /\ \A i \in 1 .. Len(workers) : Unannounced(i) => Unannounced(i)'
    BY <1>1, <2>1, KeptReadings DEF IInv
  <2>3. CurrentUnannounced' /\ PendingHasWaker'
    BY <1>1, <2>1 DEF CurrentUnannounced, PendingHasWaker, Unannounced
  <2>4. Coalesced'
    BY <1>1, <1>2, <1>4, <2>1 DEF Coalesced
  <2> QED
    <3>1. worker' \in 0 .. Len(workers') /\ Len(workers) <= Len(workers')
      BY <1>1, <2>1
    <3>2. Len(workers') <= asked'
      BY <2>4 DEF Coalesced
    <3>3. pending' \in BOOLEAN /\ timer' \in BOOLEAN
      BY <1>1, <1>4
    <3> QED
      BY <1>1, <2>1, <2>2, <2>3, <2>4, <3>1, <3>2, <3>3
<1>5. CASE /\ ~Running(worker)
           /\ ~immediate /\ recent
           /\ timer' = TRUE
           /\ UNCHANGED <<worker, pending, workers>>
  <2>1. PendingHasWaker' /\ CurrentUnannounced'
    BY <1>5 DEF IInv, PendingHasWaker, CurrentUnannounced, Unannounced
  <2>2. Coalesced'
    <3>1. /\ Len(workers') = Len(workers) /\ timer' = TRUE /\ pending' = pending
      BY <1>5
    <3> QED
      BY <1>1, <1>2, <3>1 DEF Coalesced
  <2> QED
    BY <1>1, <1>5, <2>1, <2>2 DEF IInv, TypeOK
<1> QED
  BY <1>3, <1>4, <1>5 DEF Request

\* A request keeps the invariant, also when it comes with another adapter, as
\* set_interface's does: the configuration shown is then cleared or kept with
\* its adapter.
LEMMA RequestKeepsIInv ==
  ASSUME IInv, NEW f \in Iface, NEW immediate \in BOOLEAN, asked < MaxAsked,
         Request(f, asked + 1, immediate), events' = events, recent' = recent,
         iface' = f, cfg' \in {0, cfg}, cfg' = cfg => f = iface
  PROVE  IInv'
<1>1. /\ asked' = asked + 1 /\ asked' \in 0 .. MaxAsked
      /\ workers' \in Seq(Reading) /\ Len(workers) <= Len(workers') /\ Len(workers') <= asked'
      /\ \A i \in 1 .. Len(workers) : workers'[i] = workers[i]
      /\ events' \in Seq(1 .. Len(workers'))
      /\ worker' \in 0 .. Len(workers')
      /\ pending' \in BOOLEAN /\ timer' \in BOOLEAN
      /\ PendingHasWaker' /\ Coalesced' /\ CurrentUnannounced'
  BY RequestStep
<1>2. Len(workers) \in Nat /\ Len(workers') \in Nat /\ cfg \in 0 .. Len(workers)
  BY <1>1 DEF IInv, TypeOK
<1>3. TypeOK'
  <2>1. cfg' \in 0 .. Len(workers')
    BY <1>1, <1>2
  <2>2. iface' \in Iface \cup {None} /\ recent' \in BOOLEAN
    BY DEF IInv, TypeOK
  <2> QED
    BY <1>1, <2>1, <2>2 DEF TypeOK
<1>4. ShownIsOfAdapter'
  <2> SUFFICES ASSUME cfg' # 0 PROVE workers'[cfg'].on = iface'
    BY DEF ShownIsOfAdapter
  <2>1. cfg' = cfg /\ iface' = iface /\ cfg \in 1 .. Len(workers)
    BY <1>2
  <2> QED
    BY <1>1, <2>1 DEF IInv, ShownIsOfAdapter
<1>5. AskedNamesAdapter'
  BY DEF AskedNamesAdapter
<1> QED
  BY <1>1, <1>3, <1>4, <1>5 DEF IInv

LEMMA SetInterfaceStep ==
  ASSUME IInv, NEW f \in Iface, SetInterface(f) PROVE IInv'
<1>1. /\ asked < MaxAsked /\ Request(f, asked + 1, TRUE) /\ f # iface
      /\ iface' = f /\ cfg' = 0 /\ events' = events /\ recent' = recent
  BY DEF SetInterface
<1>2. cfg' = cfg => f = iface \/ cfg = 0
  BY <1>1
<1>3. CASE cfg # 0
  BY <1>1, <1>3, RequestKeepsIInv
<1>4. CASE cfg = 0
  <2>1. /\ asked' = asked + 1 /\ asked' \in 0 .. MaxAsked
        /\ workers' \in Seq(Reading) /\ Len(workers') <= asked'
        /\ events' \in Seq(1 .. Len(workers'))
        /\ worker' \in 0 .. Len(workers')
        /\ pending' \in BOOLEAN /\ timer' \in BOOLEAN
        /\ PendingHasWaker' /\ Coalesced' /\ CurrentUnannounced'
    BY <1>1, RequestStep
  <2>2. TypeOK'
    BY <1>1, <2>1 DEF IInv, TypeOK
  <2> QED
    BY <1>1, <2>1, <2>2 DEF IInv, ShownIsOfAdapter, AskedNamesAdapter
<1> QED
  BY <1>3, <1>4

LEMMA RefreshStep == ASSUME IInv, Refresh PROVE IInv'
<1>1. /\ asked < MaxAsked /\ Request(iface, asked + 1, FALSE) /\ iface \in Iface
      /\ iface' = iface /\ cfg' = cfg /\ events' = events /\ recent' = recent
  BY DEF Refresh, panel, IInv, TypeOK
<1> QED
  BY <1>1, RequestKeepsIInv

\* The timer begins a reading that was asked for.
LEMMA TimerStep == ASSUME IInv, TimerFires PROVE IInv'
<1>1. /\ timer /\ timer' = FALSE
      /\ UNCHANGED <<panel, recent, events, asked>>
      /\ asked \in Nat /\ asked \in 0 .. MaxAsked
      /\ workers \in Seq(Reading) /\ Len(workers) \in Nat /\ worker \in 0 .. Len(workers)
      /\ cfg \in 0 .. Len(workers) /\ pending \in BOOLEAN
  BY DEF TimerFires, IInv, TypeOK
<1>2. iface \in Iface /\ Len(workers) + 1 <= asked
  BY <1>1 DEF IInv, Coalesced, AskedNamesAdapter
<1>3. CASE Running(worker) /\ pending' = TRUE /\ UNCHANGED <<worker, workers>>
  <2>1. worker \in DOMAIN workers /\ Unannounced(worker)
    BY <1>1, <1>3 DEF Running, IInv, CurrentUnannounced
  <2>2. PendingHasWaker' /\ CurrentUnannounced'
    BY <1>1, <1>3, <2>1 DEF PendingHasWaker, CurrentUnannounced, Unannounced
  <2>3. Coalesced'
    BY <1>1, <1>2, <1>3 DEF Coalesced
  <2>4. TypeOK' /\ ShownIsOfAdapter' /\ AskedNamesAdapter'
    BY <1>1, <1>3 DEF IInv, TypeOK, ShownIsOfAdapter, AskedNamesAdapter, panel
  <2> QED
    BY <2>2, <2>3, <2>4 DEF IInv
<1>4. CASE ~Running(worker) /\ StartWorker(iface, asked) /\ UNCHANGED pending
  <2>1. /\ workers' \in Seq(Reading) /\ Len(workers') = Len(workers) + 1
        /\ worker' = Len(workers')
        /\ \A i \in 1 .. Len(workers) : workers'[i] = workers[i]
        /\ workers'[worker'].phase = "reading"
    BY <1>1, <1>2, <1>4, StartStep DEF IInv
  <2>2. events' \in Seq(1 .. Len(workers'))
    BY <1>1, <2>1, KeptReadings DEF IInv
  <2>3. PendingHasWaker' /\ CurrentUnannounced'
    BY <1>1, <2>1 DEF CurrentUnannounced, PendingHasWaker, Unannounced
  <2>4. Coalesced'
    <3>1. pending => Len(workers) + 2 <= asked
      BY <1>1 DEF IInv, Coalesced
    <3> QED
      BY <1>1, <1>2, <1>4, <2>1, <3>1 DEF Coalesced
  <2>5. TypeOK'
    <3>1. cfg' \in 0 .. Len(workers') /\ worker' \in 0 .. Len(workers') /\ Len(workers') <= asked'
      BY <1>1, <1>2, <2>1 DEF panel
    <3> QED
      BY <1>1, <1>4, <2>1, <2>2, <3>1 DEF IInv, TypeOK, panel
  <2>6. ShownIsOfAdapter' /\ AskedNamesAdapter'
    BY <1>1, <2>1 DEF IInv, ShownIsOfAdapter, AskedNamesAdapter, panel
  <2> QED
    BY <2>3, <2>4, <2>5, <2>6 DEF IInv
<1> QED
  BY <1>3, <1>4 DEF TimerFires

\* A reading that reports is queued as it leaves its first phase.
LEMMA ReportsStep ==
  ASSUME IInv, NEW i \in DOMAIN workers, Reports(i) PROVE IInv'
<1>1. /\ workers \in Seq(Reading) /\ i \in 1 .. Len(workers) /\ Len(workers) \in Nat
      /\ events \in Seq(1 .. Len(workers))
  BY DEF IInv, TypeOK
<1>2. /\ workers' = [workers EXCEPT ![i].phase = "reported"]
      /\ events' = Append(events, i)
      /\ UNCHANGED <<panel, worker, pending, timer, recent, asked>>
  BY DEF Reports
<1>3. /\ workers' \in Seq(Reading) /\ Len(workers') = Len(workers)
      /\ \A j \in 1 .. Len(workers) : workers'[j].on = workers[j].on
      /\ \A j \in 1 .. Len(workers) : j # i => workers'[j] = workers[j]
  <2>1. workers' = [workers EXCEPT ![i] = [workers[i] EXCEPT !.phase = "reported"]]
    BY <1>2
  <2>2. workers[i] \in Reading /\ [workers[i] EXCEPT !.phase = "reported"] \in Reading
    <3>1. workers[i] \in Reading
      BY <1>1, ElementOfSeq
    <3> QED
      BY <3>1 DEF Reading
  <2>3. workers' \in Seq(Reading) /\ Len(workers') = Len(workers)
    BY <1>1, <2>1, <2>2, ExceptSeq
  <2> QED
    BY <1>1, <2>1, <2>2, <2>3 DEF Reading
<1>4. /\ events' \in Seq(1 .. Len(workers)) /\ Len(events') = Len(events) + 1
      /\ \A k \in 1 .. Len(events) : events'[k] = events[k]
      /\ events'[Len(events) + 1] = i
      /\ Len(events) \in Nat
  BY <1>1, <1>2, AppendProperties
<1>5. \A j \in 1 .. Len(workers) : Unannounced(j) => Unannounced(j)'
  <2> SUFFICES ASSUME NEW j \in 1 .. Len(workers), Unannounced(j) PROVE Unannounced(j)'
    OBVIOUS
  <2>1. CASE j = i
    BY <1>4, <2>1 DEF Unannounced
  <2>2. CASE j # i /\ workers[j].phase = "reading"
    BY <1>3, <2>2 DEF Unannounced
  <2>3. CASE \E k \in DOMAIN events : events[k] = j
    <3>1. PICK k \in 1 .. Len(events) : events[k] = j
      BY <1>1, <2>3
    <3>2. k \in DOMAIN events' /\ events'[k] = j
      BY <1>4, <3>1
    <3> QED
      BY <3>2 DEF Unannounced
  <2> QED
    BY <2>1, <2>2, <2>3 DEF Unannounced
<1>6. TypeOK'
  BY <1>2, <1>3, <1>4 DEF IInv, TypeOK, panel
<1>7. PendingHasWaker' /\ CurrentUnannounced'
  BY <1>1, <1>2, <1>3, <1>5 DEF IInv, TypeOK, PendingHasWaker, CurrentUnannounced
<1>8. ShownIsOfAdapter' /\ AskedNamesAdapter' /\ Coalesced'
  BY <1>1, <1>2, <1>3 DEF IInv, TypeOK, ShownIsOfAdapter, AskedNamesAdapter, Coalesced, panel
<1> QED
  BY <1>6, <1>7, <1>8 DEF IInv

\* A thread ends after it has reported.
LEMMA ThreadEndsStep ==
  ASSUME IInv, NEW i \in DOMAIN workers, ThreadEnds(i) PROVE IInv'
<1>1. /\ workers \in Seq(Reading) /\ i \in 1 .. Len(workers) /\ Len(workers) \in Nat
      /\ events \in Seq(1 .. Len(workers)) /\ workers[i].phase = "reported"
  BY DEF IInv, TypeOK, ThreadEnds
<1>2. /\ workers' = [workers EXCEPT ![i].phase = "ended"]
      /\ UNCHANGED <<panel, worker, pending, timer, recent, events, asked>>
  BY DEF ThreadEnds
<1>3. /\ workers' \in Seq(Reading) /\ Len(workers') = Len(workers)
      /\ \A j \in 1 .. Len(workers) : workers'[j].on = workers[j].on
      /\ \A j \in 1 .. Len(workers) : j # i => workers'[j] = workers[j]
  <2>1. workers' = [workers EXCEPT ![i] = [workers[i] EXCEPT !.phase = "ended"]]
    BY <1>2
  <2>2. workers[i] \in Reading /\ [workers[i] EXCEPT !.phase = "ended"] \in Reading
    <3>1. workers[i] \in Reading
      BY <1>1, ElementOfSeq
    <3> QED
      BY <3>1 DEF Reading
  <2>3. workers' \in Seq(Reading) /\ Len(workers') = Len(workers)
    BY <1>1, <2>1, <2>2, ExceptSeq
  <2> QED
    BY <1>1, <2>1, <2>2, <2>3 DEF Reading
<1>4. \A j \in 1 .. Len(workers) : Unannounced(j) => Unannounced(j)'
  <2> SUFFICES ASSUME NEW j \in 1 .. Len(workers), Unannounced(j) PROVE Unannounced(j)'
    OBVIOUS
  <2>1. CASE workers[j].phase = "reading"
    BY <1>1, <1>3, <2>1 DEF Unannounced
  <2>2. CASE \E k \in DOMAIN events : events[k] = j
    BY <1>2, <2>2 DEF Unannounced
  <2> QED
    BY <2>1, <2>2 DEF Unannounced
<1>5. TypeOK'
  BY <1>2, <1>3 DEF IInv, TypeOK, panel
<1>6. PendingHasWaker' /\ CurrentUnannounced'
  BY <1>1, <1>2, <1>3, <1>4 DEF IInv, TypeOK, PendingHasWaker, CurrentUnannounced
<1>7. ShownIsOfAdapter' /\ AskedNamesAdapter' /\ Coalesced'
  BY <1>1, <1>2, <1>3 DEF IInv, TypeOK, ShownIsOfAdapter, AskedNamesAdapter, Coalesced, panel
<1> QED
  BY <1>5, <1>6, <1>7 DEF IInv

\* When a reading is announced, nothing waits any longer.
LEMMA FinishedStep == ASSUME IInv, Finished PROVE IInv'
<1>1. /\ events \in Seq(1 .. Len(workers)) /\ events # <<>>
      /\ Head(events) \in 1 .. Len(workers) /\ Tail(events) \in Seq(1 .. Len(workers))
  BY HeadTailProperties DEF IInv, TypeOK, Finished
<1>2. cfg' \in {cfg, Head(events)} /\ (cfg' # cfg => workers[Head(events)].on = iface)
  BY DEF Finished
<1>3. TypeOK'
  <2>1. cfg' \in 0 .. Len(workers) /\ 0 \in 0 .. Len(workers) /\ UNCHANGED <<iface, workers, asked>>
    BY <1>1, <1>2 DEF IInv, TypeOK, Finished
  <2>2. timer' \in BOOLEAN /\ pending' = FALSE /\ recent' = TRUE /\ worker' = 0
    BY DEF IInv, TypeOK, Finished
  <2>3. events' \in Seq(1 .. Len(workers))
    BY <1>1 DEF Finished
  <2> QED
    BY <2>1, <2>2, <2>3 DEF IInv, TypeOK
<1>4. ShownIsOfAdapter'
  BY <1>2 DEF IInv, ShownIsOfAdapter, Finished
<1>5. PendingHasWaker' /\ CurrentUnannounced' /\ AskedNamesAdapter'
  BY DEF IInv, PendingHasWaker, CurrentUnannounced, AskedNamesAdapter, Finished
<1>6. Coalesced'
  BY DEF IInv, TypeOK, Coalesced, Finished
<1> QED
  BY <1>3, <1>4, <1>5, <1>6 DEF IInv

LEMMA NextStep == IInv /\ [Next]_vars => IInv'
<1> SUFFICES ASSUME IInv, [Next]_vars PROVE IInv'
  OBVIOUS
<1>1. CASE \E f \in Iface : SetInterface(f)
  BY <1>1, SetInterfaceStep
<1>2. CASE Refresh
  BY <1>2, RefreshStep
<1>3. CASE TimerFires
  BY <1>3, TimerStep
<1>4. CASE Finished
  BY <1>4, FinishedStep
<1>5. CASE \E i \in DOMAIN workers : Reports(i) \/ ThreadEnds(i)
  BY <1>5, ReportsStep, ThreadEndsStep
<1>6. CASE IntervalEnds \/ UNCHANGED vars
  <2>1. /\ UNCHANGED <<iface, cfg, worker, pending, timer, workers, events, asked>>
        /\ recent' \in BOOLEAN
    BY <1>6 DEF IntervalEnds, vars, panel, IInv, TypeOK
  <2>2. TypeOK'
    BY <2>1 DEF IInv, TypeOK
  <2>3. ShownIsOfAdapter' /\ PendingHasWaker' /\ CurrentUnannounced'
    BY <2>1 DEF IInv, ShownIsOfAdapter, PendingHasWaker, CurrentUnannounced, Unannounced
  <2>4. Coalesced' /\ AskedNamesAdapter'
    BY <2>1 DEF IInv, Coalesced, AskedNamesAdapter
  <2> QED
    BY <2>2, <2>3, <2>4 DEF IInv
<1> QED
  BY <1>1, <1>2, <1>3, <1>4, <1>5, <1>6 DEF Next

\* The invariant holds of every state the panel can reach.
THEOREM Invariant == Spec => []IInv
BY InitOK, NextStep, PTL DEF Spec

\* Types, for any adapters and any number of requests.
THEOREM TypeCorrect == Spec => []TypeOK
<1>1. IInv => TypeOK
  BY DEF IInv
<1> QED
  BY <1>1, Invariant, PTL

\* The configuration shown is of the adapter named (LanInfoWidget.
\* _on_worker_finished compares the two, set_interface clears what was shown).
THEOREM ShownIsOfAdapterHolds == Spec => []ShownIsOfAdapter
<1>1. IInv => ShownIsOfAdapter
  BY DEF IInv
<1> QED
  BY <1>1, Invariant, PTL

\* A request that waits is not forgotten (LanInfoWidget._request_bg_refresh
\* leaves it to the reading under way, _on_worker_finished looks for it).
THEOREM PendingHasWakerHolds == Spec => []PendingHasWaker
<1>1. IInv => PendingHasWaker
  BY DEF IInv
<1> QED
  BY <1>1, Invariant, PTL

\* Readings do not multiply (LanInfoWidget._start_bg_worker is only reached
\* from a request or from the timer that one has started).
THEOREM ReadsAreAskedForHolds == Spec => []ReadsAreAskedFor
<1>1. IInv => ReadsAreAskedFor
  BY CoalescedByCases DEF IInv, TypeOK
<1> QED
  BY <1>1, Invariant, PTL
====
