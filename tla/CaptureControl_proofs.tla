------------------------- MODULE CaptureControl_proofs -------------------------
(***************************************************************************)
(* Proofs about CaptureControl, for any adapters: the button never offers  *)
(* to start a capture that runs, capture does not outlive the last         *)
(* adapter, the selection stays where the user put it, a lost link ends in *)
(* a new capture, and the frames captured are read as they were meant.     *)
(***************************************************************************)
EXTENDS MCCaptureControl, FrameFormats_proofs

\* Before the watcher is set up it has seen no loss.
NoLossBeforePolling == ~polling => ~wasDown

IInv == TypeOK /\ StartMeansIdle /\ NothingLeftBehind /\ NoLossBeforePolling

-----------------------------------------------------------------------------
(* What the handlers are made of.                                          *)

\* An adapter of the machine has a link; None is not one.
LEMMA SnifferOnType ==
  ASSUME NEW a \in Adapter \cup {None}
  PROVE  SnifferOn(a) \in Sniffer \cup {None}
<1>1. CASE a = None
  BY <1>1 DEF SnifferOn
<1>2. CASE a # None
  BY <1>2 DEF SnifferOn, Sniffer, Life
<1> QED
  BY <1>1, <1>2

LEMMA RetiredType ==
  ASSUME TypeOK
  PROVE  Retired \subseteq Adapter
<1>1. CASE source # None
  <2>1. source \in Sniffer
    BY <1>1 DEF TypeOK
  <2> QED
    BY <2>1 DEF TypeOK, Retired, Sniffer
<1>2. CASE source = None
  BY <1>2 DEF TypeOK, Retired
<1> QED
  BY <1>1, <1>2

\* A restart leaves a typed state in which the button suits the thread.
LEMMA RestartStep ==
  ASSUME TypeOK, NEW a \in Adapter \cup {None}, Restart(a)
  PROVE  /\ source' \in Sniffer \cup {None}
         /\ lingering' \subseteq Adapter
         /\ button' \in {"Start", "Stop"}
         /\ StartMeansIdle'
<1>1. source' \in Sniffer \cup {None}
  BY SnifferOnType DEF Restart
<1>2. lingering' \subseteq Adapter
  BY RetiredType DEF Restart
<1>3. button' = IF IsActive(source') THEN "Stop" ELSE "Start"
  BY DEF Restart, Offer
<1> QED
  BY <1>1, <1>2, <1>3 DEF StartMeansIdle

LEMMA WatchType ==
  ASSUME NEW a \in Adapter \cup {None}, NEW nics, Watch(a, nics)
  PROVE  /\ watched' \in Adapter \cup {None}
         /\ wasDown' \in BOOLEAN
         /\ ticks' \in 0 .. UpRequired
<1>1. ticks' \in {0, UpRequired}
  BY DEF Watch
<1> QED
  BY <1>1 DEF Watch, UpRequired

\* A poll reads links, and leaves a typed combo box and watcher.
LEMMA ReadStep ==
  ASSUME TypeOK, NEW nics, NEW change \in BOOLEAN, Read(nics, change)
  PROVE  /\ nics \in [Adapter -> Link] /\ snap' = nics
         /\ listed' \subseteq Adapter /\ chosen' \in Entry(listed')
         /\ UNCHANGED <<polling, watched>>
         /\ wasDown' \in BOOLEAN /\ ticks' \in 0 .. UpRequired
<1>1. nics \in [Adapter -> Link]
  BY DEF Read, TypeOK
<1>2. listed' \subseteq Adapter /\ chosen' \in Entry(listed')
  <2>1. CASE change
    <3>1. Relist(nics)
      BY <2>1 DEF Read
    <3>2. listed' \subseteq Adapter
      BY <3>1 DEF Relist, Present
    <3>3. CASE chosen \in listed'
      <4>1. chosen' = chosen
        BY <3>1, <3>3 DEF Relist
      <4> QED
        BY <3>2, <3>3, <4>1 DEF Entry
    <3>4. CASE chosen \notin listed'
      BY <3>1, <3>2, <3>4 DEF Relist
    <3> QED
      BY <3>2, <3>3, <3>4
  <2>2. CASE ~change
    BY <2>2 DEF Read, combo, TypeOK
  <2> QED
    BY <2>1, <2>2
<1>3. snap' = nics /\ UNCHANGED <<polling, watched>>
  BY DEF Read, Observe
<1>4. wasDown' \in BOOLEAN /\ ticks' \in 0 .. UpRequired
  <2>1. Observe(nics) /\ wasDown \in BOOLEAN /\ ticks \in 0 .. 2
    BY DEF Read, TypeOK, UpRequired
  <2>2. CASE watched = None \/ Gone(nics)
    BY <2>1, <2>2 DEF Observe, UpRequired
  <2>3. CASE ~(watched = None \/ Gone(nics)) /\ nics[watched] = "down"
    BY <2>1, <2>3 DEF Observe, UpRequired
  <2>4. CASE ~(watched = None \/ Gone(nics)) /\ nics[watched] # "down"
    <3>1. wasDown' = (wasDown /\ ~Recovered(nics))
      BY <2>1, <2>4 DEF Observe
    <3>2. ticks' = IF ticks < 2 THEN ticks + 1 ELSE ticks
      BY <2>1, <2>4 DEF Observe, UpRequired
    <3>3. wasDown' \in BOOLEAN
      BY <3>1
    <3>4. ticks' \in 0 .. 2
      BY <2>1, <3>2
    <3> QED
      BY <3>3, <3>4 DEF UpRequired
  <2> QED
    BY <2>2, <2>3, <2>4
<1> QED
  BY <1>1, <1>2, <1>3, <1>4

\* The selection survives a poll that still lists it.
LEMMA ReadKeepsSelection ==
  ASSUME NEW nics, NEW change \in BOOLEAN, Read(nics, change)
  PROVE  chosen' # chosen => chosen \notin listed'
BY DEF Read, Relist, combo

\* A poll that finds the watched adapter leaves an entry in the combo box,
\* or left the box alone.
LEMMA ReadFindsEntry ==
  ASSUME TypeOK, NEW nics, NEW change \in BOOLEAN, Read(nics, change),
         watched # None, ~Gone(nics), chosen' = None
  PROVE  chosen = None
<1>1. CASE ~change
  BY <1>1 DEF Read, combo
<1>2. CASE change
  <2>1. watched \in Present(nics)
    BY DEF Gone, Present, TypeOK
  <2>2. listed' = Present(nics) /\ Relist(nics)
    BY <1>2 DEF Read, Relist
  <2>3. chosen' \in listed'
    BY <2>1, <2>2 DEF Relist, Entry
  <2>4. None \notin listed'
    BY <2>2, AdapterAssumption DEF Present
  <2> QED
    BY <2>3, <2>4
<1> QED
  BY <1>1, <1>2

-----------------------------------------------------------------------------
(* The invariant.                                                          *)

LEMMA InitOK == Init => IInv
<1> SUFFICES ASSUME Init PROVE IInv
  OBVIOUS
<1>1. chosen \in Adapter \cup {None}
  BY DEF Init, Entry, Present
<1>2. source \in Sniffer \cup {None}
  BY <1>1, SnifferOnType DEF Init
<1>3. listed \subseteq Adapter
  BY DEF Init, Present
<1>4. button \in {"Start", "Stop"} /\ StartMeansIdle
  BY DEF Init, Offer, StartMeansIdle
<1>5. errors \in 0 .. MaxErrors /\ ticks \in 0 .. UpRequired
  BY ErrorsAssumption DEF Init, UpRequired
<1>6. TypeOK
  BY <1>2, <1>3, <1>4, <1>5 DEF Init, TypeOK
<1>7. NothingLeftBehind /\ NoLossBeforePolling
  BY DEF Init, NothingLeftBehind, NoLossBeforePolling
<1> QED
  BY <1>4, <1>6, <1>7 DEF IInv

LEMMA SetupWatcherStep == ASSUME IInv, SetupWatcher PROVE IInv'
<1>1. chosen \in Adapter \cup {None}
  BY DEF IInv, TypeOK, Entry
<1>2. watched' = chosen /\ wasDown' \in BOOLEAN /\ ticks' \in 0 .. UpRequired
  BY <1>1, WatchType DEF SetupWatcher, Watch
<1>3. TypeOK'
  BY <1>1, <1>2 DEF IInv, TypeOK, SetupWatcher, combo
<1>4. StartMeansIdle'
  BY DEF IInv, StartMeansIdle, SetupWatcher
<1>5. NothingLeftBehind'
  BY <1>2 DEF NothingLeftBehind, SetupWatcher, combo
<1>6. NoLossBeforePolling'
  BY DEF NoLossBeforePolling, SetupWatcher
<1> QED
  BY <1>3, <1>4, <1>5, <1>6 DEF IInv

LEMMA IfaceChangedStep ==
  ASSUME IInv, NEW a \in Adapter, IfaceChanged(a) PROVE IInv'
<1>1. TypeOK /\ a \in listed /\ a # None
  BY AdapterAssumption DEF IInv, IfaceChanged
<1>2. /\ source' \in Sniffer \cup {None} /\ lingering' \subseteq Adapter
      /\ button' \in {"Start", "Stop"} /\ StartMeansIdle'
  BY <1>1, RestartStep DEF IfaceChanged
<1>3. watched' \in Adapter \cup {None} /\ wasDown' \in BOOLEAN /\ ticks' \in 0 .. UpRequired
  BY WatchType DEF IfaceChanged
<1>4. chosen' = a /\ chosen' \in Entry(listed')
  BY <1>1 DEF IfaceChanged, Entry
<1>5. TypeOK'
  BY <1>1, <1>2, <1>3, <1>4 DEF TypeOK, IfaceChanged
<1>6. NothingLeftBehind' /\ NoLossBeforePolling'
  BY <1>1, <1>4 DEF NothingLeftBehind, NoLossBeforePolling, IfaceChanged
<1> QED
  BY <1>2, <1>5, <1>6 DEF IInv

LEMMA ToggleStopStep == ASSUME IInv, ToggleStop PROVE IInv'
<1>1. TypeOK'
  BY RetiredType DEF IInv, TypeOK, ToggleStop, combo, watch
<1>2. StartMeansIdle'
  BY DEF StartMeansIdle, ToggleStop, IsActive
<1>3. NothingLeftBehind' /\ NoLossBeforePolling'
  BY DEF IInv, NothingLeftBehind, NoLossBeforePolling, ToggleStop, watch
<1> QED
  BY <1>1, <1>2, <1>3 DEF IInv

\* Capture is started by hand only where there is an adapter.
LEMMA ToggleStartStep == ASSUME IInv, ToggleStart PROVE IInv'
<1>1. chosen \in Adapter /\ chosen # None
  BY AdapterAssumption DEF IInv, TypeOK, ToggleStart, Entry
<1>2. source' \in Sniffer \cup {None}
  BY <1>1, SnifferOnType DEF ToggleStart
<1>3. button' \in {"Start", "Stop"} /\ StartMeansIdle'
  BY DEF ToggleStart, Offer, StartMeansIdle
<1>4. TypeOK'
  BY <1>2, <1>3 DEF IInv, TypeOK, ToggleStart, combo, watch
<1>5. NothingLeftBehind' /\ NoLossBeforePolling'
  BY <1>1 DEF IInv, NothingLeftBehind, NoLossBeforePolling, ToggleStart, combo, watch
<1> QED
  BY <1>3, <1>4, <1>5 DEF IInv

LEMMA CaptureErrorStep == ASSUME IInv, CaptureError PROVE IInv'
<1>1. errors' \in 0 .. MaxErrors
  BY ErrorsAssumption DEF IInv, TypeOK, CaptureError
<1>2. button' \in {"Start", "Stop"} /\ StartMeansIdle'
  BY DEF IInv, TypeOK, CaptureError, Offer, StartMeansIdle
<1>3. TypeOK'
  BY <1>1, <1>2 DEF IInv, TypeOK, CaptureError, combo, watch
<1>4. NothingLeftBehind' /\ NoLossBeforePolling'
  BY DEF IInv, NothingLeftBehind, NoLossBeforePolling, CaptureError, combo, watch
<1> QED
  BY <1>2, <1>3, <1>4 DEF IInv

\* A quiet poll leaves capture as it is.  If no adapter is left then, the
\* watched one had not been watched in this list or none had been left before.
LEMMA PollQuietStep == ASSUME IInv, PollQuiet PROVE IInv'
<1>1. PICK nics \in {link, snap}, change \in BOOLEAN :
        /\ Read(nics, change)
        /\ ~Gone(nics) /\ ~Recovered(nics)
        /\ button' = IF change THEN Offer(source) ELSE button
        /\ UNCHANGED <<link, source, lingering, errors, quiet>>
  BY DEF PollQuiet
<1>2. /\ nics \in [Adapter -> Link] /\ snap' = nics
      /\ listed' \subseteq Adapter /\ chosen' \in Entry(listed')
      /\ UNCHANGED <<polling, watched>>
      /\ wasDown' \in BOOLEAN /\ ticks' \in 0 .. UpRequired
  BY <1>1, ReadStep DEF IInv
<1>3. button' \in {"Start", "Stop"} /\ StartMeansIdle'
  BY <1>1 DEF IInv, TypeOK, Offer, StartMeansIdle
<1>4. TypeOK'
  BY <1>1, <1>2, <1>3 DEF IInv, TypeOK
<1>5. NothingLeftBehind'
  <2> SUFFICES ASSUME polling', chosen' = None, watched' # None PROVE source' = None
    BY DEF NothingLeftBehind
  <2>1. chosen = None
    BY <1>1, <1>2, ReadFindsEntry DEF IInv
  <2> QED
    BY <1>1, <1>2, <2>1 DEF IInv, NothingLeftBehind
<1>6. NoLossBeforePolling'
  BY <1>1, <1>2 DEF NoLossBeforePolling, Read
<1> QED
  BY <1>3, <1>4, <1>5, <1>6 DEF IInv

LEMMA PollRestartsStep == ASSUME IInv, PollRestarts PROVE IInv'
<1>1. PICK nics \in {link, snap}, change \in BOOLEAN :
        /\ Read(nics, change)
        /\ Gone(nics) \/ Recovered(nics)
        /\ chosen' # None
        /\ Restart(chosen')
        /\ UNCHANGED <<link, errors, quiet>>
  BY DEF PollRestarts
<1>2. /\ nics \in [Adapter -> Link] /\ snap' = nics
      /\ listed' \subseteq Adapter /\ chosen' \in Entry(listed')
      /\ UNCHANGED <<polling, watched>>
      /\ wasDown' \in BOOLEAN /\ ticks' \in 0 .. UpRequired
  BY <1>1, ReadStep DEF IInv
<1>3. chosen' \in Adapter \cup {None}
  BY <1>2 DEF Entry
<1>4. /\ source' \in Sniffer \cup {None} /\ lingering' \subseteq Adapter
      /\ button' \in {"Start", "Stop"} /\ StartMeansIdle'
  BY <1>1, <1>3, RestartStep DEF IInv
<1>5. TypeOK'
  BY <1>1, <1>2, <1>4 DEF IInv, TypeOK
<1>6. NothingLeftBehind' /\ NoLossBeforePolling'
  BY <1>1, <1>2 DEF NothingLeftBehind, NoLossBeforePolling, Read
<1> QED
  BY <1>4, <1>5, <1>6 DEF IInv

LEMMA PollStopsStep == ASSUME IInv, PollStops PROVE IInv'
<1>1. PICK nics \in {link, snap}, change \in BOOLEAN :
        /\ Read(nics, change)
        /\ Gone(nics)
        /\ chosen' = None
        /\ source' = None
        /\ lingering' = Retired
        /\ button' = IF change THEN Offer(source) ELSE button
        /\ UNCHANGED <<link, errors, quiet>>
  BY DEF PollStops
<1>2. /\ nics \in [Adapter -> Link] /\ snap' = nics
      /\ listed' \subseteq Adapter /\ chosen' \in Entry(listed')
      /\ UNCHANGED <<polling, watched>>
      /\ wasDown' \in BOOLEAN /\ ticks' \in 0 .. UpRequired
  BY <1>1, ReadStep DEF IInv
<1>3. button' \in {"Start", "Stop"}
  BY <1>1 DEF IInv, TypeOK, Offer
<1>4. lingering' \subseteq Adapter
  BY <1>1, RetiredType DEF IInv
<1>5. TypeOK'
  BY <1>1, <1>2, <1>3, <1>4 DEF IInv, TypeOK
<1>6. StartMeansIdle' /\ NothingLeftBehind' /\ NoLossBeforePolling'
  BY <1>1, <1>2 DEF StartMeansIdle, IsActive, NothingLeftBehind, NoLossBeforePolling, Read
<1> QED
  BY <1>5, <1>6 DEF IInv

LEMMA ThreadStep ==
  ASSUME IInv, SourceFails \/ SourceEnds \/ (\E a \in Adapter : LastFrame(a) \/ LingererFails(a))
  PROVE  IInv'
<1>1. CASE SourceFails \/ SourceEnds
  <2>1. source \in Sniffer /\ source # None
    BY <1>1 DEF IInv, TypeOK, SourceFails, SourceEnds
  <2>2. PICK l \in {"failing", "dead"} : source' = [source EXCEPT !.life = l]
    BY <1>1 DEF SourceFails, SourceEnds
  <2>3. source' \in Sniffer
    BY <2>1, <2>2 DEF Sniffer, Life
  <2>4. errors' \in 0 .. MaxErrors
    BY <1>1, ErrorsAssumption DEF IInv, TypeOK, SourceFails, SourceEnds
  <2>5. TypeOK'
    BY <1>1, <2>3, <2>4 DEF IInv, TypeOK, SourceFails, SourceEnds, combo, watch
  <2>6. StartMeansIdle'
    <3>1. IsActive(source)
      BY <1>1, <2>1 DEF SourceFails, SourceEnds, IsActive
    <3>2. button' # "Start"
      BY <1>1, <3>1 DEF IInv, StartMeansIdle, SourceFails, SourceEnds
    <3> QED
      BY <3>2 DEF StartMeansIdle
  <2>7. NothingLeftBehind' /\ NoLossBeforePolling'
    BY <1>1, <2>1 DEF IInv, NothingLeftBehind, NoLossBeforePolling, SourceFails, SourceEnds,
                      combo, watch
  <2> QED
    BY <2>5, <2>6, <2>7 DEF IInv
<1>2. CASE \E a \in Adapter : LastFrame(a) \/ LingererFails(a)
  <2>1. PICK a \in Adapter : LastFrame(a) \/ LingererFails(a)
    BY <1>2
  <2>2. lingering' \subseteq Adapter /\ errors' \in 0 .. MaxErrors
    BY <2>1, ErrorsAssumption DEF IInv, TypeOK, LastFrame, LingererFails
  <2>3. TypeOK'
    BY <2>1, <2>2 DEF IInv, TypeOK, LastFrame, LingererFails, combo, watch
  <2>4. StartMeansIdle' /\ NothingLeftBehind' /\ NoLossBeforePolling'
    BY <2>1 DEF IInv, StartMeansIdle, NothingLeftBehind, NoLossBeforePolling, IsActive,
                LastFrame, LingererFails, combo, watch
  <2> QED
    BY <2>3, <2>4 DEF IInv
<1> QED
  BY <1>1, <1>2

\* A step that leaves all but the machine and the clock alone.
LEMMA OutsideStep ==
  ASSUME IInv, UNCHANGED <<combo, source, lingering, button, watch, errors>>,
         link' \in [Adapter -> Link], quiet' \in BOOLEAN
  PROVE  IInv'
<1>1. TypeOK'
  BY DEF IInv, TypeOK, combo, watch
<1> QED
  BY <1>1 DEF IInv, StartMeansIdle, IsActive, NothingLeftBehind, NoLossBeforePolling, combo, watch

LEMMA NextStep == IInv /\ [Next]_vars => IInv'
<1> SUFFICES ASSUME IInv, [Next]_vars PROVE IInv'
  OBVIOUS
<1>1. CASE SetupWatcher
  BY <1>1, SetupWatcherStep
<1>2. CASE ToggleStop
  BY <1>2, ToggleStopStep
<1>3. CASE ToggleStart
  BY <1>3, ToggleStartStep
<1>4. CASE CaptureError
  BY <1>4, CaptureErrorStep
<1>5. CASE FiveSecondsPass
  BY <1>5, OutsideStep DEF FiveSecondsPass, IInv, TypeOK
<1>6. CASE PollQuiet
  BY <1>6, PollQuietStep
<1>7. CASE PollRestarts
  BY <1>7, PollRestartsStep
<1>8. CASE PollStops
  BY <1>8, PollStopsStep
<1>9. CASE SourceFails \/ SourceEnds \/ (\E a \in Adapter : LastFrame(a) \/ LingererFails(a))
  BY <1>9, ThreadStep
<1>10. CASE \E a \in Adapter : IfaceChanged(a)
  BY <1>10, IfaceChangedStep
<1>11. CASE \E a \in Adapter : LinkChanges(a)
  BY <1>11, OutsideStep DEF LinkChanges, IInv, TypeOK
<1>12. CASE UNCHANGED vars
  BY <1>12, OutsideStep DEF vars, IInv, TypeOK
<1> QED
  BY <1>1, <1>2, <1>3, <1>4, <1>5, <1>6, <1>7, <1>8, <1>9, <1>10, <1>11, <1>12
     DEF Next, Window, Poll

\* The invariant holds of every state the window can reach.
THEOREM Invariant == Spec => []IInv
BY InitOK, NextStep, PTL DEF Spec

-----------------------------------------------------------------------------
(* The properties.                                                         *)

\* Types, for any adapters.
THEOREM TypeCorrect == Spec => []TypeOK
<1>1. IInv => TypeOK
  BY DEF IInv
<1> QED
  BY <1>1, Invariant, PTL

\* The button never offers to start a capture that runs (MainWindow.
\* _sync_capture_ui is called in every handler that may start one).
THEOREM StartMeansIdleHolds == Spec => []StartMeansIdle
<1>1. IInv => StartMeansIdle
  BY DEF IInv
<1> QED
  BY <1>1, Invariant, PTL

\* Once the last adapter has gone, nothing is captured (InterfaceWatcher.
\* check_now, MainWindow._on_restart_capture_requested).
THEOREM NothingLeftBehindHolds == Spec => []NothingLeftBehind
<1>1. IInv => NothingLeftBehind
  BY DEF IInv
<1> QED
  BY <1>1, Invariant, PTL

\* The selection is moved by the user, or because its adapter has gone
\* (MainWindow._on_interfaces_changed).
THEOREM SelectionKeptHolds == Spec => SelectionKept
<1> DEFINE Stays == chosen' # chosen => chosen \notin listed' \/ watched' = chosen'
<1>1. ASSUME [Next]_vars PROVE [Stays]_vars
  <2>1. CASE Poll
    BY <2>1, ReadKeepsSelection DEF Poll, PollQuiet, PollRestarts, PollStops
  <2>2. CASE \E a \in Adapter : IfaceChanged(a)
    BY <2>2 DEF IfaceChanged, Watch
  <2>3. CASE Window
    BY <2>3 DEF Window, SetupWatcher, ToggleStop, ToggleStart, CaptureError, FiveSecondsPass,
                combo
  <2>4. CASE SourceFails \/ SourceEnds
    BY <2>4 DEF SourceFails, SourceEnds, combo
  <2>5. CASE \E a \in Adapter : LastFrame(a) \/ LingererFails(a) \/ LinkChanges(a)
    BY <2>5 DEF LastFrame, LingererFails, LinkChanges, combo
  <2> QED
    BY <1>1, <2>1, <2>2, <2>3, <2>4, <2>5 DEF Next
<1> QED
  BY <1>1, PTL DEF Spec, SelectionKept

\* A lost link ends in a new capture (InterfaceWatcher.check_now counts the
\* polls, MainWindow._on_restart_capture_requested restarts).
THEOREM LossEndsInCaptureHolds == Spec => LossEndsInCapture
<1> DEFINE Recovers == wasDown /\ ~wasDown' => chosen' = None \/ source' = SnifferOn(chosen')
<1>1. ASSUME IInv, [Next]_vars PROVE [Recovers]_vars
  <2>1. CASE PollQuiet
    <3>1. PICK nics \in {link, snap}, change \in BOOLEAN :
            Observe(nics) /\ ~Gone(nics) /\ ~Recovered(nics)
      BY <2>1 DEF PollQuiet, Read
    <3>2. wasDown => wasDown'
      BY <3>1 DEF Observe
    <3> QED
      BY <3>2
  <2>2. CASE PollRestarts \/ PollStops
    BY <2>2 DEF PollRestarts, PollStops, Restart
  <2>3. CASE \E a \in Adapter : IfaceChanged(a)
    BY <2>3 DEF IfaceChanged, Restart
  <2>4. CASE SetupWatcher
    BY <1>1, <2>4 DEF SetupWatcher, IInv, NoLossBeforePolling
  <2>5. CASE ToggleStop \/ ToggleStart \/ CaptureError \/ FiveSecondsPass
    BY <2>5 DEF ToggleStop, ToggleStart, CaptureError, FiveSecondsPass, watch
  <2>6. CASE SourceFails \/ SourceEnds
    BY <2>6 DEF SourceFails, SourceEnds, watch
  <2>7. CASE \E a \in Adapter : LastFrame(a) \/ LingererFails(a) \/ LinkChanges(a)
    BY <2>7 DEF LastFrame, LingererFails, LinkChanges, watch
  <2> QED
    BY <1>1, <2>1, <2>2, <2>3, <2>4, <2>5, <2>6, <2>7 DEF Next, Window, Poll
<1> QED
  BY <1>1, Invariant, PTL DEF Spec, LossEndsInCapture

\* In every state in which a sniffer runs, each frame that the builders make of
\* facts that fit their formats is read by _handle as these facts: LLDP, CDP and
\* DHCP frames, with any of the optional parts, and texts of any length.
THEOREM CapturedRead == Spec => []CapturedIsRead
<1>1. CapturedIsRead
  BY RoundTrips, Zenon DEF CapturedIsRead
<1> QED
  BY <1>1, PTL

\* In every state in which a sniffer runs, what _handle reads of a frame that
\* was cut off, at whatever octet, is what the whole frame says, field by field,
\* or nothing.
THEOREM CapturedPart == Spec => []CapturedInPart
<1>1. CapturedInPart
  BY OnlyLosesAll, Zenon DEF CapturedInPart
<1> QED
  BY <1>1, PTL
=============================================================================
