---------------------------- MODULE CaptureControl ----------------------------
(***************************************************************************)
(* Packet capture as the main window controls it: the combo box that       *)
(* names the adapter, the capture button, the sniffer threads, and the     *)
(* watcher that polls the adapters and asks for capture to be restarted.   *)
(*                                                                         *)
(* A handler of the GUI thread is one step.  A sniffer looks at its stop   *)
(* event only after a frame, so one that was stopped lives on until its    *)
(* next frame; the window waits a second for it and goes on without it.    *)
(* Adapters come, go and lose their link at any time.                      *)
(***************************************************************************)
EXTENDS Naturals

CONSTANTS
  Adapter,    \* the wired adapters a machine may have
  None,       \* no adapter, no sniffer
  MaxErrors   \* bound: error signals waiting for the GUI thread

ASSUME AdapterAssumption == None \notin Adapter
ASSUME ErrorsAssumption == MaxErrors \in Nat \ {0}

Link == {"absent", "down", "up"}
Life == {"running", "failing", "dead"}
Sniffer == [on : Adapter, life : Life]
UpRequired == 2

VARIABLES
  link,       \* the adapters of the machine
  listed,     \* names in self.interfaces, the entries of the combo box
  chosen,     \* the entry the combo box shows
  source,     \* controller.source
  lingering,  \* adapters on which a stopped sniffer's thread is alive
  button,     \* what the capture button offers
  polling,    \* the watcher has been started
  watched,    \* InterfaceWatcher._active_interface
  snap,       \* _last_snapshot
  wasDown,    \* _active_was_down
  ticks,      \* _active_up_ticks, counted up to UpRequired
  errors,     \* capture_error signals not yet delivered
  quiet       \* the last error was handled less than five seconds ago

combo == <<listed, chosen>>
watch == <<polling, watched, snap, wasDown, ticks>>
vars == <<link, combo, source, lingering, button, watch, errors, quiet>>

Present(nics) == {a \in Adapter : nics[a] # "absent"}

\* _capture_is_active: the thread lives; it may be about to end.
IsActive(s) == s # None /\ s.life # "dead"

\* _sync_capture_ui: the button offers what the state of the thread suggests.
Offer(s) == IF IsActive(s) THEN "Stop" ELSE "Start"

Entry(names) == IF names = {} THEN {None} ELSE names

\* The sniffer that _start creates, if there is an adapter to create it on.
SnifferOn(a) == IF a = None THEN None ELSE [on |-> a, life |-> "running"]

\* stop(), wait(1.0) and source = None: a thread that hears no frame outlives
\* the wait.
Retired ==
  IF source # None /\ source.life = "running" THEN lingering \cup {source.on}
  ELSE lingering

Restart(a) ==
  /\ source' = SnifferOn(a)
  /\ lingering' = Retired
  /\ button' = Offer(source')

-----------------------------------------------------------------------------
(* The window.                                                             *)

\* The constructor lists the adapters, selects the preferred one, starts
\* capture on it; the watcher is not there yet.
Init ==
  /\ link \in [Adapter -> Link]
  /\ listed = Present(link)
  /\ chosen \in Entry(listed)
  /\ source = SnifferOn(chosen)
  /\ lingering = {}
  /\ button = Offer(source)
  /\ polling = FALSE
  /\ watched = None
  /\ snap = link
  /\ wasDown = FALSE
  /\ ticks = 0
  /\ errors = 0
  /\ quiet = FALSE

\* The watcher's view of an adapter it starts to watch.
Watch(a, nics) ==
  /\ watched' = a
  /\ wasDown' = (a # None /\ nics[a] = "down")
  /\ ticks' = IF a # None /\ nics[a] = "up" THEN UpRequired ELSE 0

\* _setup_watcher: the watcher lists the adapters again.
SetupWatcher ==
  /\ ~polling
  /\ polling' = TRUE
  /\ snap' = link
  /\ Watch(chosen, link)
  /\ UNCHANGED <<link, combo, source, lingering, button, errors, quiet>>

\* The user selects an adapter: capture moves there, and so does the watcher.
IfaceChanged(a) ==
  /\ polling
  /\ a \in listed \ {chosen}
  /\ chosen' = a
  /\ Restart(a)
  /\ Watch(a, snap)
  /\ UNCHANGED <<link, listed, polling, snap, errors, quiet>>

\* The button acts on the thread's state, whatever it says.
ToggleStop ==
  /\ polling /\ listed # {}
  /\ IsActive(source)
  /\ source' = None
  /\ lingering' = Retired
  /\ button' = "Start"
  /\ UNCHANGED <<link, combo, watch, errors, quiet>>

\* Variant: the button is not brought up to date.
ToggleStartOnly ==
  /\ polling /\ listed # {}
  /\ ~IsActive(source)
  /\ source' = SnifferOn(chosen)
  /\ UNCHANGED <<link, combo, lingering, button, watch, errors, quiet>>

ToggleStart ==
  /\ polling /\ listed # {}
  /\ ~IsActive(source)
  /\ source' = SnifferOn(chosen)
  /\ button' = Offer(source')
  /\ UNCHANGED <<link, combo, lingering, watch, errors, quiet>>

\* An error is shown and the button brought up to date, but not within five
\* seconds of the last one.
CaptureError ==
  /\ polling
  /\ errors > 0
  /\ errors' = errors - 1
  /\ button' = IF quiet THEN button ELSE Offer(source)
  /\ quiet' = TRUE
  /\ UNCHANGED <<link, combo, source, lingering, watch>>

FiveSecondsPass ==
  /\ quiet
  /\ quiet' = FALSE
  /\ UNCHANGED <<link, combo, source, lingering, button, watch, errors>>

-----------------------------------------------------------------------------
(* The watcher.                                                            *)

Gone(nics) == watched # None /\ nics[watched] = "absent"

\* Variant: only a capture that has died is worth restarting.
RecoveredWhenIdle(nics) ==
  /\ watched # None /\ nics[watched] = "up"
  /\ wasDown
  /\ ticks + 1 >= UpRequired
  /\ ~IsActive(source)

Recovered(nics) ==
  /\ watched # None /\ nics[watched] = "up"
  /\ wasDown
  /\ ticks + 1 >= UpRequired

\* Variant: a link that is up has not been down.
ObserveForgetting(nics) ==
  /\ snap' = nics
  /\ IF watched = None \/ Gone(nics) THEN UNCHANGED <<wasDown, ticks>>
     ELSE /\ wasDown' = (nics[watched] = "down")
          /\ ticks' = IF nics[watched] = "down" THEN 0
                      ELSE IF ticks < UpRequired THEN ticks + 1 ELSE ticks
  /\ UNCHANGED <<polling, watched>>

\* check_now's view of the watched adapter.
Observe(nics) ==
  /\ snap' = nics
  /\ IF watched = None \/ Gone(nics) THEN UNCHANGED <<wasDown, ticks>>
     ELSE IF nics[watched] = "down" THEN wasDown' = TRUE /\ ticks' = 0
     ELSE /\ wasDown' = (wasDown /\ ~Recovered(nics))
          /\ ticks' = IF ticks < UpRequired THEN ticks + 1 ELSE ticks
  /\ UNCHANGED <<polling, watched>>

\* Variants: the entry shown stays though its adapter has gone; the entry is
\* chosen anew.
RelistKeeping(nics) == listed' = Present(nics) /\ UNCHANGED chosen
RelistAnew(nics) == listed' = Present(nics) /\ chosen' \in Entry(listed')

\* _on_interfaces_changed refills the combo box with its signals blocked: the
\* entry stays, or, if it is gone, Qt shows another one.
Relist(nics) ==
  /\ listed' = Present(nics)
  /\ chosen' \in IF chosen \in listed' THEN {chosen} ELSE Entry(listed')

\* What a poll reads; a list that cannot be read counts as the last one.  A
\* change may also be one of addresses, or of an adapter that is not wired.
Read(nics, change) ==
  /\ polling
  /\ nics \in {link, snap}
  /\ nics # snap => change
  /\ IF change THEN Relist(nics) ELSE UNCHANGED combo
  /\ Observe(nics)

PollQuiet ==
  \E nics \in {link, snap}, change \in BOOLEAN :
    /\ Read(nics, change)
    /\ ~Gone(nics) /\ ~Recovered(nics)
    /\ button' = IF change THEN Offer(source) ELSE button
    /\ UNCHANGED <<link, source, lingering, errors, quiet>>

\* The watched adapter is back, or it is gone and there is another one.
PollRestarts ==
  \E nics \in {link, snap}, change \in BOOLEAN :
    /\ Read(nics, change)
    /\ Gone(nics) \/ Recovered(nics)
    /\ chosen' # None
    /\ Restart(chosen')
    /\ UNCHANGED <<link, errors, quiet>>

\* Variant: capture is left to end by itself.
PollLeaves ==
  \E nics \in {link, snap}, change \in BOOLEAN :
    /\ Read(nics, change)
    /\ Gone(nics)
    /\ chosen' = None
    /\ UNCHANGED <<link, source, lingering, button, errors, quiet>>

\* No adapter is left: the button was brought up to date before capture stops.
PollStops ==
  \E nics \in {link, snap}, change \in BOOLEAN :
    /\ Read(nics, change)
    /\ Gone(nics)
    /\ chosen' = None
    /\ source' = None
    /\ lingering' = Retired
    /\ button' = IF change THEN Offer(source) ELSE button
    /\ UNCHANGED <<link, errors, quiet>>

-----------------------------------------------------------------------------
(* The sniffer threads and the machine.                                    *)

\* Capturing fails, for want of the adapter, of permission or of a driver: the
\* error is signalled before the thread ends.
SourceFails ==
  /\ source # None /\ source.life = "running"
  /\ errors < MaxErrors
  /\ source' = [source EXCEPT !.life = "failing"]
  /\ errors' = errors + 1
  /\ UNCHANGED <<link, combo, lingering, button, watch, quiet>>

SourceEnds ==
  /\ source # None /\ source.life = "failing"
  /\ source' = [source EXCEPT !.life = "dead"]
  /\ UNCHANGED <<link, combo, lingering, button, watch, errors, quiet>>

\* A stopped sniffer hears one more frame, hands it on and ends.  Another one
\* may have been left on the same adapter.
LastFrame(a) ==
  /\ a \in lingering
  /\ link[a] = "up"
  /\ lingering' = lingering \ {a}
  /\ UNCHANGED <<link, combo, source, button, watch, errors, quiet>>

LingererFails(a) ==
  /\ a \in lingering
  /\ errors < MaxErrors
  /\ errors' = errors + 1
  /\ lingering' \in {lingering, lingering \ {a}}
  /\ UNCHANGED <<link, combo, source, button, watch, quiet>>

LinkChanges(a) ==
  \E l \in Link \ {link[a]} :
    /\ link' = [link EXCEPT ![a] = l]
    /\ UNCHANGED <<combo, source, lingering, button, watch, errors, quiet>>

Window == SetupWatcher \/ ToggleStop \/ ToggleStart \/ CaptureError \/ FiveSecondsPass
Poll == PollQuiet \/ PollRestarts \/ PollStops

Next ==
  \/ Window
  \/ Poll
  \/ SourceFails \/ SourceEnds
  \/ \E a \in Adapter :
       IfaceChanged(a) \/ LastFrame(a) \/ LingererFails(a) \/ LinkChanges(a)

Spec == Init /\ [][Next]_vars

\* The timer of the watcher keeps firing and its lists can be read now and
\* then; the constructor ends, and signals are delivered.
PollReads == Poll /\ snap' = link
FairSpec ==
  /\ Spec
  /\ WF_vars(SetupWatcher) /\ WF_vars(PollReads)
  /\ WF_vars(SourceEnds) /\ WF_vars(CaptureError)

-----------------------------------------------------------------------------
(* Properties.                                                             *)

TypeOK ==
  /\ link \in [Adapter -> Link] /\ snap \in [Adapter -> Link]
  /\ listed \subseteq Adapter
  /\ chosen \in Entry(listed)
  /\ source \in Sniffer \cup {None}
  /\ lingering \subseteq Adapter
  /\ button \in {"Start", "Stop"}
  /\ polling \in BOOLEAN /\ wasDown \in BOOLEAN /\ quiet \in BOOLEAN
  /\ watched \in Adapter \cup {None}
  /\ ticks \in 0 .. UpRequired
  /\ errors \in 0 .. MaxErrors

\* A button that offers to start capture is never shown over a thread that
\* captures: no second click can start a second capture.  The converse fails
\* (a dead thread may keep "Stop capture"), which is why the handler of the
\* button asks the thread and not the button.
StartMeansIdle == button = "Start" => ~IsActive(source)

\* When the last adapter has gone, capture does not stay behind on it: the
\* signal that stops it is the watcher's, who must still watch something.
NothingLeftBehind == polling /\ chosen = None /\ watched # None => source = None

\* The list the user chooses from is refilled "without resetting selection":
\* the selection moves only to where the user puts it, with the watcher, or
\* when its adapter is no longer listed.
SelectionKept ==
  [][chosen' # chosen => chosen \notin listed' \/ watched' = chosen']_vars

\* A link that was lost is not forgotten: when the watcher takes its loss off
\* its books, a new capture has been started on the adapter the box shows, or
\* there is none to show.
LossEndsInCapture ==
  [][wasDown /\ ~wasDown' =>
       \/ chosen' = None
       \/ source' = SnifferOn(chosen')]_vars

\* A link that was lost and is up again is recovered from unless it goes once
\* more or the user looks elsewhere: the watcher does not wait for ever for two
\* lists in a row that have it up.
LossIsRecoveredFrom ==
  \A a \in Adapter :
    wasDown /\ watched = a /\ link[a] = "up" ~> ~(wasDown /\ watched = a /\ link[a] = "up")

\* The adapter that is captured is the one the combo box shows: "the capture
\* dropdown in the top bar defines which wired adapter is being monitored".
\* Violated once the watched adapter has gone and come back.
SourceIsChosen == source # None /\ chosen # None => source.on = chosen
====
