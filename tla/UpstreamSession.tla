--------------------------- MODULE UpstreamSession ---------------------------
(***************************************************************************)
(* Upstream discovery as the main window runs it                           *)
(* (linksight/ui/main_window.py): the GUI thread starts walks, each in a   *)
(* worker thread of its own, and learns how they ended from signals that   *)
(* Qt queues for it.                                                       *)
(*                                                                         *)
(* The GUI thread is a stack of handlers.  A handler that opens a modal    *)
(* dialog runs a nested event loop, in which queued signals are delivered  *)
(* and only the dialog takes clicks; a handler that waits for a thread     *)
(* delivers nothing.  What a walk does on the network is UpstreamWalk; of  *)
(* its result this module keeps what the window asks the user about.       *)
(***************************************************************************)
EXTENDS Naturals, Sequences, FiniteSets

CONSTANTS
  Addr,      \* addresses a walk can start at
  Outcomes,  \* what a walk can find
  None,      \* no address, no stalled hop, no worker
  MaxWalks   \* bound: walks started in one behaviour

Walks == 1 .. MaxWalks

\* stall: the hop and port to prompt for, where exactly one next switch is
\* known and has no usable address; resume: the hop above which it failed;
\* choices: the cards of the path have candidate buttons.
Outcome == [stall : STRING \cup {None}, resume : Addr \cup {None}, choices : BOOLEAN]

ASSUME SessionAssumption ==
  /\ None \notin Addr
  /\ Outcomes \subseteq Outcome /\ Outcomes # {}
  /\ MaxWalks \in Nat \ {0}

\* A handler waiting for the user, or for the previous walk: the start of the
\* walk it will request, and the walk whose path that one continues, or 0.
Dialogs == {"address", "community", "manual", "stall"}

Frame == [kind : Dialogs \cup {"wait"}, start : Addr \cup {None}, path : 0 .. MaxWalks]

Event == [kind : {"finished", "cancelled"}, walk : Walks]

VARIABLES
  \* the GUI thread
  frames,     \* the handlers it is in, the innermost last
  worker,     \* _upstream_worker
  walkIp,     \* _current_walk_ip
  community,  \* _session_community is set
  lastStall,  \* _last_stall_prompt
  shown,      \* the walk whose path is shown, 0 before the first
  closed,     \* the window is closed
  \* the worker threads
  created,    \* how many there are; they are numbered in the order of creation
  phase,      \* "walking", "passed" the last look at the stop event, or "gone"
  stopped,    \* those whose stop event is set
  outcome,    \* what they found
  starts,     \* where they started
  continues,  \* the walk whose path they continue, or 0
  events      \* their signals, not yet delivered

gui == <<frames, worker, walkIp, community, lastStall, shown, closed>>
threads == <<created, phase, stopped, outcome, starts, continues>>
vars == <<gui, threads, events>>

Init ==
  /\ frames = <<>> /\ worker = None /\ walkIp = None /\ community = FALSE
  /\ lastStall = None /\ shown = 0 /\ closed = FALSE
  /\ created = 0
  /\ phase = [w \in Walks |-> "none"]
  /\ stopped = {}
  /\ outcome = [w \in Walks |-> None]
  /\ starts = [w \in Walks |-> None]
  /\ continues = [w \in Walks |-> 0]
  /\ events = <<>>

-----------------------------------------------------------------------------
(* Starting a walk.                                                        *)

Running(w) == w # None /\ phase[w] \in {"walking", "passed"}

Top == frames[Len(frames)]
Below == SubSeq(frames, 1, Len(frames) - 1)

\* The handler makes a worker, connects its signals and starts it.
Create(start, path) ==
  LET w == created + 1
  IN  /\ created' = w
      /\ worker' = w
      /\ phase' = [phase EXCEPT ![w] = "walking"]
      /\ starts' = [starts EXCEPT ![w] = start]
      /\ continues' = [continues EXCEPT ![w] = path]
      /\ UNCHANGED outcome

\* Variant: the previous walk is told to stop and not waited for.
LaunchUnwaited(rest, start, path) ==
  /\ created < MaxWalks
  /\ walkIp' = start
  /\ stopped' = IF Running(worker) THEN stopped \cup {worker} ELSE stopped
  /\ frames' = rest
  /\ Create(start, path)

\* _on_upstream_requested once it has an address and a community: a running
\* walk is told to stop and waited for.  rest is what the handler returns to.
Launch(rest, start, path) ==
  /\ created < MaxWalks
  /\ walkIp' = start
  /\ \/ /\ Running(worker)
        /\ stopped' = stopped \cup {worker}
        /\ frames' = Append(rest, [kind |-> "wait", start |-> start, path |-> path])
        /\ UNCHANGED <<worker, created, phase, outcome, starts, continues>>
     \/ /\ ~Running(worker)
        /\ frames' = rest
        /\ Create(start, path)
        /\ UNCHANGED stopped

\* The community is asked for first, when none is known.
Request(rest, start, path) ==
  \/ /\ ~community
     /\ frames' = Append(rest, [kind |-> "community", start |-> start, path |-> path])
     /\ UNCHANGED <<worker, walkIp, threads>>
  \/ community /\ Launch(rest, start, path)

RequestOnly == UNCHANGED <<community, lastStall, shown, closed, events>>

\* Nothing is open, and the window takes clicks.
Idle == ~closed /\ frames = <<>>

\* "Discover Upstream Path": the panel has the switch's address or asks.
Discover ==
  /\ Idle
  /\ \/ \E a \in Addr : Request(<<>>, a, 0)
     \/ /\ frames' = <<[kind |-> "address", start |-> None, path |-> 0]>>
        /\ UNCHANGED <<worker, walkIp, threads>>
  /\ RequestOnly

\* Variant: without looking whether there is anything to walk again.
RefreshAnyway ==
  /\ Idle
  /\ Request(<<>>, walkIp, 0)
  /\ RequestOnly

\* "Re-Walk"
Refresh ==
  /\ Idle /\ walkIp # None
  /\ Request(<<>>, walkIp, 0)
  /\ RequestOnly

\* A candidate button on a card of the shown path; a candidate without an
\* address that ARP does not find is asked for.
Continue ==
  /\ Idle
  /\ shown # 0 /\ outcome[shown].choices
  /\ \/ Request(<<>>, walkIp, shown)
     \/ /\ frames' = <<[kind |-> "manual", start |-> walkIp, path |-> shown]>>
        /\ UNCHANGED <<worker, walkIp, threads>>
  /\ RequestOnly

-----------------------------------------------------------------------------
(* Answers to the dialogs.                                                 *)

Asked(kind) == ~closed /\ frames # <<>> /\ Top.kind = kind

AnswerAddress ==
  /\ Asked("address")
  /\ \E a \in Addr : Request(Below, a, 0)
  /\ RequestOnly

AnswerManual ==
  /\ Asked("manual")
  /\ Request(Below, Top.start, Top.path)
  /\ RequestOnly

\* Variant: the answer is used and not kept.
AnswerCommunityUnkept ==
  /\ Asked("community")
  /\ Launch(Below, Top.start, Top.path)
  /\ RequestOnly

AnswerCommunity ==
  /\ Asked("community")
  /\ community' = TRUE
  /\ Launch(Below, Top.start, Top.path)
  /\ UNCHANGED <<lastStall, shown, closed, events>>

\* The prompt for a stalled hop: resumed from the hop below it, or from
\* _current_walk_ip as it is when the answer comes.
AnswerStall ==
  /\ Asked("stall")
  /\ LET resume == outcome[Top.path].resume
     IN  Request(Below, IF resume # None THEN resume ELSE walkIp, Top.path)
  /\ RequestOnly

Dismiss ==
  /\ ~closed /\ frames # <<>> /\ Top.kind \in Dialogs
  /\ frames' = Below
  /\ UNCHANGED <<worker, walkIp, threads>>
  /\ RequestOnly

\* wait(1000) returns: the walk has ended, or is still in a query.  A thread
\* past its queries ends well within the second.
WaitEnds ==
  /\ Asked("wait")
  /\ phase[worker] # "passed"
  /\ frames' = Below
  /\ Create(Top.start, Top.path)
  /\ UNCHANGED <<walkIp, stopped>>
  /\ RequestOnly

-----------------------------------------------------------------------------
(* The worker threads.                                                     *)

\* walk() returns.  A stop is noticed between two hops or here.
WalkReturns(w) ==
  /\ phase[w] = "walking"
  /\ \E found \in Outcomes : outcome' = [outcome EXCEPT ![w] = found]
  /\ \/ /\ w \in stopped
        /\ phase' = [phase EXCEPT ![w] = "gone"]
        /\ events' = Append(events, [kind |-> "cancelled", walk |-> w])
     \/ /\ w \notin stopped
        /\ phase' = [phase EXCEPT ![w] = "passed"]
        /\ UNCHANGED events
  /\ UNCHANGED <<gui, created, stopped, starts, continues>>

\* finished.emit(path), and the thread ends.
Report(w) ==
  /\ phase[w] = "passed"
  /\ phase' = [phase EXCEPT ![w] = "gone"]
  /\ events' = Append(events, [kind |-> "finished", walk |-> w])
  /\ UNCHANGED <<gui, created, stopped, outcome, starts, continues>>

-----------------------------------------------------------------------------
(* Their signals.                                                          *)

\* The event loop runs: at the bottom, or in a modal dialog.
Delivers == ~closed /\ events # <<>> /\ (frames # <<>> => Top.kind # "wait")

\* _maybe_prompt_for_stalled_hop
Prompt(w) ==
  LET stall == outcome[w].stall
  IN  IF stall # None /\ stall # lastStall
      THEN /\ lastStall' = stall
           /\ frames' = Append(frames, [kind |-> "stall", start |-> None, path |-> w])
      ELSE UNCHANGED <<lastStall, frames>>

\* Variant: only the walk the window refers to is listened to.
FinishedIfCurrent ==
  /\ Delivers /\ Head(events).kind = "finished"
  /\ events' = Tail(events)
  /\ IF Head(events).walk = worker
     THEN shown' = worker /\ Prompt(worker)
     ELSE UNCHANGED <<shown, lastStall, frames>>
  /\ UNCHANGED <<worker, walkIp, community, closed, threads>>

\* _on_discovery_finished
Finished ==
  /\ Delivers /\ Head(events).kind = "finished"
  /\ events' = Tail(events)
  /\ shown' = Head(events).walk
  /\ Prompt(Head(events).walk)
  /\ UNCHANGED <<worker, walkIp, community, closed, threads>>

\* _on_discovery_cancelled
Cancelled ==
  /\ Delivers /\ Head(events).kind = "cancelled"
  /\ events' = Tail(events)
  /\ worker' = None
  /\ UNCHANGED <<frames, walkIp, community, lastStall, shown, closed, threads>>

\* closeEvent
Close ==
  /\ Idle
  /\ closed' = TRUE
  /\ stopped' = IF Running(worker) THEN stopped \cup {worker} ELSE stopped
  /\ UNCHANGED <<frames, worker, walkIp, community, lastStall, shown,
                 created, phase, outcome, starts, continues, events>>

\* The window is closed and every thread has ended.
Ended == closed /\ (\A w \in Walks : ~Running(w)) /\ UNCHANGED vars

User == \/ Discover \/ Refresh \/ Continue \/ AnswerAddress \/ AnswerManual
        \/ AnswerCommunity \/ AnswerStall \/ Dismiss \/ Close

Next ==
  \/ User
  \/ WaitEnds
  \/ Finished
  \/ Cancelled
  \/ \E w \in Walks : WalkReturns(w) \/ Report(w)
  \/ Ended

Spec == Init /\ [][Next]_vars

\* Threads run, wait(1000) returns, and the event loop delivers; the user need
\* not do anything.
FairSpec ==
  /\ Spec
  /\ \A w \in Walks : WF_vars(WalkReturns(w)) /\ WF_vars(Report(w))
  /\ WF_vars(WaitEnds)
  /\ WF_vars(Finished \/ Cancelled)

-----------------------------------------------------------------------------
(* Properties.                                                             *)

\* Every variable keeps its type, and a walk is never started without an
\* address.
TypeOK ==
  /\ frames \in Seq(Frame)
  /\ worker \in Walks \cup {None}
  /\ walkIp \in Addr \cup {None}
  /\ community \in BOOLEAN
  /\ lastStall \in STRING \cup {None}
  /\ shown \in 0 .. created
  /\ closed \in BOOLEAN
  /\ created \in 0 .. MaxWalks
  /\ phase \in [Walks -> {"none", "walking", "passed", "gone"}]
  /\ stopped \subseteq 1 .. created
  /\ outcome \in [Walks -> Outcomes \cup {None}]
  /\ starts \in [Walks -> Addr \cup {None}]
  /\ \A w \in 1 .. created : starts[w] \in Addr
  /\ continues \in [Walks -> 0 .. MaxWalks]
  /\ events \in Seq(Event)

\* README: "The SNMP read community is prompted once when starting discovery",
\* so no walk is ever behind a question for it, whatever is nested.
CommunityAskedOnce ==
  \A i \in 1 .. Len(frames) : frames[i].kind = "community" => created = 0

\* A path never gives way to that of an earlier walk that was told to stop: a
\* walk stopped too late to notice reports before the next one is started.
\* Only a walk the window lost its reference to, and so never stopped, can
\* replace a later path.
StoppedNeverReplacesLater ==
  [][shown' < shown => shown' \notin stopped]_vars

\* The cards: "Multiple upstream candidates found -- choose a path to continue
\* discovery".  A walk that continues a path starts where that path started,
\* or at the hop the prompt for its stalled hop resumes from.
ContinuesItsPath ==
  \A w \in 1 .. created :
    continues[w] # 0 =>
      starts[w] \in {starts[continues[w]], outcome[continues[w]].resume}

\* The user who starts a walk and leaves it alone gets to see its path, however
\* late earlier walks report and even if the window has lost it.
NewestWalkAnswers ==
  \A w \in Walks :
    created = w /\ Running(w) ~> (shown = w \/ created > w \/ closed)
====
