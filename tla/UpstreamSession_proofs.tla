----------------------- MODULE UpstreamSession_proofs -----------------------
(***************************************************************************)
(* Proofs about UpstreamSession: its type invariant, that the community is *)
(* asked for once, and that a walk that was told to stop never replaces a  *)
(* later one, for any number of walks.                                     *)
(***************************************************************************)
EXTENDS UpstreamSession, SequenceTheorems, TLAPS

-----------------------------------------------------------------------------
(* The inductive invariant.                                                *)

\* What the handlers on the stack rely on while they wait.
FrameOK(i) ==
  LET f == frames[i]
  IN  /\ f.kind \in {"community", "manual", "wait"} => f.start \in Addr
      /\ f.kind = "community" => created = 0
      /\ f.kind = "stall" => f.path \in 1 .. created /\ outcome[f.path] \in Outcomes
      /\ f.kind = "wait" => /\ i = Len(frames)
                            /\ created < MaxWalks
                            /\ worker # None

\* The stack: nothing is opened behind the first question for the community.
StackOK ==
  /\ \A i \in 1 .. Len(frames) : FrameOK(i)
  /\ created = 0 => Len(frames) <= 1

\* Whoever has started a walk has an address and a community; only the walk
\* started last is ever referred to.
StartedOK ==
  /\ created > 0 => community /\ walkIp \in Addr
  /\ worker # None => worker = created
  /\ \A w \in Walks : w > created => phase[w] = "none"

\* A reported walk has ended, and left what it found.
ReportsOK ==
  /\ \A w \in Walks : phase[w] = "passed" => outcome[w] \in Outcomes
  /\ \A i \in 1 .. Len(events) :
       /\ events[i].walk \in 1 .. created
       /\ phase[events[i].walk] = "gone"
       /\ events[i].kind = "finished" => outcome[events[i].walk] \in Outcomes

Waiting == frames # <<>> /\ Top.kind = "wait"

\* A walk that is told to stop too late to notice reports while the window
\* waits for it, before there is a later one.
LateOK ==
  \A w \in stopped : phase[w] = "passed" => created = w /\ (closed \/ Waiting)

Finish(i) == events[i].kind = "finished"

\* So the reports of stopped walks come in order, behind what is shown.
OrderOK ==
  /\ \A i, j \in 1 .. Len(events) :
       i < j /\ Finish(i) /\ Finish(j) /\ events[j].walk < events[i].walk
         => events[j].walk \notin stopped
  /\ \A i \in 1 .. Len(events) :
       Finish(i) /\ events[i].walk < shown => events[i].walk \notin stopped

IInv == TypeOK /\ StackOK /\ StartedOK /\ ReportsOK /\ LateOK /\ OrderOK

-----------------------------------------------------------------------------
(* What a handler leaves on the stack when it returns.                     *)

RestOK(rest) ==
  /\ rest \in Seq(Frame)
  /\ \A i \in 1 .. Len(rest) :
       i \in 1 .. Len(frames) /\ rest[i] = frames[i] /\ rest[i].kind # "wait"
  /\ created = 0 => Len(rest) = 0

\* Nothing is left of the only handler.
LEMMA NothingLeft == RestOK(<<>>)
BY EmptySeq DEF RestOK

\* Without the innermost handler none waits for a walk, and none is left
\* before the first walk.
LEMMA BelowLeft ==
  ASSUME IInv, frames # <<>>
  PROVE  RestOK(Below)
<1>1. frames \in Seq(Frame) /\ Len(frames) \in Nat \ {0}
  BY EmptySeq DEF IInv, TypeOK
<1>2. /\ Below \in Seq(Frame)
      /\ Len(Below) = Len(frames) - 1
      /\ \A i \in 1 .. Len(frames) - 1 : Below[i] = frames[i]
  <2> DEFINE n == Len(frames) - 1
  <2>1. n \in Nat /\ \A i \in 1 .. n : frames[i] \in Frame
    BY <1>1
  <2>2. /\ SubSeq(frames, 1, n) \in Seq(Frame)
        /\ Len(SubSeq(frames, 1, n)) = IF 1 <= n THEN n - 1 + 1 ELSE 0
        /\ \A i \in 1 .. n - 1 + 1 : SubSeq(frames, 1, n)[i] = frames[1 + i - 1]
    BY <2>1, SubSeqProperties
  <2>3. n - 1 + 1 = n /\ \A i \in 1 .. n : 1 + i - 1 = i
    BY <2>1
  <2> HIDE DEF n
  <2>4. Below = SubSeq(frames, 1, n)
    BY DEF Below, n
  <2> QED
    BY <2>1, <2>2, <2>3, <2>4 DEF n
<1>3. \A i \in 1 .. Len(frames) - 1 : frames[i].kind # "wait"
  BY <1>1 DEF IInv, StackOK, FrameOK
<1>4. created = 0 => Len(frames) <= 1
  BY DEF IInv, StackOK
<1>5. \A i \in 1 .. Len(Below) : i \in 1 .. Len(frames) - 1 /\ i \in 1 .. Len(frames)
  BY <1>1, <1>2
<1>6. \A i \in 1 .. Len(Below) :
        i \in 1 .. Len(frames) /\ Below[i] = frames[i] /\ Below[i].kind # "wait"
  BY <1>2, <1>3, <1>5
<1>7. created = 0 => Len(Below) = 0
  BY <1>1, <1>2, <1>4
<1> QED
  BY <1>2, <1>6, <1>7 DEF RestOK

\* All are left behind a handler that a signal starts.
LEMMA AllLeft ==
  ASSUME IInv, ~Waiting, created # 0
  PROVE  RestOK(frames)
<1>1. frames \in Seq(Frame) /\ Len(frames) \in Nat
  BY DEF IInv, TypeOK
<1>2. \A i \in 1 .. Len(frames) : frames[i].kind = "wait" => i = Len(frames)
  BY DEF IInv, StackOK, FrameOK
<1>3. \A i \in 1 .. Len(frames) : frames[i].kind # "wait"
  BY <1>1, <1>2 DEF Waiting, Top
<1> QED
  BY <1>1, <1>3 DEF RestOK

\* A handler may open a dialog or wait, if it keeps what frames rely on.
LEMMA StackPush ==
  ASSUME IInv, NEW rest, RestOK(rest), NEW f \in Frame,
         frames' = Append(rest, f),
         UNCHANGED <<created, outcome, worker>>,
         f.kind \in {"community", "manual", "wait"} => f.start \in Addr,
         f.kind = "community" => created = 0,
         f.kind = "stall" => f.path \in 1 .. created /\ outcome[f.path] \in Outcomes,
         f.kind = "wait" => created < MaxWalks /\ worker # None
  PROVE  frames' \in Seq(Frame) /\ StackOK'
<1>1. rest \in Seq(Frame) /\ Len(rest) \in Nat
  BY DEF RestOK
<1>2. /\ frames' \in Seq(Frame)
      /\ Len(frames') = Len(rest) + 1
      /\ \A i \in 1 .. Len(rest) : frames'[i] = rest[i]
      /\ frames'[Len(rest) + 1] = f
  BY <1>1
<1>3. \A i \in 1 .. Len(rest) : FrameOK(i)'
  BY <1>2 DEF IInv, StackOK, FrameOK, RestOK
<1>4. FrameOK(Len(rest) + 1)'
  BY <1>1, <1>2 DEF FrameOK
<1>5. created' = 0 => Len(frames') <= 1
  BY <1>1, <1>2 DEF RestOK
<1> QED
  BY <1>1, <1>2, <1>3, <1>4, <1>5 DEF StackOK

\* A handler may return.
LEMMA StackPop ==
  ASSUME IInv, NEW rest, RestOK(rest), frames' = rest,
         UNCHANGED <<created, outcome, worker>>
  PROVE  frames' \in Seq(Frame) /\ StackOK'
<1>1. rest \in Seq(Frame) /\ Len(rest) \in Nat
  BY DEF RestOK
<1>2. \A i \in 1 .. Len(rest) : FrameOK(i)'
  BY DEF IInv, StackOK, FrameOK, RestOK
<1> QED
  BY <1>1, <1>2 DEF StackOK, RestOK

\* Where the event loop runs, no walk is about to report in spite of a stop.
LEMMA NoneLate ==
  ASSUME IInv, ~closed, ~Waiting
  PROVE  \A w \in stopped : phase[w] # "passed"
BY DEF IInv, LateOK

\* Only the stack changes.
LEMMA StackStep ==
  ASSUME IInv, ~closed, ~Waiting,
         frames' \in Seq(Frame), StackOK',
         UNCHANGED <<worker, walkIp, community, lastStall, shown, closed, threads, events>>
  PROVE  IInv'
<1>1. TypeOK'
  BY DEF IInv, TypeOK, threads
<1>2. StartedOK'
  BY DEF IInv, StartedOK, threads
<1>3. ReportsOK'
  BY DEF IInv, ReportsOK, threads
<1>4. LateOK'
  BY NoneLate DEF LateOK, threads
<1>5. OrderOK'
  BY DEF IInv, OrderOK, Finish, threads
<1> QED
  BY <1>1, <1>2, <1>3, <1>4, <1>5 DEF IInv

-----------------------------------------------------------------------------
(* Starting a walk.                                                        *)

\* A new walk: it is the newest, and none that was stopped is left to report
\* without a later one.
LEMMA CreateStep ==
  ASSUME IInv, ~closed,
         \A w \in stopped : phase[w] # "passed",
         created < MaxWalks,
         NEW rest, RestOK(rest), frames' = rest,
         NEW start \in Addr, NEW path \in 0 .. MaxWalks,
         Create(start, path),
         walkIp' \in Addr, community' = TRUE,
         UNCHANGED <<lastStall, shown, closed, stopped, events>>
  PROVE  IInv'
<1> DEFINE w == created + 1
<1>1. /\ created \in Nat /\ MaxWalks \in Nat /\ w \in Walks /\ w \in 1 .. w
      /\ created \in 0 .. MaxWalks
  BY SessionAssumption DEF IInv, TypeOK, Walks
<1>2. /\ created' = w /\ worker' = w
      /\ phase' = [phase EXCEPT ![w] = "walking"]
      /\ starts' = [starts EXCEPT ![w] = start]
      /\ continues' = [continues EXCEPT ![w] = path]
      /\ outcome' = outcome
  BY DEF Create
<1> HIDE DEF w
<1>3. rest \in Seq(Frame) /\ Len(rest) \in Nat
  BY DEF RestOK
<1>4. TypeOK'
  <2>1. shown' \in 0 .. created' /\ stopped' \subseteq 1 .. created' /\ created' \in 0 .. MaxWalks
    BY <1>1, <1>2 DEF IInv, TypeOK, w
  <2>2. phase' \in [Walks -> {"none", "walking", "passed", "gone"}]
    BY <1>1, <1>2 DEF IInv, TypeOK
  <2>3. starts' \in [Walks -> Addr \cup {None}]
    BY <1>1, <1>2 DEF IInv, TypeOK
  <2>4. \A v \in 1 .. created' : starts'[v] \in Addr
    <3>1. \A v \in 1 .. w : v \in Walks /\ (v = w \/ v \in 1 .. created)
      BY <1>1 DEF Walks, w
    <3> QED
      BY <1>1, <1>2, <3>1 DEF IInv, TypeOK
  <2>5. continues' \in [Walks -> 0 .. MaxWalks]
    BY <1>1, <1>2 DEF IInv, TypeOK
  <2>6. frames' \in Seq(Frame) /\ community' \in BOOLEAN /\ walkIp' \in Addr \cup {None}
        /\ worker' \in Walks \cup {None}
    BY <1>1, <1>2, <1>3
  <2> QED
    BY <1>2, <2>1, <2>2, <2>3, <2>4, <2>5, <2>6 DEF IInv, TypeOK
<1>5. StackOK'
  <2>1. ASSUME NEW i \in 1 .. Len(rest)
        PROVE  FrameOK(i)'
    <3>1. i \in 1 .. Len(frames) /\ rest[i] = frames[i] /\ rest[i].kind # "wait"
      BY DEF RestOK
    <3>2. created # 0
      BY <1>3 DEF RestOK
    <3>3. FrameOK(i)
      BY <3>1 DEF IInv, StackOK
    <3>4. \A v \in 1 .. created : v \in 1 .. w
      BY <1>1 DEF w
    <3> QED
      BY <1>2, <3>1, <3>2, <3>3, <3>4 DEF FrameOK
  <2>2. created' # 0
    BY <1>1, <1>2 DEF w
  <2> QED
    BY <2>1, <2>2 DEF StackOK
<1>6. StartedOK'
  <2>1. \A v \in Walks : v > w => v > created /\ v # w
    BY <1>1 DEF Walks, w
  <2> QED
    BY <1>1, <1>2, <2>1 DEF IInv, StartedOK, TypeOK
<1>7. phase[w] = "none" /\ w \notin stopped
      /\ \A i \in 1 .. Len(events) : events[i].walk # w
  BY <1>1 DEF IInv, StartedOK, TypeOK, ReportsOK, w
<1>8. \A v : v # w => phase'[v] = phase[v]
  BY <1>2 DEF IInv, TypeOK
<1>9. ReportsOK'
  <2>1. \A v \in Walks : phase'[v] = "passed" => phase[v] = "passed"
    BY <1>1, <1>2, <1>8 DEF IInv, TypeOK
  <2>2. \A i \in 1 .. Len(events) : events[i].walk \in 1 .. w
    BY <1>1 DEF IInv, ReportsOK, w
  <2> QED
    BY <1>2, <1>7, <1>8, <2>1, <2>2 DEF IInv, ReportsOK
<1>10. LateOK'
  BY <1>7, <1>8 DEF LateOK
<1>11. OrderOK'
  BY DEF IInv, OrderOK, Finish
<1> QED
  BY <1>4, <1>5, <1>6, <1>9, <1>10, <1>11 DEF IInv

\* A walk is started, or the walk before it is told to stop and waited for.
LEMMA LaunchStep ==
  ASSUME IInv, ~closed, ~Waiting,
         NEW rest, RestOK(rest),
         NEW start \in Addr, NEW path \in 0 .. MaxWalks,
         Launch(rest, start, path),
         community' = TRUE, created = 0 \/ community,
         UNCHANGED <<lastStall, shown, closed, events>>
  PROVE  IInv'
<1>1. created < MaxWalks /\ walkIp' = start
  BY DEF Launch
<1>2. CASE ~Running(worker)
  BY <1>1, <1>2, CreateStep, NoneLate DEF Launch
<1>3. CASE Running(worker)
  <2> DEFINE f == [kind |-> "wait", start |-> start, path |-> path]
  <2>1. /\ stopped' = stopped \cup {worker}
        /\ frames' = Append(rest, f)
        /\ UNCHANGED <<worker, created, phase, outcome, starts, continues>>
    BY <1>3 DEF Launch
  <2>2. worker # None /\ worker = created /\ worker \in Walks /\ worker \in 1 .. created
        /\ created # 0
    BY <1>3 DEF Running, IInv, StartedOK, TypeOK, Walks
  <2>3. f \in Frame /\ f.kind = "wait" /\ f.start \in Addr
    BY DEF Frame, Dialogs
  <2> HIDE DEF f
  <2>4. frames' \in Seq(Frame) /\ StackOK'
    BY <1>1, <2>1, <2>2, <2>3, StackPush
  <2>5. TypeOK'
    BY <1>1, <2>1, <2>2, <2>4 DEF IInv, TypeOK
  <2>6. StartedOK'
    BY <1>1, <2>1 DEF IInv, StartedOK
  <2>7. ReportsOK'
    BY <2>1 DEF IInv, ReportsOK
  <2>8. Waiting'
    <3>1. rest \in Seq(Frame) /\ Len(rest) \in Nat
      BY DEF RestOK
    <3>2. Len(frames') = Len(rest) + 1 /\ frames'[Len(rest) + 1] = f /\ frames' # <<>>
      BY <2>1, <2>3, <3>1
    <3> QED
      BY <2>3, <3>2 DEF Waiting, Top
  <2>9. LateOK'
    BY <2>1, <2>2, <2>8, NoneLate DEF LateOK
  <2>10. \A i \in 1 .. Len(events) : events[i].walk # worker
    BY <1>3 DEF IInv, ReportsOK, Running
  <2>11. OrderOK'
    BY <2>1, <2>10 DEF IInv, OrderOK, Finish
  <2> QED
    BY <2>4, <2>5, <2>6, <2>7, <2>9, <2>11 DEF IInv
<1> QED
  BY <1>2, <1>3

\* The community is asked for, or a walk is launched.
LEMMA RequestStep ==
  ASSUME IInv, ~closed, ~Waiting,
         NEW rest, RestOK(rest),
         NEW start \in Addr, NEW path \in 0 .. MaxWalks,
         Request(rest, start, path), RequestOnly
  PROVE  IInv'
<1>1. CASE community
  BY <1>1, LaunchStep DEF Request, RequestOnly
<1>2. CASE ~community
  <2> DEFINE f == [kind |-> "community", start |-> start, path |-> path]
  <2>1. created = 0
    BY <1>2 DEF IInv, StartedOK, TypeOK
  <2>2. f \in Frame /\ f.kind = "community" /\ f.start \in Addr
    BY DEF Frame, Dialogs
  <2>3. frames' = Append(rest, f) /\ UNCHANGED <<worker, walkIp, threads>>
    BY <1>2 DEF Request
  <2> HIDE DEF f
  <2>4. frames' \in Seq(Frame) /\ StackOK'
    BY <2>1, <2>2, <2>3, StackPush DEF threads
  <2> QED
    BY <2>3, <2>4, StackStep DEF RequestOnly
<1> QED
  BY <1>1, <1>2 DEF IInv, TypeOK

-----------------------------------------------------------------------------
(* The user.                                                               *)

\* A click starts from an empty stack.
LEMMA IdleStep ==
  ASSUME IInv, Idle
  PROVE  ~closed /\ ~Waiting /\ RestOK(<<>>)
BY NothingLeft DEF Idle, Waiting

\* An answer returns to what is below the dialog.
LEMMA AskedStep ==
  ASSUME IInv, NEW kind \in Dialogs, Asked(kind)
  PROVE  /\ ~closed /\ ~Waiting /\ RestOK(Below)
         /\ Top \in Frame /\ FrameOK(Len(frames))
<1>1. frames \in Seq(Frame) /\ frames # <<>> /\ Top.kind = kind /\ ~closed
  BY DEF IInv, TypeOK, Asked
<1>2. Len(frames) \in 1 .. Len(frames) /\ Top \in Frame
  BY <1>1, EmptySeq DEF Top
<1>3. RestOK(Below)
  BY <1>1, BelowLeft
<1>4. ~Waiting
  BY <1>1 DEF Waiting, Dialogs
<1> QED
  BY <1>1, <1>2, <1>3, <1>4 DEF IInv, StackOK

\* A dialog is opened over an empty stack.
LEMMA OpenStep ==
  ASSUME IInv, Idle, NEW f \in Frame, frames' = <<f>>,
         f.kind \in {"address", "manual"}, f.kind = "manual" => f.start \in Addr,
         UNCHANGED <<worker, walkIp, threads>>, RequestOnly
  PROVE  IInv'
<1>1. ~closed /\ ~Waiting /\ RestOK(<<>>)
  BY IdleStep
<1>2. frames' = Append(<<>>, f)
  OBVIOUS
<1>3. frames' \in Seq(Frame) /\ StackOK'
  BY <1>1, <1>2, StackPush DEF threads
<1> QED
  BY <1>1, <1>3, StackStep DEF RequestOnly

LEMMA UserStep ==
  ASSUME IInv, User
  PROVE  IInv'
<1>0. 0 \in 0 .. MaxWalks /\ created \in Nat /\ created \in 0 .. MaxWalks /\ MaxWalks \in Nat
  BY SessionAssumption DEF IInv, TypeOK
<1>1. CASE Discover
  <2>1. ~closed /\ ~Waiting /\ RestOK(<<>>)
    BY <1>1, IdleStep DEF Discover
  <2>2. CASE \E a \in Addr : Request(<<>>, a, 0)
    BY <1>0, <1>1, <2>1, <2>2, RequestStep DEF Discover
  <2>3. CASE /\ frames' = <<[kind |-> "address", start |-> None, path |-> 0]>>
             /\ UNCHANGED <<worker, walkIp, threads>>
    <3> DEFINE f == [kind |-> "address", start |-> None, path |-> 0]
    <3>1. f \in Frame /\ f.kind = "address" /\ frames' = <<f>>
      BY <1>0, <2>3 DEF Frame, Dialogs
    <3> HIDE DEF f
    <3> QED
      BY <1>1, <2>3, <3>1, OpenStep DEF Discover
  <2> QED
    BY <1>1, <2>2, <2>3 DEF Discover
<1>2. CASE Refresh
  <2>1. walkIp \in Addr
    BY <1>2 DEF Refresh, IInv, TypeOK
  <2> QED
    BY <1>0, <1>2, <2>1, IdleStep, RequestStep DEF Refresh
<1>3. CASE Continue
  <2>1. ~closed /\ ~Waiting /\ RestOK(<<>>)
    BY <1>3, IdleStep DEF Continue
  <2>2. shown \in 0 .. MaxWalks /\ walkIp \in Addr
    BY <1>0, <1>3 DEF Continue, IInv, TypeOK, StartedOK
  <2>3. CASE Request(<<>>, walkIp, shown)
    BY <1>3, <2>1, <2>2, <2>3, RequestStep DEF Continue
  <2>4. CASE /\ frames' = <<[kind |-> "manual", start |-> walkIp, path |-> shown]>>
             /\ UNCHANGED <<worker, walkIp, threads>>
    <3> DEFINE f == [kind |-> "manual", start |-> walkIp, path |-> shown]
    <3>1. f \in Frame /\ f.kind = "manual" /\ f.start \in Addr /\ frames' = <<f>>
      BY <2>2, <2>4 DEF Frame, Dialogs
    <3> HIDE DEF f
    <3> QED
      BY <1>3, <2>4, <3>1, OpenStep DEF Continue
  <2> QED
    BY <1>3, <2>3, <2>4 DEF Continue
<1>4. CASE AnswerAddress
  <2>1. ~closed /\ ~Waiting /\ RestOK(Below)
    BY <1>4, AskedStep DEF AnswerAddress, Dialogs
  <2> QED
    BY <1>0, <1>4, <2>1, RequestStep DEF AnswerAddress
<1>5. CASE AnswerManual
  <2>1. /\ ~closed /\ ~Waiting /\ RestOK(Below)
        /\ Top \in Frame /\ FrameOK(Len(frames))
    BY <1>5, AskedStep DEF AnswerManual, Dialogs
  <2>2. Top.start \in Addr /\ Top.path \in 0 .. MaxWalks
    BY <1>5, <2>1 DEF AnswerManual, Asked, FrameOK, Top, Frame
  <2> QED
    BY <1>5, <2>1, <2>2, RequestStep DEF AnswerManual
<1>6. CASE AnswerCommunity
  <2>1. /\ ~closed /\ ~Waiting /\ RestOK(Below)
        /\ Top \in Frame /\ FrameOK(Len(frames))
    BY <1>6, AskedStep DEF AnswerCommunity, Dialogs
  <2>2. Top.start \in Addr /\ Top.path \in 0 .. MaxWalks /\ created = 0
    BY <1>6, <2>1 DEF AnswerCommunity, Asked, FrameOK, Top, Frame
  <2> QED
    BY <1>6, <2>1, <2>2, LaunchStep DEF AnswerCommunity
<1>7. CASE AnswerStall
  <2>1. /\ ~closed /\ ~Waiting /\ RestOK(Below)
        /\ Top \in Frame /\ FrameOK(Len(frames))
    BY <1>7, AskedStep DEF AnswerStall, Dialogs
  <2>2. Top.path \in 0 .. MaxWalks /\ Top.path \in 1 .. created /\ outcome[Top.path] \in Outcomes
    BY <1>7, <2>1 DEF AnswerStall, Asked, FrameOK, Top, Frame
  <2>3. walkIp \in Addr
    BY <1>0, <2>2 DEF IInv, StartedOK
  <2> DEFINE resume == outcome[Top.path].resume
  <2>4. resume \in Addr \cup {None}
    BY <2>2, SessionAssumption DEF Outcome
  <2>5. Request(Below, IF resume # None THEN resume ELSE walkIp, Top.path) /\ RequestOnly
    BY <1>7 DEF AnswerStall
  <2> HIDE DEF resume
  <2>6. (IF resume # None THEN resume ELSE walkIp) \in Addr
    BY <2>3, <2>4
  <2> QED
    BY <2>1, <2>2, <2>5, <2>6, RequestStep
<1>8. CASE Dismiss
  <2>1. Top.kind \in Dialogs /\ Asked(Top.kind)
    BY <1>8 DEF Dismiss, Asked
  <2>2. ~closed /\ ~Waiting /\ RestOK(Below)
    BY <2>1, AskedStep
  <2>3. frames' = Below /\ UNCHANGED <<worker, walkIp, threads>> /\ RequestOnly
    BY <1>8 DEF Dismiss
  <2>4. frames' \in Seq(Frame) /\ StackOK'
    BY <2>2, <2>3, StackPop DEF threads
  <2> QED
    BY <2>2, <2>3, <2>4, StackStep DEF RequestOnly
<1>9. CASE Close
  <2>1. ~closed /\ ~Waiting /\ frames = <<>>
    BY <1>9, IdleStep DEF Close, Idle
  <2>2. /\ stopped' = IF Running(worker) THEN stopped \cup {worker} ELSE stopped
        /\ closed' = TRUE
        /\ UNCHANGED <<frames, worker, walkIp, community, lastStall, shown,
                       created, phase, outcome, starts, continues, events>>
    BY <1>9 DEF Close
  <2>3. Running(worker) => worker = created /\ worker \in 1 .. created
    BY <1>0 DEF Running, IInv, StartedOK, TypeOK, Walks
  <2>4. TypeOK'
    BY <2>2, <2>3 DEF IInv, TypeOK
  <2>5. StackOK' /\ StartedOK' /\ ReportsOK'
    BY <2>2 DEF IInv, StackOK, FrameOK, StartedOK, ReportsOK
  <2>6. LateOK'
    BY <2>1, <2>2, <2>3, NoneLate DEF LateOK
  <2>7. Running(worker) => \A i \in 1 .. Len(events) : events[i].walk # worker
    BY DEF IInv, ReportsOK, Running
  <2>8. OrderOK'
    BY <2>2, <2>7 DEF IInv, OrderOK, Finish
  <2> QED
    BY <2>4, <2>5, <2>6, <2>8 DEF IInv
<1> QED
  BY <1>1, <1>2, <1>3, <1>4, <1>5, <1>6, <1>7, <1>8, <1>9 DEF User

-----------------------------------------------------------------------------
(* The wait for the previous walk, and the worker threads.                 *)

LEMMA WaitStep ==
  ASSUME IInv, WaitEnds
  PROVE  IInv'
<1>1. frames \in Seq(Frame) /\ frames # <<>> /\ Top.kind = "wait" /\ ~closed
  BY DEF IInv, TypeOK, WaitEnds, Asked
<1>2. Len(frames) \in 1 .. Len(frames) /\ Top \in Frame
  BY <1>1, EmptySeq DEF Top
<1>3. RestOK(Below)
  BY <1>1, BelowLeft
<1>4. FrameOK(Len(frames))
  BY <1>2 DEF IInv, StackOK
<1>5. Top.start \in Addr /\ Top.path \in 0 .. MaxWalks /\ created < MaxWalks /\ worker = created
  BY <1>1, <1>2, <1>4 DEF FrameOK, Top, Frame, IInv, StartedOK
<1>6. worker \in Walks /\ worker # None
  BY <1>1, <1>2, <1>4 DEF FrameOK, Top, IInv, TypeOK
<1>7. created > 0
  BY <1>5, <1>6 DEF Walks
<1>8. \A w \in stopped : phase[w] # "passed"
  BY <1>5 DEF WaitEnds, IInv, LateOK
<1>9. walkIp' \in Addr /\ community' = TRUE
  BY <1>7 DEF WaitEnds, RequestOnly, IInv, StartedOK, TypeOK
<1> QED
  BY <1>1, <1>3, <1>5, <1>8, <1>9, CreateStep DEF WaitEnds, RequestOnly

\* walk() returns: a cancelled walk does not report.
LEMMA WalkStep ==
  ASSUME IInv, NEW w \in Walks, WalkReturns(w)
  PROVE  IInv'
<1>1. phase[w] = "walking" /\ UNCHANGED <<gui, created, stopped, starts, continues>>
  BY DEF WalkReturns
<1>2. PICK found \in Outcomes : outcome' = [outcome EXCEPT ![w] = found]
  BY DEF WalkReturns
<1>3. /\ outcome'[w] \in Outcomes
      /\ \A v : v # w => outcome'[v] = outcome[v]
      /\ outcome' \in [Walks -> Outcomes \cup {None}]
  BY <1>2 DEF IInv, TypeOK
<1>4. w \in 1 .. created /\ created \in Nat
  BY <1>1 DEF IInv, StartedOK, TypeOK, Walks
<1>5. StackOK'
  <2>1. \A i \in 1 .. Len(frames) : FrameOK(i)'
    BY <1>1, <1>3 DEF IInv, StackOK, FrameOK, gui
  <2> QED
    BY <1>1, <2>1 DEF IInv, StackOK, gui
<1>6. \A i \in 1 .. Len(events) : events[i].walk # w
  BY <1>1 DEF IInv, ReportsOK
<1>7. CASE /\ w \in stopped
           /\ phase' = [phase EXCEPT ![w] = "gone"]
           /\ events' = Append(events, [kind |-> "cancelled", walk |-> w])
  <2> DEFINE e == [kind |-> "cancelled", walk |-> w]
  <2>1. e \in Event /\ e.kind = "cancelled" /\ e.walk = w
    BY DEF Event
  <2>2. events' = Append(events, e)
    BY <1>7
  <2> HIDE DEF e
  <2>3. /\ events' \in Seq(Event) /\ Len(events) \in Nat
        /\ Len(events') = Len(events) + 1
        /\ \A i \in 1 .. Len(events) : events'[i] = events[i]
        /\ events'[Len(events) + 1] = e
    BY <2>1, <2>2 DEF IInv, TypeOK
  <2>4. phase' \in [Walks -> {"none", "walking", "passed", "gone"}]
        /\ phase'[w] = "gone" /\ \A v : v # w => phase'[v] = phase[v]
    BY <1>7 DEF IInv, TypeOK
  <2>5. \A i \in 1 .. Len(events') : i \in 1 .. Len(events) \/ (i = Len(events) + 1 /\ events'[i] = e)
    BY <2>3
  <2>6. TypeOK'
    BY <1>1, <1>3, <2>3, <2>4 DEF IInv, TypeOK, gui
  <2>7. StartedOK'
    BY <1>1, <1>4, <2>4 DEF IInv, StartedOK, gui
  <2>8. ReportsOK'
    BY <1>1, <1>3, <1>4, <1>6, <2>1, <2>3, <2>4, <2>5 DEF IInv, ReportsOK
  <2>9. LateOK'
    BY <1>1, <2>4 DEF IInv, LateOK, Waiting, Top, gui
  <2>10. \A i \in 1 .. Len(events') :
           Finish(i)' => i \in 1 .. Len(events) /\ Finish(i) /\ events'[i] = events[i]
    BY <2>1, <2>3, <2>5 DEF Finish
  <2>11. OrderOK'
    BY <1>1, <2>10 DEF IInv, OrderOK, gui
  <2> QED
    BY <1>5, <2>6, <2>7, <2>8, <2>9, <2>11 DEF IInv
<1>8. CASE /\ w \notin stopped
           /\ phase' = [phase EXCEPT ![w] = "passed"]
           /\ UNCHANGED events
  <2>1. phase' \in [Walks -> {"none", "walking", "passed", "gone"}]
        /\ phase'[w] = "passed" /\ \A v : v # w => phase'[v] = phase[v]
    BY <1>8 DEF IInv, TypeOK
  <2>2. TypeOK'
    BY <1>1, <1>3, <1>8, <2>1 DEF IInv, TypeOK, gui
  <2>3. StartedOK'
    BY <1>1, <1>4, <2>1 DEF IInv, StartedOK, gui
  <2>4. ReportsOK'
    BY <1>1, <1>3, <1>6, <1>8, <2>1 DEF IInv, ReportsOK
  <2>5. LateOK'
    BY <1>1, <1>8, <2>1 DEF IInv, LateOK, Waiting, Top, gui
  <2>6. OrderOK'
    BY <1>1, <1>8 DEF IInv, OrderOK, Finish, gui
  <2> QED
    BY <1>5, <2>2, <2>3, <2>4, <2>5, <2>6 DEF IInv
<1> QED
  BY <1>7, <1>8 DEF WalkReturns

\* A walk reports: if it was stopped, none later was started, so none later
\* has reported or is shown.
LEMMA ReportStep ==
  ASSUME IInv, NEW w \in Walks, Report(w)
  PROVE  IInv'
<1> DEFINE e == [kind |-> "finished", walk |-> w]
<1>1. /\ phase[w] = "passed"
      /\ phase' = [phase EXCEPT ![w] = "gone"]
      /\ events' = Append(events, e)
      /\ UNCHANGED <<gui, created, stopped, outcome, starts, continues>>
  BY DEF Report
<1>2. e \in Event /\ e.kind = "finished" /\ e.walk = w
  BY DEF Event
<1> HIDE DEF e
<1>3. /\ events' \in Seq(Event) /\ Len(events) \in Nat
      /\ Len(events') = Len(events) + 1
      /\ \A i \in 1 .. Len(events) : events'[i] = events[i]
      /\ events'[Len(events) + 1] = e
  BY <1>1, <1>2 DEF IInv, TypeOK
<1>4. phase' \in [Walks -> {"none", "walking", "passed", "gone"}]
      /\ phase'[w] = "gone" /\ \A v : v # w => phase'[v] = phase[v]
  BY <1>1 DEF IInv, TypeOK
<1>5. \A i \in 1 .. Len(events') : i \in 1 .. Len(events) \/ (i = Len(events) + 1 /\ events'[i] = e)
  BY <1>3
<1>6. w \in 1 .. created /\ created \in Nat /\ outcome[w] \in Outcomes
  BY <1>1 DEF IInv, StartedOK, ReportsOK, TypeOK, Walks
<1>7. TypeOK'
  BY <1>1, <1>3, <1>4 DEF IInv, TypeOK, gui
<1>8. StackOK'
  <2>1. \A i \in 1 .. Len(frames) : FrameOK(i)'
    BY <1>1 DEF IInv, StackOK, FrameOK, gui
  <2> QED
    BY <1>1, <2>1 DEF IInv, StackOK, gui
<1>9. StartedOK'
  BY <1>1, <1>4, <1>6 DEF IInv, StartedOK, gui
<1>10. ReportsOK'
  BY <1>1, <1>2, <1>3, <1>4, <1>5, <1>6 DEF IInv, ReportsOK
<1>11. LateOK'
  BY <1>1, <1>4 DEF IInv, LateOK, Waiting, Top, gui
<1>12. OrderOK'
  <2>1. w \in stopped => w = created
    BY <1>1 DEF IInv, LateOK
  <2>2. /\ \A i \in 1 .. Len(events) : events[i].walk \in 1 .. created
        /\ shown \in 0 .. created
    BY DEF IInv, ReportsOK, TypeOK
  <2>3. \A i \in 1 .. Len(events) : Finish(i)' = Finish(i)
    BY <1>3 DEF Finish
  <2>4. ASSUME NEW i \in 1 .. Len(events'), NEW j \in 1 .. Len(events'),
               i < j, Finish(i)', Finish(j)', events'[j].walk < events'[i].walk
        PROVE  events'[j].walk \notin stopped'
    <3>1. i \in 1 .. Len(events)
      BY <1>3, <1>5, <2>4
    <3>2. CASE j \in 1 .. Len(events)
      BY <1>1, <1>3, <2>3, <2>4, <3>1, <3>2 DEF IInv, OrderOK
    <3>3. CASE events'[j] = e
      BY <1>1, <1>2, <1>3, <1>6, <2>1, <2>2, <2>4, <3>1, <3>3
    <3> QED
      BY <1>5, <3>2, <3>3
  <2>5. ASSUME NEW i \in 1 .. Len(events'), Finish(i)', events'[i].walk < shown'
        PROVE  events'[i].walk \notin stopped'
    <3>1. shown' = shown /\ stopped' = stopped
      BY <1>1 DEF gui
    <3>2. CASE i \in 1 .. Len(events)
      BY <1>3, <2>3, <2>5, <3>1, <3>2 DEF IInv, OrderOK
    <3>3. CASE events'[i] = e
      BY <1>2, <1>6, <2>1, <2>2, <2>5, <3>1, <3>3
    <3> QED
      BY <1>5, <3>2, <3>3
  <2> QED
    BY <2>4, <2>5 DEF OrderOK
<1> QED
  BY <1>7, <1>8, <1>9, <1>10, <1>11, <1>12 DEF IInv

-----------------------------------------------------------------------------
(* The signals.                                                            *)

\* Taking the first signal keeps the others and their order.
LEMMA EventTail ==
  ASSUME IInv, events # <<>>, events' = Tail(events)
  PROVE  /\ Len(events) \in Nat \ {0} /\ 1 \in 1 .. Len(events)
         /\ Head(events) = events[1] /\ events[1] \in Event
         /\ events' \in Seq(Event) /\ Len(events') = Len(events) - 1
         /\ \A i \in 1 .. Len(events') :
              i + 1 \in 1 .. Len(events) /\ events'[i] = events[i + 1]
<1>1. events \in Seq(Event)
  BY DEF IInv, TypeOK
<1> QED
  BY <1>1, EmptySeq

LEMMA FinishedStep ==
  ASSUME IInv, Finished
  PROVE  /\ IInv'
         /\ shown' < shown => shown' \notin stopped
<1> DEFINE w == events[1].walk
<1>1. /\ ~closed /\ events # <<>> /\ ~Waiting
      /\ events' = Tail(events)
      /\ UNCHANGED <<worker, walkIp, community, closed, threads>>
  BY DEF Finished, Delivers, Waiting
<1>2. /\ Len(events) \in Nat \ {0} /\ 1 \in 1 .. Len(events)
      /\ Head(events) = events[1] /\ events[1] \in Event
      /\ events' \in Seq(Event) /\ Len(events') = Len(events) - 1
      /\ \A i \in 1 .. Len(events') :
           i + 1 \in 1 .. Len(events) /\ events'[i] = events[i + 1]
  BY <1>1, EventTail
<1>3. Finish(1) /\ shown' = w /\ Prompt(w)
  BY <1>2 DEF Finished, Finish
<1>4. w \in 1 .. created /\ outcome[w] \in Outcomes /\ created \in 0 .. MaxWalks
      /\ w \in 0 .. MaxWalks /\ w \in 0 .. created /\ created # 0 /\ MaxWalks \in Nat
  <2>1. w \in 1 .. created /\ outcome[w] \in Outcomes /\ created \in 0 .. MaxWalks
    BY <1>2, <1>3 DEF IInv, ReportsOK, Finish, TypeOK
  <2> QED
    BY <2>1, SessionAssumption
<1> HIDE DEF w
<1>5. /\ frames' \in Seq(Frame) /\ StackOK'
      /\ lastStall' \in STRING \cup {None}
  <2>1. CASE UNCHANGED <<lastStall, frames>>
    BY <1>1, <2>1 DEF IInv, TypeOK, StackOK, FrameOK, threads
  <2>2. CASE /\ outcome[w].stall # None
             /\ lastStall' = outcome[w].stall
             /\ frames' = Append(frames, [kind |-> "stall", start |-> None, path |-> w])
    <3> DEFINE f == [kind |-> "stall", start |-> None, path |-> w]
    <3>1. f \in Frame /\ f.kind = "stall" /\ f.path = w /\ frames' = Append(frames, f)
      BY <1>4, <2>2 DEF Frame, Dialogs
    <3> HIDE DEF f
    <3>2. RestOK(frames)
      BY <1>1, <1>4, AllLeft
    <3>3. frames' \in Seq(Frame) /\ StackOK'
      BY <1>1, <1>4, <3>1, <3>2, StackPush DEF threads
    <3>4. outcome[w].stall \in STRING \cup {None}
      BY <1>4, SessionAssumption DEF Outcome
    <3> QED
      BY <2>2, <3>3, <3>4
  <2> QED
    BY <1>3, <2>1, <2>2 DEF Prompt
<1>6. TypeOK'
  BY <1>1, <1>2, <1>3, <1>4, <1>5 DEF IInv, TypeOK, threads
<1>7. StartedOK'
  BY <1>1 DEF IInv, StartedOK, threads
<1>8. ReportsOK'
  BY <1>1, <1>2 DEF IInv, ReportsOK, threads
<1>9. LateOK'
  BY <1>1, NoneLate DEF LateOK, threads
<1>10. \A i \in 1 .. Len(events') : Finish(i)' = Finish(i + 1)
  BY <1>2 DEF Finish
<1>11. stopped' = stopped
  BY <1>1 DEF threads
<1>12. OrderOK'
  <2>1. \A i, j \in 1 .. Len(events') :
          i < j /\ Finish(i)' /\ Finish(j)' /\ events'[j].walk < events'[i].walk
            => events'[j].walk \notin stopped'
    <3>1. \A i, j \in 1 .. Len(events') : i < j => i + 1 < j + 1
      BY <1>2
    <3> QED
      BY <1>2, <1>10, <1>11, <3>1 DEF IInv, OrderOK
  <2>2. \A i \in 1 .. Len(events') :
          Finish(i)' /\ events'[i].walk < shown' => events'[i].walk \notin stopped'
    <3>1. \A i \in 1 .. Len(events') : 1 < i + 1
      BY <1>2
    <3> QED
      BY <1>2, <1>3, <1>10, <1>11, <3>1 DEF IInv, OrderOK, w
  <2> QED
    BY <2>1, <2>2 DEF OrderOK
<1>13. shown' < shown => shown' \notin stopped
  BY <1>2, <1>3 DEF IInv, OrderOK, w
<1> QED
  BY <1>5, <1>6, <1>7, <1>8, <1>9, <1>12, <1>13 DEF IInv

LEMMA CancelledStep ==
  ASSUME IInv, Cancelled
  PROVE  IInv'
<1>1. /\ ~closed /\ events # <<>> /\ ~Waiting
      /\ events' = Tail(events) /\ worker' = None
      /\ UNCHANGED <<frames, walkIp, community, lastStall, shown, closed, threads>>
  BY DEF Cancelled, Delivers, Waiting
<1>2. /\ events' \in Seq(Event) /\ Len(events') = Len(events) - 1 /\ Len(events) \in Nat
      /\ \A i \in 1 .. Len(events') :
           i + 1 \in 1 .. Len(events) /\ events'[i] = events[i + 1]
  BY <1>1, EventTail
<1>3. TypeOK'
  BY <1>1, <1>2 DEF IInv, TypeOK, threads
<1>4. StackOK'
  <2>1. \A i \in 1 .. Len(frames) : frames[i].kind # "wait"
    <3>1. frames \in Seq(Frame)
      BY DEF IInv, TypeOK
    <3> QED
      BY <1>1, <3>1 DEF IInv, StackOK, FrameOK, Waiting, Top
  <2> QED
    BY <1>1, <2>1 DEF IInv, StackOK, FrameOK, threads
<1>5. StartedOK'
  BY <1>1 DEF IInv, StartedOK, threads
<1>6. ReportsOK'
  BY <1>1, <1>2 DEF IInv, ReportsOK, threads
<1>7. LateOK'
  BY <1>1, NoneLate DEF LateOK, threads
<1>8. OrderOK'
  <2>1. \A i \in 1 .. Len(events') : Finish(i)' = Finish(i + 1)
    BY <1>2 DEF Finish
  <2>2. \A i, j \in 1 .. Len(events') : i < j => i + 1 < j + 1
    BY <1>2
  <2> QED
    BY <1>1, <1>2, <2>1, <2>2 DEF IInv, OrderOK, threads
<1> QED
  BY <1>3, <1>4, <1>5, <1>6, <1>7, <1>8 DEF IInv

-----------------------------------------------------------------------------
(* The specification.                                                      *)

LEMMA InitOK == Init => IInv
<1> SUFFICES ASSUME Init
             PROVE  IInv
  OBVIOUS
<1>1. 1 .. created = {} /\ 1 .. Len(frames) = {} /\ 1 .. Len(events) = {} /\ MaxWalks \in Nat
      /\ created = 0 /\ Len(frames) = 0
  BY SessionAssumption DEF Init
<1>2. TypeOK
  <2>1. frames \in Seq(Frame) /\ events \in Seq(Event)
    BY DEF Init
  <2>2. /\ phase \in [Walks -> {"none", "walking", "passed", "gone"}]
        /\ outcome \in [Walks -> Outcomes \cup {None}]
        /\ starts \in [Walks -> Addr \cup {None}]
    BY DEF Init
  <2>3. continues \in [Walks -> 0 .. MaxWalks] /\ created \in 0 .. MaxWalks
    BY <1>1 DEF Init
  <2>4. \A w \in 1 .. created : starts[w] \in Addr
    BY <1>1
  <2>5. stopped \subseteq 1 .. created /\ shown \in 0 .. created
    BY <1>1 DEF Init
  <2> QED
    BY <2>1, <2>2, <2>3, <2>4, <2>5 DEF Init, TypeOK
<1> QED
  BY <1>1, <1>2 DEF Init, IInv, StackOK, StartedOK, ReportsOK, LateOK, OrderOK, Walks

LEMMA StutterStep ==
  ASSUME IInv, UNCHANGED vars
  PROVE  IInv'
BY DEF IInv, TypeOK, StackOK, FrameOK, StartedOK, ReportsOK, LateOK, Waiting, Top,
       OrderOK, Finish, vars, gui, threads

\* Every step keeps the invariant, and none goes back to the path of an
\* earlier walk that was stopped.
LEMMA NextStep ==
  ASSUME IInv, [Next]_vars
  PROVE  IInv' /\ (shown' < shown => shown' \notin stopped)
<1>0. shown \in Nat
  BY DEF IInv, TypeOK
<1>1. CASE User
  <2>1. shown' = shown
    BY <1>1 DEF User, Discover, Refresh, Continue, AnswerAddress, AnswerManual,
                AnswerCommunity, AnswerStall, Dismiss, Close, RequestOnly
  <2> QED
    BY <1>0, <1>1, <2>1, UserStep
<1>2. CASE WaitEnds
  BY <1>0, <1>2, WaitStep DEF WaitEnds, RequestOnly
<1>3. CASE Finished
  BY <1>3, FinishedStep
<1>4. CASE Cancelled
  BY <1>0, <1>4, CancelledStep DEF Cancelled
<1>5. ASSUME NEW w \in Walks, WalkReturns(w)
      PROVE  IInv' /\ (shown' < shown => shown' \notin stopped)
  <2>1. IInv'
    BY <1>5, WalkStep
  <2>2. shown' = shown
    BY <1>5 DEF WalkReturns, gui
  <2> QED
    BY <1>0, <2>1, <2>2
<1>6. ASSUME NEW w \in Walks, Report(w)
      PROVE  IInv' /\ (shown' < shown => shown' \notin stopped)
  <2>1. IInv'
    BY <1>6, ReportStep
  <2>2. shown' = shown
    BY <1>6 DEF Report, gui
  <2> QED
    BY <1>0, <2>1, <2>2
<1>7. CASE UNCHANGED vars
  BY <1>0, <1>7, StutterStep DEF vars, gui
<1> QED
  BY <1>1, <1>2, <1>3, <1>4, <1>5, <1>6, <1>7 DEF Next, Ended

LEMMA Inductive == Spec => []IInv
BY InitOK, NextStep, PTL DEF Spec

\* What the window knows of its walks is consistent in every reachable state:
\* every variable keeps its type, and no worker of _on_upstream_requested is
\* started without an address, however many there are.
THEOREM TypeCorrect == Spec => []TypeOK
<1>1. IInv => TypeOK
  BY DEF IInv
<1> QED
  BY <1>1, Inductive, PTL

\* The community is asked for before the first walk only: in no nesting of
\* dialogs is a question for it open once a walk has been started
\* (_on_upstream_requested).
THEOREM AskedOnce == Spec => []CommunityAskedOnce
<1>1. IInv => CommunityAskedOnce
  BY DEF IInv, StackOK, FrameOK, CommunityAskedOnce
<1> QED
  BY <1>1, Inductive, PTL

\* A walk that was told to stop and reports all the same never replaces the
\* path of a later one (_on_discovery_finished), because the window waits for
\* it before it starts that one.
THEOREM StoppedStaysBehind == Spec => StoppedNeverReplacesLater
<1>1. IInv /\ [Next]_vars => [shown' < shown => shown' \notin stopped]_vars
  BY NextStep
<1> QED
  BY <1>1, Inductive, PTL DEF Spec, StoppedNeverReplacesLater
====
