----------------------------- MODULE SnmpExchange -----------------------------
(***************************************************************************)
(* One SNMP client and one agent across a network that loses, delays,      *)
(* repeats and reorders datagrams: requests are sent again when no answer  *)
(* comes in time, answers are matched by the request's number, and a table *)
(* is read row by row with GETNEXT.                                        *)
(*                                                                         *)
(* The agent answers a request it received at any later time or never; an  *)
(* answer once sent may arrive at any later time, any number of times.  So *)
(* no message is ever taken off the network.  Datagrams that do not parse  *)
(* and those of other requests are read and ignored.                       *)
(***************************************************************************)
EXTENDS Naturals, Sequences, FiniteSets

CONSTANTS
  MaxSize,    \* the tables considered have up to so many rows
  MaxRows,    \* walk's max_rows
  Retries,    \* SnmpClient.retries
  MaxGets,    \* bound: GET operations
  None

ASSUME SizeAssumption == MaxSize \in Nat \ {0}
ASSUME RowsAssumption == MaxRows \in Nat \ {0}
ASSUME RetriesAssumption == Retries \in Nat
ASSUME GetsAssumption == MaxGets \in Nat

\* Rows of the table are numbered in the order of their OIDs; 0 is the table's
\* own OID, and the number after the last row is the OID that follows the table.
Oid == 0 .. MaxSize + 1
Row == 1 .. MaxSize

\* The agent's answer to a GET, and to a GETNEXT.
GetAnswer == [what : {"value", "missing", "noSuchName", "auth", "error"}, oid : {0}]
NextAnswer == [what : {"row"}, oid : Oid] \cup [what : {"end", "error"}, oid : {0}]

\* None is neither an answer nor what a get makes of one.
Answer == GetAnswer \cup NextAnswer
ASSUME NoneAssumption == None \notin Answer \cup {"value", "none", "auth"}

\* The request a client is waiting on, or was: its kind and the OID it names.
Request == [kind : {"get", "next"}, oid : Oid]

VARIABLES
  size,       \* rows of the agent's table
  honest,     \* the agent answers GETNEXT as the protocol says
  asked,      \* all requests made; their ids, drawn at random from 2^31, are
              \* taken to be distinct, and stand for the positions here
  told,       \* the agent's answer to each of them, or None
  waiting,    \* in _send_recv for the last request
  attempt,    \* transmissions of it, less one
  outcome,    \* what the last get returned or raised
  walking,    \* a walk is under way
  rows,       \* results of the walk
  ended       \* the walk has returned

agent == <<size, honest>>
table == <<walking, rows, ended>>
vars == <<agent, asked, told, waiting, attempt, outcome, table>>

Current == Len(asked)
Gets == {i \in DOMAIN asked : asked[i].kind = "get"}
InTable(o) == o \in 1 .. size

Init ==
  /\ size \in Row /\ honest \in BOOLEAN
  /\ asked = <<>> /\ told = <<>>
  /\ waiting = FALSE /\ attempt = 0
  /\ outcome = None
  /\ walking = FALSE /\ rows = <<>> /\ ended = FALSE

Send(kind, o) ==
  /\ asked' = Append(asked, [kind |-> kind, oid |-> o])
  /\ told' = Append(told, None)
  /\ waiting' = TRUE
  /\ attempt' = 0

Get ==
  /\ ~waiting /\ ~walking
  /\ Cardinality(Gets) < MaxGets
  /\ Send("get", 0)
  /\ UNCHANGED <<agent, outcome, table>>

\* walk begins, once.
BeginWalk ==
  /\ ~waiting /\ ~walking /\ ~ended
  /\ walking' = TRUE
  /\ UNCHANGED <<agent, asked, told, waiting, attempt, outcome, rows, ended>>

Cursor == IF rows = <<>> THEN 0 ELSE rows[Len(rows)]

\* Variant: a row is skipped.
AskAfterNext ==
  /\ walking /\ ~waiting
  /\ Len(rows) < MaxRows
  /\ Send("next", IF rows = <<>> THEN 0 ELSE Cursor + 1)
  /\ UNCHANGED <<agent, outcome, table>>

\* Variant: the row last read is not kept for the next request.
AskFirst ==
  /\ walking /\ ~waiting
  /\ Len(rows) < MaxRows
  /\ Send("next", 0)
  /\ UNCHANGED <<agent, outcome, table>>

AskNext ==
  /\ walking /\ ~waiting
  /\ Len(rows) < MaxRows
  /\ Send("next", Cursor)
  /\ UNCHANGED <<agent, outcome, table>>

WalkEnds == walking' = FALSE /\ ended' = TRUE /\ UNCHANGED rows

RowLimit ==
  /\ walking /\ ~waiting
  /\ Len(rows) = MaxRows
  /\ WalkEnds
  /\ UNCHANGED <<agent, asked, told, waiting, attempt, outcome>>

-----------------------------------------------------------------------------
(* _send_recv.                                                             *)

\* What an agent may answer to a request.
Answers(q) ==
  IF q.kind = "get" THEN GetAnswer
  ELSE IF honest
       THEN {a \in NextAnswer : a.what = "row" => a.oid = q.oid + 1 /\ q.oid <= size}
       ELSE {a \in NextAnswer : a.what = "row" => a.oid <= size + 1}

\* A request has reached the agent; of the copies it gets, it answers one.
AgentAnswers(i) ==
  /\ told[i] = None
  /\ told' \in {[told EXCEPT ![i] = a] : a \in Answers(asked[i])}
  /\ UNCHANGED <<agent, asked, waiting, attempt, outcome, table>>

\* Variant: the transmissions are not counted.
ResendUncounted ==
  /\ waiting
  /\ attempt < Retries
  /\ UNCHANGED vars

\* No answer for the length of the timeout, or the socket refuses: the request
\* goes out again under the same id.
Resend ==
  /\ waiting
  /\ attempt < Retries
  /\ attempt' = attempt + 1
  /\ UNCHANGED <<agent, asked, told, waiting, outcome, table>>

\* ... or it is given up: get raises, get_next returns None.
GiveUp ==
  /\ waiting
  /\ attempt = Retries
  /\ waiting' = FALSE
  /\ IF walking THEN WalkEnds /\ UNCHANGED outcome
     ELSE outcome' \in {"timeout", "error"} /\ UNCHANGED table
  /\ UNCHANGED <<agent, asked, told, attempt>>

\* Variant: the identifier is not looked at.
MatchesAny(i) == i \in DOMAIN asked

\* A datagram that arrives counts if it carries the id of the request.
Matches(i) == i = Current

Arrives(i, what) ==
  /\ waiting
  /\ told[i] # None /\ told[i].what \in what
  /\ Matches(i)
  /\ waiting' = FALSE

\* get: an object that is missing is None, an error is raised.
GetAnswered(i) ==
  /\ ~walking
  /\ Arrives(i, {"value", "missing", "noSuchName", "auth", "error"})
  /\ outcome' = IF told[i].what \in {"missing", "noSuchName"} THEN "none"
                ELSE told[i].what
  /\ UNCHANGED <<agent, asked, told, attempt, table>>

\* Variants: the order, or the table, is not looked at.
AcceptedInTable(o) == InTable(o)
AcceptedAfter(o) == o > Cursor

\* walk: a row counts if it comes after the last one and is of the table.
Accepted(o) == o > Cursor /\ InTable(o)

RowReceived(i) ==
  /\ walking
  /\ Arrives(i, {"row"})
  /\ Accepted(told[i].oid)
  /\ rows' = Append(rows, told[i].oid)
  /\ UNCHANGED <<agent, asked, told, attempt, outcome, walking, ended>>

\* A row that does not count ends the walk, and so do an error and the end of
\* the agent's data.
LastReceived(i) ==
  /\ walking
  /\ Arrives(i, {"row", "end", "error"})
  /\ told[i].what = "row" => ~Accepted(told[i].oid)
  /\ WalkEnds
  /\ UNCHANGED <<agent, asked, told, attempt, outcome>>

Receive ==
  \E i \in DOMAIN asked : GetAnswered(i) \/ RowReceived(i) \/ LastReceived(i)

Next ==
  \/ Get \/ BeginWalk \/ AskNext \/ RowLimit
  \/ Resend \/ GiveUp \/ Receive
  \/ \E i \in DOMAIN asked : AgentAnswers(i)

Spec == Init /\ [][Next]_vars

\* The client's thread runs, and now and then nothing arrives for the length of
\* a timeout: every datagram that is ignored starts the timeout anew.
FairSpec ==
  Spec /\ WF_vars(Receive \/ Resend \/ GiveUp) /\ WF_vars(AskNext \/ RowLimit)

-----------------------------------------------------------------------------
(* Properties.                                                             *)

TypeOK ==
  /\ size \in Row /\ honest \in BOOLEAN
  /\ asked \in Seq(Request)
  /\ told \in Seq(Answer \cup {None}) /\ Len(told) = Len(asked)
  /\ waiting \in BOOLEAN /\ walking \in BOOLEAN /\ ended \in BOOLEAN
  /\ attempt \in 0 .. Retries
  /\ outcome \in {None, "value", "none", "auth", "error", "timeout"}
  /\ rows \in Seq(Row) /\ Len(rows) <= MaxRows

\* Every row of the result is what the agent answered to the request for the
\* row after the one before it, however often requests were repeated and
\* however late answers to others came in.
Before(k) == IF k = 1 THEN 0 ELSE rows[k - 1]

RowsWereAskedFor ==
  \A k \in DOMAIN rows : \E i \in DOMAIN asked :
    /\ asked[i] = [kind |-> "next", oid |-> Before(k)]
    /\ told[i] = [what |-> "row", oid |-> rows[k]]

\* An agent that answers as the protocol says is read without a gap: a result
\* may stop early (the caller cannot tell), but what it has is the table's
\* beginning.
RowsBeginTable == honest => \A k \in DOMAIN rows : rows[k] = k

\* What a get reports of the agent, a refusal of the community above all, is
\* the agent's answer to that very get.
Reported(what) == IF what \in {"missing", "noSuchName"} THEN "none" ELSE what

OutcomeIsOfItsRequest ==
  outcome \in {"value", "none", "auth"} /\ ~(waiting /\ ~walking) =>
    \E i \in Gets :
      /\ \A j \in Gets : j <= i
      /\ told[i] # None /\ Reported(told[i].what) = outcome

\* Reading a table keeps the promise of TableRead, with any agent.
Promise == INSTANCE TableRead WITH Row <- Row, Limit <- MaxRows
ReadPromise == Promise!Spec

\* A walk returns, whatever the agent answers or if it never does.
WalkReturns == walking ~> ended
====
