----------------------------- MODULE AcpConnection -----------------------------
(***************************************************************************)
(* The ACP connections that share one session.                             *)
(*                                                                         *)
(* What the kernel sends to a client goes to the queue of the client's     *)
(* sender, and leaves it only while a request of that connection is being  *)
(* handled (or after one of its notifications): the generator that handles *)
(* the request drains the queue until its handler is done, then emits the  *)
(* response and what is left.  A turn broadcasts its updates to every      *)
(* connection that loaded the session, and asks the first of them for      *)
(* permission to run a tool.  The queue of turns is that of SessionTurns:  *)
(* here a prompt runs when it comes, and one that would wait counts among  *)
(* the other requests.  A client that connects again is another client.    *)
(***************************************************************************)
EXTENDS Naturals, Sequences, FiniteSets, SequencesExt

CONSTANTS
  Clients,      \* connections
  NoClient,     \* stands for no connection
  MaxAsks,      \* bound on the permission requests of all turns
  MaxQueued     \* a queue of this length gets no more updates

ASSUME ConnectionAssumption ==
  /\ NoClient \notin Clients
  /\ MaxAsks \in Nat /\ MaxQueued \in Nat

Tools == 1..MaxAsks                    \* the calls that need permission
Kinds == {"prompt", "other"}           \* requests from a client
Items == [of: Clients, id: 0..MaxAsks, tool: 0..MaxAsks]
Shown == [id: 1..MaxAsks, tool: Tools]

VARIABLES
  conn,        \* each connection: open, closing, swept or gone
  calls,       \* its requests: none, running, or done and not answered
  outq,        \* sender._queue
  lastId,      \* sender._id_counter
  pending,     \* the ids in sender._outgoing_in_flight
  shown,       \* the permission requests the client has been shown
  senders,     \* session.senders, in the order they were bound
  turn,        \* idle, running or asking
  requester,   \* the connection whose prompt the turn answers
  stopping,    \* the turn's task has a CancelledError to deliver
  asked,       \* the connection and id of the request the turn awaits
  future,      \* what has become of that request
  tool,        \* the tool the turn asked for last
  allowed,     \* tools a user has allowed (history)
  granted      \* tools the turn was told it may run (history)

wire     == <<conn, calls, outq, lastId, pending, shown>>
session  == <<senders, turn, requester, stopping, asked, future, tool, granted>>
vars     == <<wire, session, allowed>>

NoAsk == [to |-> NoClient, id |-> 0]
Idle  == [k \in Kinds |-> "none"]

InFlight(c) == \E k \in Kinds : calls[c][k] # "none"
Queued(c, n) == \E i \in DOMAIN outq[c] : outq[c][i].tool = n

Init ==
  /\ conn = [c \in Clients |-> "open"]
  /\ calls = [c \in Clients |-> Idle]
  /\ outq = [c \in Clients |-> <<>>]
  /\ lastId = [c \in Clients |-> 0]
  /\ pending = [c \in Clients |-> {}]
  /\ shown = [c \in Clients |-> {}]
  /\ senders = <<>>
  /\ turn = "idle" /\ requester = NoClient /\ stopping = FALSE
  /\ asked = NoAsk /\ future = "none"
  /\ tool = 0
  /\ allowed = {} /\ granted = {}

-----------------------------------------------------------------------------
(* Helpers                                                                 *)

\* put: nobody reads the queue of a connection that has closed.
Put(c, item) == IF conn[c] = "open" THEN Append(outq[c], item) ELSE outq[c]

\* The client gets the items and is shown the permission requests in them.
Receives(c, items) ==
  shown' = [shown EXCEPT ![c] = @ \cup
              {[id |-> i.id, tool |-> i.tool] : i \in {j \in Range(items) : j.tool # 0}}]

\* Variant: an id is free as soon as nothing is pending under it.
CountedId(c) == Cardinality(pending[c]) + 1

NextId(c) == lastId[c] + 1

\* Variant: the outcome is taken for the decision.
Verbatim(answer) == answer

\* Every outcome but the two allowing options is a rejection, an error too.
Decision(answer) == IF answer = "allow" THEN "allow" ELSE "reject"

\* The finally of request: the awaited id leaves _outgoing_in_flight.
Popped ==
  [c \in Clients |-> IF c = asked.to THEN pending[c] \ {asked.id} ELSE pending[c]]

\* The turn's handler returns; a request that lost its client is not answered.
TurnOver ==
  /\ turn' = "idle" /\ requester' = NoClient /\ stopping' = FALSE
  /\ asked' = NoAsk /\ future' = "none"
  /\ calls' = [c \in Clients |->
                 IF c = requester /\ calls[c]["prompt"] = "running"
                 THEN [calls[c] EXCEPT !["prompt"] = "done"] ELSE calls[c]]

-----------------------------------------------------------------------------
(* Requests                                                                *)

Prompt(c) ==
  /\ conn[c] = "open" /\ calls[c]["prompt"] = "none"
  /\ turn = "idle"
  /\ calls' = [calls EXCEPT ![c]["prompt"] = "running"]
  /\ turn' = "running" /\ requester' = c
  /\ UNCHANGED <<conn, outq, lastId, pending, shown, senders, stopping, asked,
                 future, tool, allowed, granted>>

Call(c) ==
  /\ conn[c] = "open" /\ calls[c]["other"] = "none"
  /\ calls' = [calls EXCEPT ![c]["other"] = "running"]
  /\ UNCHANGED <<conn, outq, lastId, pending, shown, session, allowed>>

\* session/new or session/load binds the connection; a second load leaves it
\* where it is in the dict.
Binds(c) ==
  /\ calls[c]["other"] = "running"
  /\ c \notin Range(senders)
  /\ senders' = Append(senders, c)
  /\ UNCHANGED <<wire, turn, requester, stopping, asked, future, tool, granted,
                 allowed>>

CallEnds(c) ==
  /\ calls[c]["other"] = "running"
  /\ calls' = [calls EXCEPT ![c]["other"] = "done"]
  /\ UNCHANGED <<conn, outq, lastId, pending, shown, session, allowed>>

\* Variant: only the generator of a prompt drains the queue.
DeliverToPrompt(c) ==
  /\ calls[c]["prompt"] # "none"
  /\ outq[c] # <<>>
  /\ outq' = [outq EXCEPT ![c] = Tail(@)]
  /\ Receives(c, <<Head(outq[c])>>)
  /\ UNCHANGED <<conn, calls, lastId, pending, session, allowed>>

\* The generator of any request in flight takes the head of the queue.
Deliver(c) ==
  /\ InFlight(c)
  /\ outq[c] # <<>>
  /\ outq' = [outq EXCEPT ![c] = Tail(@)]
  /\ Receives(c, <<Head(outq[c])>>)
  /\ UNCHANGED <<conn, calls, lastId, pending, session, allowed>>

\* Variant: what was put since the last look at the queue stays there.
RespondOnly(c, k) ==
  /\ calls[c][k] = "done"
  /\ calls' = [calls EXCEPT ![c][k] = "none"]
  /\ UNCHANGED <<conn, outq, lastId, pending, shown, session, allowed>>

\* The response, then the final drain: no await lies between them.
Respond(c, k) ==
  /\ calls[c][k] = "done"
  /\ calls' = [calls EXCEPT ![c][k] = "none"]
  /\ outq' = [outq EXCEPT ![c] = <<>>]
  /\ Receives(c, outq[c])
  /\ UNCHANGED <<conn, lastId, pending, session, allowed>>

-----------------------------------------------------------------------------
(* The turn                                                                *)

Update ==
  /\ turn = "running"
  /\ \A c \in Clients : Len(outq[c]) < MaxQueued
  /\ outq' = [c \in Clients |->
                IF c \in Range(senders)
                THEN Put(c, [of |-> requester, id |-> 0, tool |-> 0])
                ELSE outq[c]]
  /\ UNCHANGED <<conn, calls, lastId, pending, shown, session, allowed>>

\* _on_permission, once its request event is written.
Ask ==
  /\ turn = "running" /\ ~stopping
  /\ senders # <<>> /\ tool < MaxAsks
  /\ LET c  == Head(senders)
         id == NextId(c)
     IN  /\ lastId' = [lastId EXCEPT ![c] = id]
         /\ pending' = [pending EXCEPT ![c] = @ \cup {id}]
         /\ outq' = [outq EXCEPT ![c] =
                       Put(c, [of |-> requester, id |-> id, tool |-> tool + 1])]
         /\ asked' = [to |-> c, id |-> id]
  /\ tool' = tool + 1
  /\ turn' = "asking" /\ future' = "pending"
  /\ UNCHANGED <<conn, calls, shown, senders, requester, stopping, allowed, granted>>

\* Nobody observes the session: the tool is rejected.
AskNobody ==
  /\ turn = "running" /\ ~stopping
  /\ senders = <<>> /\ tool < MaxAsks
  /\ tool' = tool + 1
  /\ UNCHANGED <<wire, senders, turn, requester, stopping, asked, future,
                 granted, allowed>>

\* The client answers a permission request it was shown, late or twice.
Answer(c, s, answer) ==
  /\ conn[c] = "open"
  /\ s \in shown[c]
  /\ allowed' = IF answer = "allow" THEN allowed \cup {s.tool} ELSE allowed
  /\ future' = IF s.id \in pending[c] /\ asked = [to |-> c, id |-> s.id]
                  /\ future = "pending"
               THEN Decision(answer) ELSE future
  /\ UNCHANGED <<wire, senders, turn, requester, stopping, asked, tool, granted>>

\* The callback returns, or the request lost its client: that CancelledError
\* ends the task of the tool, and the turn goes on without a result of it.
TurnResumes ==
  /\ turn = "asking" /\ ~stopping
  /\ future \in {"allow", "reject", "cancelled"}
  /\ granted' = IF future = "allow" THEN granted \cup {tool} ELSE granted
  /\ pending' = Popped
  /\ turn' = "running" /\ asked' = NoAsk /\ future' = "none"
  /\ UNCHANGED <<conn, calls, outq, lastId, shown, senders, requester, stopping,
                 tool, allowed>>

TurnEnds ==
  /\ turn = "running" /\ ~stopping
  /\ TurnOver
  /\ UNCHANGED <<conn, outq, lastId, pending, shown, senders, tool, allowed, granted>>

\* The CancelledError of the turn's task ends the turn and the tools it runs.
TurnStops ==
  /\ turn # "idle"
  /\ stopping
  /\ pending' = Popped
  /\ TurnOver
  /\ UNCHANGED <<conn, outq, lastId, shown, senders, tool, allowed, granted>>

-----------------------------------------------------------------------------
(* Cancellation and disconnection                                          *)

\* session/cancel: the notification drains the queue of its sender.
CancelSession(c) ==
  /\ conn[c] = "open"
  /\ stopping' = (turn # "idle")
  /\ outq' = [outq EXCEPT ![c] = <<>>]
  /\ Receives(c, outq[c])
  /\ UNCHANGED <<conn, calls, lastId, pending, senders, turn, requester, asked,
                 future, tool, allowed, granted>>

\* $/cancel_request for the prompt; of other requests it only ends the wait.
CancelRequest(c) ==
  /\ calls[c]["prompt"] = "running"
  /\ stopping' = TRUE
  /\ UNCHANGED <<wire, senders, turn, requester, asked, future, tool, granted,
                 allowed>>

\* The transport loop ends and cancels the connection's dispatch tasks, and
\* their generators cancel the handlers.
Disconnect(c) ==
  /\ conn[c] = "open"
  /\ conn' = [conn EXCEPT ![c] = "closing"]
  /\ stopping' = (stopping \/ calls[c]["prompt"] = "running")
  /\ calls' = [calls EXCEPT ![c] = Idle]
  /\ outq' = [outq EXCEPT ![c] = <<>>]
  /\ shown' = [shown EXCEPT ![c] = {}]
  /\ UNCHANGED <<lastId, pending, senders, turn, requester, asked, future, tool,
                 allowed, granted>>

\* on_disconnect of the dispatcher: cancel_all_pending.
Sweep(c) ==
  /\ conn[c] = "closing"
  /\ conn' = [conn EXCEPT ![c] = "swept"]
  /\ pending' = [pending EXCEPT ![c] = {}]
  /\ future' = IF asked.to = c /\ future = "pending" THEN "cancelled" ELSE future
  /\ UNCHANGED <<calls, outq, lastId, shown, senders, turn, requester, stopping,
                 asked, tool, allowed, granted>>

\* on_disconnect of the session manager comes to this session after those
\* before it in the map, whose eviction it awaits.
Unbind(c) ==
  /\ conn[c] = "swept"
  /\ conn' = [conn EXCEPT ![c] = "gone"]
  /\ senders' = IF c \notin Range(senders) THEN senders
                ELSE RemoveAt(senders, CHOOSE i \in DOMAIN senders : senders[i] = c)
  /\ UNCHANGED <<calls, outq, lastId, pending, shown, turn, requester, stopping,
                 asked, future, tool, allowed, granted>>

-----------------------------------------------------------------------------
Answers == {"allow", "reject", "dismissed"}

Next ==
  \/ \E c \in Clients :
       \/ Prompt(c) \/ Call(c) \/ Binds(c) \/ CallEnds(c)
       \/ Deliver(c) \/ \E k \in Kinds : Respond(c, k)
       \/ \E s \in shown[c], a \in Answers : Answer(c, s, a)
       \/ CancelSession(c) \/ CancelRequest(c)
       \/ Disconnect(c) \/ Sweep(c) \/ Unbind(c)
  \/ Update \/ Ask \/ AskNobody \/ TurnResumes \/ TurnEnds \/ TurnStops

Spec == Init /\ [][Next]_vars

\* The event loop resumes a generator whose queue has an item or whose handler
\* is done, a turn whose request is resolved or whose task is cancelled, and
\* on_disconnect.  Clients, handlers and running turns take as long as they like.
FairSpec ==
  /\ Spec
  /\ \A c \in Clients :
       /\ WF_vars(Deliver(c)) /\ \A k \in Kinds : WF_vars(Respond(c, k))
       /\ WF_vars(Sweep(c)) /\ WF_vars(Unbind(c))
  /\ WF_vars(TurnResumes) /\ WF_vars(TurnStops)

-----------------------------------------------------------------------------
(* Properties                                                              *)

\* The domains of the variables.
TypeOK ==
  /\ conn \in [Clients -> {"open", "closing", "swept", "gone"}]
  /\ calls \in [Clients -> [Kinds -> {"none", "running", "done"}]]
  /\ outq \in [Clients -> Seq(Items)]
  /\ lastId \in [Clients -> 0..MaxAsks]
  /\ pending \in [Clients -> SUBSET (1..MaxAsks)]
  /\ shown \in [Clients -> SUBSET Shown]
  /\ senders \in Seq(Clients)
  /\ turn \in {"idle", "running", "asking"}
  /\ requester \in Clients \cup {NoClient}
  /\ stopping \in BOOLEAN
  /\ asked \in [to: Clients \cup {NoClient}, id: 0..MaxAsks]
  /\ future \in {"none", "pending", "allow", "reject", "cancelled"}
  /\ tool \in 0..MaxAsks
  /\ allowed \subseteq Tools
  /\ granted \subseteq Tools

\* The permission callback lets a tool run only if a user who was shown this
\* very tool allowed it: a late answer to a request that was cancelled never
\* decides about another one.
GrantedWasAllowed == granted \subseteq allowed

\* What a turn sent to the client that asked for it has left the queue when
\* its session/prompt is answered: the final drain catches what was put since
\* the last look, although other requests drain the same queue.
OwnTurnDelivered ==
  \A c \in Clients :
    conn[c] = "open" /\ calls[c]["prompt"] = "none" =>
      \A i \in DOMAIN outq[c] : outq[c][i].of # c

\* A permission request put on a connection that has any request in flight
\* reaches its client, though that request may end at that very moment.
AskDelivered ==
  \A c \in Clients, n \in Tools :
    Queued(c, n) /\ InFlight(c) ~> ~Queued(c, n)

=============================================================================
