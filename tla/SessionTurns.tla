----------------------------- MODULE SessionTurns -----------------------------
(***************************************************************************)
(* The prompt queue of one resident session of the kernel.                 *)
(*                                                                         *)
(* A turn is submitted by an ACP client (session/prompt) or by a gateway   *)
(* or the cron executor (run_turn_for_gateway).  An ACP turn that finds    *)
(* the session idle runs inside the task of its own request; every other   *)
(* turn waits in a FIFO and runs in a task of its own.  _run_turn_core is  *)
(* cut at its awaits:                                                      *)
(*                                                                         *)
(*   opening     scheduled, or awaiting the write of its UserMessageEvent; *)
(*               in_flight_turn does not show it yet                       *)
(*   starting    in_flight_turn is set; awaiting TurnStartedEvent and the  *)
(*               pending mode changes, before the try                      *)
(*   running     inside the try, iterating the orchestrator's stream       *)
(*   cancelling  in the except clause, awaiting TurnCancelledEvent         *)
(*   closing     in the finally clause, awaiting its event writes          *)
(*                                                                         *)
(* The kernel is one asyncio loop, so what happens between two awaits is   *)
(* one step.  What the environment may do to a turn is listed in           *)
(* Disturbances.                                                           *)
(***************************************************************************)
EXTENDS Naturals, Sequences, FiniteSets, Functions

CONSTANTS
  Prompts,          \* turns submitted by ACP clients
  GatewayTurns,     \* turns submitted by gateways and the cron executor
  NoTurn,           \* session.in_flight_turn is None
  MaxQueueLength,   \* SessionFlags.max_queue_length
  Disturbances,     \* what the environment may do, see Kinds
  MaxDisturbances   \* bound on how often it does it, arrivals not counted

Turns == Prompts \cup GatewayTurns

(***************************************************************************)
(* "cancel": session/cancel notifications.  "abort": the task that awaits  *)
(* the answer is cancelled ($/cancel_request, a closed connection, the     *)
(* cron executor's wait_for).  "dbfail": the write of an event raises.     *)
(* "raise": the orchestrator raises.  "overlap": a turn may arrive while   *)
(* another is opening.  "bracket": a turn may be cancelled outside the try *)
(* (starting, cancelling, closing).                                        *)
(***************************************************************************)
Kinds == {"cancel", "abort", "dbfail", "raise", "overlap", "bracket"}

ASSUME TurnsAssumption ==
  /\ Prompts \cap GatewayTurns = {}
  /\ NoTurn \notin Turns
  /\ MaxQueueLength \in Nat \ {0}
  /\ Disturbances \subseteq Kinds
  /\ MaxDisturbances \in Nat

VARIABLES
  phase,        \* where each turn is
  queue,        \* session.queue
  inFlight,     \* session.in_flight_turn
  direct,       \* the turns that run in the task of their own request
  cancelled,    \* the turns whose task has a CancelledError to deliver
  stop,         \* stop_reason of a turn's frame, once it is in the finally
  response,     \* answer of the request, or the turn's response_future
  collector,    \* a gateway turn's text_collector
  disturbed     \* number of disturbances so far

vars == <<phase, queue, inFlight, direct, cancelled, stop, response,
          collector, disturbed>>

Body   == {"starting", "running", "cancelling", "closing"}
Live   == Body \cup {"opening"}
Phases == Live \cup {"idle", "queued", "ended"}

StopReasons == {"end_turn", "cancelled", "error", "escaped"}
Answers     == {"pending", "end_turn", "cancelled", "error", "aborted"}

InBody  == {t \in Turns : phase[t] \in Body}
Opening == {t \in Turns : phase[t] = "opening"}
Waiting == Range(queue)

Init ==
  /\ phase = [t \in Turns |-> "idle"]
  /\ queue = <<>>
  /\ inFlight = NoTurn
  /\ direct = {}
  /\ cancelled = {}
  /\ stop = [t \in Turns |-> "end_turn"]
  /\ response = [t \in Turns |-> "pending"]
  /\ collector = [t \in GatewayTurns |-> "pending"]
  /\ disturbed = 0

-----------------------------------------------------------------------------
(* Helpers                                                                 *)

Disturb(kind) ==
  /\ kind \in Disturbances
  /\ disturbed < MaxDisturbances
  /\ disturbed' = disturbed + 1

\* Variant: a later result overwrites the answer.
AnsweredAgain(S, a) == [t \in Turns |-> IF t \in S THEN a ELSE response[t]]

\* A future or a request is answered once; later results are dropped.
Answered(S, a) ==
  [t \in Turns |-> IF t \in S /\ response[t] = "pending"
                   THEN a ELSE response[t]]

\* What a CancelledError that leaves _run_turn_core turns into: an error
\* frame for a request task, a cancelled result in _run_queued_turn.
EscapedAnswer(t) == IF t \in direct THEN "aborted" ELSE "cancelled"

\* The except clauses around _run_turn_core, for the stop reason s.
Outcome(t, s) == IF s = "escaped" THEN EscapedAnswer(t) ELSE s

\* _maybe_dispatch_next on a FIFO q: its head becomes a scheduled task.
Rest(q) == IF q = <<>> THEN q ELSE Tail(q)
DispatchHead(ph, q) == IF q = <<>> THEN ph
                                   ELSE [ph EXCEPT ![Head(q)] = "opening"]

\* A turn's task dies outside the finally clause, or inside it before its
\* last statements: in_flight_turn and the FIFO stay as they are.
Die(t, s) ==
  /\ phase' = [phase EXCEPT ![t] = "ended"]
  /\ response' = Answered({t}, Outcome(t, s))
  /\ cancelled' = cancelled \ {t}
  /\ UNCHANGED <<queue, inFlight, direct, stop, collector>>

Enter(t, ph) ==
  /\ phase' = [phase EXCEPT ![t] = ph]
  /\ UNCHANGED <<queue, direct, response, collector>>

\* task.cancel() on a live task; a finished task ignores it.
CancelTask(t) ==
  /\ phase[t] \in {"starting", "cancelling", "closing"} =>
       "bracket" \in Disturbances
  /\ cancelled' = IF phase[t] \in Live THEN cancelled \cup {t} ELSE cancelled

-----------------------------------------------------------------------------
(* Variants of the operations below, each with a slip the properties are   *)
(* there to find.  No specification uses them.                             *)

\* in_flight_turn is not looked at before a prompt runs inline.
InlineIfQueueEmpty(t) ==
  /\ phase[t] = "idle" /\ queue = <<>>
  /\ "overlap" \in Disturbances \/ Opening = {}
  /\ phase' = [phase EXCEPT ![t] = "opening"]
  /\ direct' = direct \cup {t}
  /\ UNCHANGED <<queue, inFlight, cancelled, stop, response, collector,
                 disturbed>>

\* appendleft instead of append.
EnqueueInFront(t) ==
  LET ph == [phase EXCEPT ![t] = "queued"]
  IN  /\ IF inFlight = NoTurn
         THEN queue' = queue /\ phase' = [ph EXCEPT ![t] = "opening"]
         ELSE queue' = <<t>> \o queue /\ phase' = ph
      /\ UNCHANGED <<inFlight, direct, cancelled, stop, response, collector,
                     disturbed>>

\* The end of a turn: answer it, and leave to the caller what the finally
\* clause does with the collector, in_flight_turn and the FIFO.
CloseOnly(t) ==
  /\ phase[t] = "closing" /\ t \notin cancelled
  /\ response' = Answered({t}, Outcome(t, stop[t]))
  /\ UNCHANGED <<direct, cancelled, stop, disturbed>>

\* The FIFO is cleared, its callers are not answered.
CancelSilently ==
  /\ Disturb("cancel")
  /\ IF inFlight = NoTurn THEN UNCHANGED cancelled ELSE CancelTask(inFlight)
  /\ queue' = <<>>
  /\ phase' = [t \in Turns |-> IF t \in Waiting THEN "ended" ELSE phase[t]]
  /\ UNCHANGED <<inFlight, direct, stop, response, collector>>

\* The FIFO's callers are answered, the FIFO is not cleared.
CancelKeepsQueue ==
  /\ Disturb("cancel")
  /\ IF inFlight = NoTurn THEN UNCHANGED cancelled ELSE CancelTask(inFlight)
  /\ response' = Answered(Waiting, "cancelled")
  /\ phase' = [t \in Turns |-> IF t \in Waiting THEN "ended" ELSE phase[t]]
  /\ UNCHANGED <<queue, inFlight, direct, stop, collector>>

-----------------------------------------------------------------------------
(* Arrivals                                                                *)

MayArrive(t) ==
  /\ phase[t] = "idle"
  /\ "overlap" \in Disturbances \/ Opening = {}

PromptRunsInline(t) ==
  /\ MayArrive(t)
  /\ inFlight = NoTurn /\ queue = <<>>
  /\ phase' = [phase EXCEPT ![t] = "opening"]
  /\ direct' = direct \cup {t}
  /\ UNCHANGED <<queue, inFlight, cancelled, stop, response, collector,
                 disturbed>>

PromptRefused(t) ==
  /\ MayArrive(t)
  /\ inFlight # NoTurn \/ queue # <<>>
  /\ Len(queue) >= MaxQueueLength
  /\ phase' = [phase EXCEPT ![t] = "ended"]
  /\ response' = Answered({t}, "error")
  /\ UNCHANGED <<queue, inFlight, direct, cancelled, stop, collector,
                 disturbed>>

EnqueueTurn(t) ==
  LET q == Append(queue, t)
      ph == [phase EXCEPT ![t] = "queued"]
  IN  /\ IF inFlight = NoTurn
         THEN queue' = Rest(q) /\ phase' = DispatchHead(ph, q)
         ELSE queue' = q /\ phase' = ph
      /\ UNCHANGED <<inFlight, direct, cancelled, stop, response, collector,
                     disturbed>>

PromptQueued(t) ==
  /\ MayArrive(t)
  /\ inFlight # NoTurn \/ queue # <<>>
  /\ Len(queue) < MaxQueueLength
  /\ EnqueueTurn(t)

GatewayTurnQueued(t) ==
  /\ MayArrive(t)
  /\ EnqueueTurn(t)

-----------------------------------------------------------------------------
(* One turn, from its task's first step to its last                        *)

\* The UserMessageEvent is written; only now in_flight_turn is set.
Open(t) ==
  /\ phase[t] = "opening" /\ t \notin cancelled
  /\ inFlight' = t
  /\ Enter(t, "starting")
  /\ UNCHANGED <<cancelled, stop, disturbed>>

Start(t) ==
  /\ phase[t] = "starting" /\ t \notin cancelled
  /\ Enter(t, "running")
  /\ UNCHANGED <<inFlight, cancelled, stop, disturbed>>

\* The orchestrator's generator is exhausted.
StreamEnds(t) ==
  /\ phase[t] = "running" /\ t \notin cancelled
  /\ stop' = [stop EXCEPT ![t] = "end_turn"]
  /\ Enter(t, "closing")
  /\ UNCHANGED <<inFlight, cancelled, disturbed>>

StreamRaises(t) ==
  /\ phase[t] = "running" /\ t \notin cancelled
  /\ Disturb("raise")
  /\ stop' = [stop EXCEPT ![t] = "error"]
  /\ Enter(t, "closing")
  /\ UNCHANGED <<inFlight, cancelled>>

\* The CancelledError is raised inside the try.  Either the orchestrator
\* swallows it and yields a CancelledEvent before it returns, or it hits an
\* await of the runner itself and its except clause takes it.
StreamCancelled(t) ==
  /\ phase[t] = "running" /\ t \in cancelled
  /\ cancelled' = cancelled \ {t}
  /\ stop' = [stop EXCEPT ![t] = "cancelled"]
  /\ \E ph \in {"closing", "cancelling"} : Enter(t, ph)
  /\ UNCHANGED <<inFlight, disturbed>>

CancelRecorded(t) ==
  /\ phase[t] = "cancelling" /\ t \notin cancelled
  /\ Enter(t, "closing")
  /\ UNCHANGED <<inFlight, cancelled, stop, disturbed>>

\* The finally clause completes: the collector is resolved, in_flight_turn
\* cleared, the next turn scheduled, and the caller answered.
Close(t) ==
  /\ phase[t] = "closing" /\ t \notin cancelled
  /\ collector' = [g \in GatewayTurns |->
                     IF g = t /\ collector[g] = "pending"
                     THEN "text" ELSE collector[g]]
  /\ inFlight' = NoTurn
  /\ queue' = Rest(queue)
  /\ phase' = DispatchHead([phase EXCEPT ![t] = "ended"], queue)
  /\ response' = Answered({t}, Outcome(t, stop[t]))
  /\ UNCHANGED <<direct, cancelled, stop, disturbed>>

\* A CancelledError is delivered where no clause of the runner handles it.
CancelEscapes(t) ==
  /\ phase[t] \in {"opening", "starting", "closing"} /\ t \in cancelled
  /\ Die(t, "escaped")
  /\ UNCHANGED disturbed

\* An event write raises where no clause of the runner handles it.
WriteFails(t) ==
  /\ phase[t] \in {"opening", "starting", "closing"} /\ t \notin cancelled
  /\ Disturb("dbfail")
  /\ Die(t, "error")

\* Inside the try or the except clause, the finally clause still runs.
HandlerInterrupted(t) ==
  \/ /\ phase[t] = "cancelling" /\ t \in cancelled
     /\ cancelled' = cancelled \ {t}
     /\ stop' = [stop EXCEPT ![t] = "escaped"]
     /\ Enter(t, "closing")
     /\ UNCHANGED <<inFlight, disturbed>>
  \/ /\ phase[t] \in {"running", "cancelling"} /\ t \notin cancelled
     /\ Disturb("dbfail")
     /\ stop' = [stop EXCEPT ![t] = "error"]
     /\ Enter(t, "closing")
     /\ UNCHANGED <<inFlight, cancelled>>

TurnStep(t) ==
  \/ Open(t) \/ Start(t) \/ StreamEnds(t) \/ StreamCancelled(t)
  \/ CancelRecorded(t) \/ Close(t) \/ CancelEscapes(t)
  \/ StreamRaises(t) \/ WriteFails(t) \/ HandlerInterrupted(t)

-----------------------------------------------------------------------------
(* Cancellation                                                            *)

\* session/cancel: stop the in-flight turn, answer and drop the FIFO.
Cancel ==
  /\ Disturb("cancel")
  /\ IF inFlight = NoTurn THEN UNCHANGED cancelled ELSE CancelTask(inFlight)
  /\ queue' = <<>>
  /\ response' = Answered(Waiting, "cancelled")
  /\ phase' = [t \in Turns |-> IF t \in Waiting THEN "ended" ELSE phase[t]]
  /\ UNCHANGED <<inFlight, direct, stop, collector>>

\* The task awaiting the answer is cancelled.  It is the turn's own task for
\* an inline turn; otherwise only the awaited future dies and the turn stays.
Abort(t) ==
  /\ phase[t] # "idle"
  /\ Disturb("abort")
  /\ \/ /\ t \in direct /\ response[t] = "pending"
        /\ CancelTask(t)
        /\ UNCHANGED <<response, collector>>
     \/ /\ t \notin direct /\ response[t] = "pending"
        /\ response' = Answered({t}, "aborted")
        /\ UNCHANGED <<cancelled, collector>>
     \/ /\ t \in GatewayTurns /\ response[t] \in {"end_turn", "cancelled"}
        /\ collector[t] = "pending"
        /\ collector' = [collector EXCEPT ![t] = "aborted"]
        /\ UNCHANGED <<cancelled, response>>
  /\ UNCHANGED <<phase, queue, inFlight, direct, stop>>

-----------------------------------------------------------------------------
Next ==
  \/ \E t \in Prompts :
       PromptRunsInline(t) \/ PromptRefused(t) \/ PromptQueued(t)
  \/ \E t \in GatewayTurns : GatewayTurnQueued(t)
  \/ \E t \in Turns : TurnStep(t) \/ Abort(t)
  \/ Cancel

Spec == Init /\ [][Next]_vars

\* The event loop resumes a task whose await is ready, the database answers,
\* and the orchestrator's stream ends: every step of a turn is weakly fair.
\* Arrivals, cancellations and aborts come from outside and are not.
FairSpec == Spec /\ \A t \in Turns : WF_vars(TurnStep(t))
-----------------------------------------------------------------------------
(* Properties                                                              *)

\* The domains of the variables.
TypeOK ==
  /\ phase \in [Turns -> Phases]
  /\ queue \in Seq(Turns)
  /\ inFlight \in Turns \cup {NoTurn}
  /\ direct \subseteq Prompts
  /\ cancelled \subseteq Turns
  /\ stop \in [Turns -> StopReasons]
  /\ response \in [Turns -> Answers]
  /\ collector \in [GatewayTurns -> {"pending", "text", "aborted"}]
  /\ disturbed \in 0..MaxDisturbances

\* A turn that was accepted and has no answer is in the FIFO or has a live
\* task: no cancellation, abort or failed write of prompt, cancel and
\* _run_turn_core may leave a caller waiting for a turn nobody holds.
NoTurnLost ==
  \A t \in Turns :
    phase[t] # "idle" /\ response[t] = "pending" =>
      t \in Waiting \/ phase[t] \in Live

\* session/cancel, a dead requester and _run_queued_turn race to resolve the
\* same future: the answer the caller got never changes (the done() tests).
AnsweredOnce ==
  [][\A t \in Turns : response[t] # "pending" => response'[t] = response[t]]_vars

\* A turn that session/cancel dropped from the FIFO, or that was refused or
\* has ended, is never run by a later _maybe_dispatch_next.
DroppedTurnNeverRuns ==
  [][\A t \in Turns : phase[t] = "ended" => phase'[t] = "ended"]_vars

\* session.md: "at most one turn of a session runs at any time"; the turns
\* past their opening write share in_flight_turn and the orchestrator.
Serialised == \A t, u \in InBody : t = u

\* Every session/prompt is answered, whatever is cancelled or aborted while
\* it waits or runs.
PromptAnswered ==
  \A t \in Prompts : phase[t] # "idle" ~> response[t] # "pending"

\* The queue keeps the promise of TurnFifo: a scheduled turn is still first
\* in line until in_flight_turn shows it.
FifoWaiting ==
  IF Opening = {} THEN queue
                  ELSE <<CHOOSE t \in Opening : TRUE>> \o queue

Fifo == INSTANCE TurnFifo WITH
  waiting  <- FifoWaiting,
  running  <- InBody,
  answered <- {t \in Turns : response[t] # "pending"}

ImplementsFifo == Fifo!Spec
=============================================================================
