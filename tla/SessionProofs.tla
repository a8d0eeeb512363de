-------------------------- MODULE SessionProofs --------------------------
(***************************************************************************)
(* Theorems about the turns of a session (SessionTurns) and about the      *)
(* objects that stand for it (SessionResidency), for any number of turns,  *)
(* objects and callers and any limits.                                     *)
(*                                                                         *)
(* Turns: QueueInv ties the FIFO to the phase of each turn: exactly the    *)
(* queued turns are in it, once.  EndedAnswered says that a turn whose     *)
(* task is gone has its answer.  Both hold whatever the environment does,  *)
(* and give NoTurnLost.  Where no turn may arrive while another is         *)
(* opening, OneLive adds that a single task of the session is live and     *)
(* in_flight_turn names it, and gives Serialised.  Where moreover no turn  *)
(* is cancelled outside the runner's try and every event is written,       *)
(* Smooth adds that in_flight_turn is let go of, and every step is one of  *)
(* TurnFifo or leaves its variables alone.                                 *)
(*                                                                         *)
(* Objects: Stays says that what is in the map has a reason to be there,   *)
(* whatever the races; Calm that before the first race loads and evictions *)
(* go one after the other, so that turns run on the object in the map.     *)
(***************************************************************************)
EXTENDS SessionTurns, SessionResidency, Integers, SequenceTheorems,
        FiniteSetTheorems, TLAPS

-----------------------------------------------------------------------------
(* A FIFO without repetitions                                              *)

\* A FIFO holds elements of its type, and none exactly when it is empty.
LEMMA FifoElements ==
  ASSUME NEW S, NEW q \in Seq(S)
  PROVE  /\ Range(q) \subseteq S
         /\ (q = <<>>) <=> (Range(q) = {})
<1>1. DOMAIN q = 1..Len(q) /\ Len(q) \in Nat
  BY LenProperties
<1>2. \A i \in 1..Len(q) : q[i] \in S
  BY ElementOfSeq
<1>3. q = <<>> <=> Len(q) = 0
  BY <1>1, EmptySeq
<1>4. Range(q) = {q[i] : i \in 1..Len(q)}
  BY <1>1 DEF Range
<1>5. Range(q) \subseteq S
  BY <1>4, <1>2
<1>6. ASSUME q # <<>> PROVE Range(q) # {}
  <2>1. 1 \in 1..Len(q)
    BY <1>1, <1>3, <1>6
  <2> QED BY <2>1, <1>4
<1>7. ASSUME q = <<>> PROVE Range(q) = {}
  <2>1. 1..Len(q) = {}
    BY <1>1, <1>3, <1>7
  <2> QED BY <2>1, <1>4
<1>8. q = <<>> <=> Range(q) = {}
  BY <1>6, <1>7
<1> QED BY <1>5, <1>8

\* The FIFO that session/cancel leaves.
LEMMA EmptyFifo ==
  ASSUME NEW S
  PROVE  <<>> \in Seq(S) /\ Range(<<>>) = {} /\ IsInjective(<<>>)
<1>1. <<>> \in Seq(S)
  BY EmptySeq
<1>2. Range(<<>>) = {}
  BY <1>1, FifoElements
<1>3. IsInjective(<<>>)
  BY DEF IsInjective
<1> QED BY <1>1, <1>2, <1>3

\* A turn that joins the FIFO is added to its elements, and if it was not
\* there before the FIFO still holds no turn twice.
LEMMA AppendToFifo ==
  ASSUME NEW S, NEW q \in Seq(S), NEW e \in S
  PROVE  /\ Append(q, e) \in Seq(S)
         /\ Append(q, e) # <<>>
         /\ Range(Append(q, e)) = Range(q) \cup {e}
         /\ IsInjective(q) /\ e \notin Range(q) => IsInjective(Append(q, e))
<1> DEFINE a == Append(q, e)
<1>1. a \in Seq(S) /\ Len(a) = Len(q) + 1 /\ Len(q) \in Nat
      /\ a[Len(q) + 1] = e
  BY LenProperties
<1>2. \A i \in 1..Len(q) : a[i] = q[i]
  BY LenProperties
<1>3. DOMAIN a = 1..(Len(q) + 1) /\ DOMAIN q = 1..Len(q)
  BY <1>1, LenProperties
<1>4. Range(a) = Range(q) \cup {e}
  <2>1. ASSUME NEW i \in 1..(Len(q) + 1) PROVE a[i] \in Range(q) \cup {e}
    <3>1. CASE i = Len(q) + 1
      BY <3>1, <1>1
    <3>2. CASE i # Len(q) + 1
      <4>1. i \in 1..Len(q)
        BY <1>1, <3>2
      <4> QED BY <4>1, <1>2, <1>3 DEF Range
    <3> QED BY <3>1, <3>2
  <2>2. ASSUME NEW i \in 1..Len(q) PROVE q[i] \in Range(a)
    <3>1. i \in 1..(Len(q) + 1)
      BY <1>1
    <3> QED BY <3>1, <1>2, <1>3 DEF Range
  <2>3. e \in Range(a)
    <3>1. Len(q) + 1 \in 1..(Len(q) + 1)
      BY <1>1
    <3> QED BY <3>1, <1>1, <1>3 DEF Range
  <2> HIDE DEF a
  <2> QED BY <2>1, <2>2, <2>3, <1>3 DEF Range
<1>5. ASSUME IsInjective(q), e \notin Range(q)
      PROVE  IsInjective(a)
  <2> SUFFICES ASSUME NEW i \in 1..(Len(q) + 1), NEW j \in 1..(Len(q) + 1),
                      a[i] = a[j], i # j
               PROVE  FALSE
    BY <1>3 DEF IsInjective
  <2>1. \A k \in 1..Len(q) : a[k] # e
    BY <1>2, <1>3, <1>5 DEF Range
  <2>2. i \in 1..Len(q) /\ j \in 1..Len(q)
    BY <2>1, <1>1
  <2> HIDE DEF a
  <2> QED BY <2>2, <1>2, <1>3, <1>5 DEF IsInjective
<1> QED BY <1>1, <1>4, <1>5, <1>3

\* The head leaves the FIFO and, if no turn is twice in it, is gone.
LEMMA TailOfFifo ==
  ASSUME NEW S, NEW q \in Seq(S), q # <<>>
  PROVE  /\ Tail(q) \in Seq(S)
         /\ Head(q) \in S
         /\ Range(q) = {Head(q)} \cup Range(Tail(q))
         /\ IsInjective(q) => Head(q) \notin Range(Tail(q))
         /\ IsInjective(q) => IsInjective(Tail(q))
<1> DEFINE r == Tail(q)
<1>1. Len(q) \in Nat \ {0} /\ DOMAIN q = 1..Len(q)
  BY LenProperties, EmptySeq
<1>2. r \in Seq(S) /\ Head(q) \in S /\ Len(r) = Len(q) - 1
      /\ \A i \in 1..Len(r) : r[i] = q[i + 1]
  BY HeadTailProperties
<1>3. Head(q) = q[1]
  OBVIOUS
<1>4. DOMAIN r = 1..(Len(q) - 1)
  BY <1>2, LenProperties
<1> HIDE DEF r
<1>5. Range(q) = {Head(q)} \cup Range(r)
  <2>1. ASSUME NEW i \in 1..Len(q) PROVE q[i] \in {Head(q)} \cup Range(r)
    <3>1. CASE i = 1
      BY <3>1, <1>3
    <3>2. CASE i # 1
      <4>1. i - 1 \in 1..(Len(q) - 1) /\ (i - 1) + 1 = i
        BY <1>1, <3>2
      <4>2. r[i - 1] = q[i]
        BY <4>1, <1>2
      <4> QED BY <4>1, <4>2, <1>4 DEF Range
    <3> QED BY <3>1, <3>2
  <2>2. Head(q) \in Range(q)
    BY <1>1, <1>3 DEF Range
  <2>3. ASSUME NEW i \in 1..(Len(q) - 1) PROVE r[i] \in Range(q)
    <3>1. i + 1 \in 1..Len(q)
      BY <1>1
    <3> QED BY <3>1, <1>1, <1>2 DEF Range
  <2> QED BY <2>1, <2>2, <2>3, <1>1, <1>4 DEF Range
<1>6. ASSUME IsInjective(q) PROVE Head(q) \notin Range(r)
  <2>1. ASSUME NEW i \in 1..(Len(q) - 1) PROVE r[i] # q[1]
    <3>1. i + 1 \in 1..Len(q) /\ i + 1 # 1 /\ r[i] = q[i + 1]
      BY <1>1, <1>2
    <3> QED BY <3>1, <1>1, <1>6 DEF IsInjective
  <2> QED BY <2>1, <1>3, <1>4 DEF Range
<1>7. ASSUME IsInjective(q) PROVE IsInjective(r)
  <2> SUFFICES ASSUME NEW i \in 1..(Len(q) - 1), NEW j \in 1..(Len(q) - 1),
                      r[i] = r[j]
               PROVE  i = j
    BY <1>4 DEF IsInjective
  <2>1. i + 1 \in 1..Len(q) /\ j + 1 \in 1..Len(q)
    BY <1>1
  <2>2. q[i + 1] = q[j + 1]
    BY <1>2
  <2>3. i + 1 = j + 1
    BY <2>1, <2>2, <1>1, <1>7 DEF IsInjective
  <2> QED BY <2>3
<1> QED BY <1>2, <1>5, <1>6, <1>7 DEF r

-----------------------------------------------------------------------------
(* The invariant                                                           *)

\* The FIFO holds the queued turns, once each.
QueueInv ==
  /\ IsInjective(queue)
  /\ \A t \in Turns : phase[t] = "queued" <=> t \in Waiting

EndedAnswered == \A t \in Turns : phase[t] = "ended" => response[t] # "pending"

\* One task is live at most, and in_flight_turn names it once it runs.
OneLive ==
  /\ \A t, u \in Turns : phase[t] \in Live /\ phase[u] \in Live => t = u
  /\ \A t \in Turns : phase[t] \in Body => inFlight = t

\* The steps of a turn that stays alive.
Advance(t) ==
  \/ Open(t) \/ Start(t) \/ StreamEnds(t) \/ StreamCancelled(t)
  \/ CancelRecorded(t) \/ StreamRaises(t) \/ HandlerInterrupted(t)

-----------------------------------------------------------------------------
\* Only the arrival of a turn and session/cancel move more than one turn.
LEMMA NextCases ==
  ASSUME TypeOK, [Next]_vars
  PROVE  \/ \E t \in Prompts : PromptRunsInline(t)
         \/ \E t \in Prompts : PromptRefused(t)
         \/ \E t \in Turns : MayArrive(t) /\ EnqueueTurn(t)
         \/ \E t \in Turns : Advance(t)
         \/ \E t \in Turns : Close(t)
         \/ \E t \in Turns : CancelEscapes(t) \/ WriteFails(t)
         \/ \E t \in Turns : Abort(t)
         \/ Cancel
         \/ UNCHANGED vars
BY DEF Next, TurnStep, Advance, PromptQueued, GatewayTurnQueued, Turns

\* An advancing turn was live, is in its body after the step, and disturbs
\* neither the FIFO nor any answer.
LEMMA AdvanceEnters ==
  ASSUME NEW t \in Turns, Advance(t)
  PROVE  /\ phase[t] \in Live
         /\ \E ph \in Body : phase' = [phase EXCEPT ![t] = ph]
         /\ UNCHANGED <<queue, direct, response, collector>>
<1>1. CASE Open(t)
  BY <1>1 DEF Open, Enter, Body, Live
<1>2. CASE Start(t)
  BY <1>2 DEF Start, Enter, Body, Live
<1>3. CASE StreamEnds(t)
  BY <1>3 DEF StreamEnds, Enter, Body, Live
<1>4. CASE StreamCancelled(t)
  BY <1>4 DEF StreamCancelled, Enter, Body, Live
<1>5. CASE CancelRecorded(t)
  BY <1>5 DEF CancelRecorded, Enter, Body, Live
<1>6. CASE StreamRaises(t)
  BY <1>6 DEF StreamRaises, Enter, Body, Live
<1>7. CASE HandlerInterrupted(t)
  BY <1>7 DEF HandlerInterrupted, Enter, Body, Live
<1> QED BY <1>1, <1>2, <1>3, <1>4, <1>5, <1>6, <1>7 DEF Advance

\* Answering keeps the types and every answer already given.
LEMMA AnsweredFacts ==
  ASSUME TypeOK, NEW S, NEW a \in Answers
  PROVE  /\ Answered(S, a) \in [Turns -> Answers]
         /\ \A t \in Turns : response[t] # "pending" =>
              Answered(S, a)[t] = response[t]
         /\ \A t \in S \cap Turns : a # "pending" =>
              Answered(S, a)[t] # "pending"
BY DEF TypeOK, Answered

\* Whatever a dying task's stop reason, its caller gets a proper answer.
LEMMA OutcomeFacts ==
  ASSUME NEW t, NEW s \in StopReasons
  PROVE  Outcome(t, s) \in Answers /\ Outcome(t, s) # "pending"
BY DEF Outcome, EscapedAnswer, StopReasons, Answers

\* Scheduling the head of a FIFO that agrees with the phases keeps them in
\* agreement; the head opens and no other turn moves.
LEMMA DispatchFacts ==
  ASSUME NEW q \in Seq(Turns), NEW ph \in [Turns -> Phases]
  PROVE  /\ Rest(q) \in Seq(Turns)
         /\ DispatchHead(ph, q) \in [Turns -> Phases]
         /\ IsInjective(q)
            /\ (\A t \in Turns : ph[t] = "queued" <=> t \in Range(q)) =>
              /\ IsInjective(Rest(q))
              /\ \A t \in Turns : DispatchHead(ph, q)[t] = "queued"
                                    <=> t \in Range(Rest(q))
              /\ \A t \in Turns : ph[t] # "queued" =>
                                    DispatchHead(ph, q)[t] = ph[t]
<1>1. CASE q = <<>>
  <2>1. Rest(q) = q /\ DispatchHead(ph, q) = ph
    BY <1>1 DEF Rest, DispatchHead
  <2> QED BY <2>1
<1>2. CASE q # <<>>
  <2>1. /\ Tail(q) \in Seq(Turns) /\ Head(q) \in Turns
        /\ Range(q) = {Head(q)} \cup Range(Tail(q))
        /\ IsInjective(q) => Head(q) \notin Range(Tail(q))
        /\ IsInjective(q) => IsInjective(Tail(q))
    BY <1>2, TailOfFifo
  <2>2. /\ Rest(q) = Tail(q)
        /\ DispatchHead(ph, q) = [ph EXCEPT ![Head(q)] = "opening"]
    BY <1>2 DEF Rest, DispatchHead
  <2>3. "opening" \in Phases
    BY DEF Phases, Live
  <2> QED BY <2>1, <2>2, <2>3
<1> QED BY <1>1, <1>2

\* Only the head moves, to opening.
LEMMA OnlyHeadOpens ==
  ASSUME NEW q \in Seq(Turns), NEW ph \in [Turns -> Phases],
         NEW moved, moved = DispatchHead(ph, q)
  PROVE  /\ \A t \in Turns : moved[t] \in {ph[t], "opening"}
         /\ \A t, u \in Turns :
              moved[t] # ph[t] /\ moved[u] # ph[u] => t = u
BY DEF DispatchHead

-----------------------------------------------------------------------------
(* Type correctness                                                        *)

\* The domains at first.
LEMMA InitType == Init => TypeOK
BY TurnsAssumption
   DEF Init, TypeOK, Turns, Phases, StopReasons, Answers

\* A turn that joins an idle session's FIFO may leave it at once.
LEMMA EnqueueType ==
  ASSUME TypeOK, NEW t \in Turns, EnqueueTurn(t)
  PROVE  queue' \in Seq(Turns) /\ phase' \in [Turns -> Phases]
<1> DEFINE q == Append(queue, t)
           ph == [phase EXCEPT ![t] = "queued"]
<1>1. q \in Seq(Turns)
  BY AppendToFifo DEF TypeOK
<1>2. ph \in [Turns -> Phases]
  BY DEF TypeOK, Phases
<1>3. \/ queue' = Rest(q) /\ phase' = DispatchHead(ph, q)
      \/ queue' = q /\ phase' = ph
  BY DEF EnqueueTurn
<1> HIDE DEF q, ph
<1> QED BY <1>1, <1>2, <1>3, DispatchFacts

\* Every step keeps the domains.
LEMMA StepType ==
  ASSUME TypeOK, [Next]_vars
  PROVE  TypeOK'
<1>1. CASE \E t \in Prompts : PromptRunsInline(t)
  BY <1>1 DEF PromptRunsInline, TypeOK, Turns, Phases, Live
<1>2. ASSUME NEW t \in Prompts, PromptRefused(t) PROVE TypeOK'
  <2>1. response' \in [Turns -> Answers]
    BY <1>2, AnsweredFacts DEF PromptRefused, Answers
  <2> QED BY <1>2, <2>1 DEF PromptRefused, TypeOK, Phases, Answers
<1>3. CASE \E t \in Turns : MayArrive(t) /\ EnqueueTurn(t)
  BY <1>3, EnqueueType DEF EnqueueTurn, TypeOK
<1>4. ASSUME NEW t \in Turns, Advance(t) PROVE TypeOK'
  <2>1. /\ phase' \in [Turns -> Phases] /\ queue' \in Seq(Turns)
        /\ direct' \subseteq Prompts /\ response' \in [Turns -> Answers]
        /\ collector' \in [GatewayTurns -> {"pending", "text", "aborted"}]
    BY <1>4, AdvanceEnters DEF TypeOK, Phases, Live
  <2>2. /\ inFlight' \in Turns \cup {NoTurn} /\ cancelled' \subseteq Turns
        /\ stop' \in [Turns -> StopReasons]
    BY <1>4 DEF Advance, Open, Start, StreamEnds, StreamCancelled,
       CancelRecorded, StreamRaises, HandlerInterrupted, TypeOK, StopReasons
  <2>3. disturbed' \in 0..MaxDisturbances
    BY <1>4, TurnsAssumption DEF Advance, Open, Start, StreamEnds,
       StreamCancelled, CancelRecorded, StreamRaises, HandlerInterrupted,
       Disturb, TypeOK
  <2> QED BY <2>1, <2>2, <2>3 DEF TypeOK
<1>5. ASSUME NEW t \in Turns, Close(t) PROVE TypeOK'
  <2>1. response' \in [Turns -> Answers]
    BY <1>5, AnsweredFacts, OutcomeFacts DEF Close, TypeOK
  <2>2. [phase EXCEPT ![t] = "ended"] \in [Turns -> Phases]
    BY DEF TypeOK, Phases
  <2>3. queue' \in Seq(Turns) /\ phase' \in [Turns -> Phases]
    BY <1>5, <2>2, DispatchFacts DEF Close, TypeOK
  <2>4. collector' \in [GatewayTurns -> {"pending", "text", "aborted"}]
    BY <1>5 DEF Close, TypeOK
  <2> QED BY <1>5, <2>1, <2>3, <2>4 DEF Close, TypeOK
<1>6. ASSUME NEW t \in Turns, CancelEscapes(t) \/ WriteFails(t) PROVE TypeOK'
  <2>1. PICK s \in {"escaped", "error"} : Die(t, s)
    BY <1>6 DEF CancelEscapes, WriteFails
  <2>2. response' \in [Turns -> Answers]
    BY <2>1, AnsweredFacts, OutcomeFacts DEF Die, StopReasons
  <2>3. phase' \in [Turns -> Phases] /\ cancelled' \subseteq Turns
    BY <2>1 DEF Die, TypeOK, Phases
  <2>4. disturbed' \in 0..MaxDisturbances
    BY <1>6, TurnsAssumption DEF CancelEscapes, WriteFails, Disturb, TypeOK
  <2> QED BY <2>1, <2>2, <2>3, <2>4 DEF Die, TypeOK
<1>7. ASSUME NEW t \in Turns, Abort(t) PROVE TypeOK'
  <2>1. response' \in [Turns -> Answers]
    BY <1>7, AnsweredFacts DEF Abort, TypeOK, Answers
  <2>2. cancelled' \subseteq Turns
    BY <1>7 DEF Abort, CancelTask, TypeOK
  <2>3. collector' \in [GatewayTurns -> {"pending", "text", "aborted"}]
    BY <1>7 DEF Abort, TypeOK
  <2>4. disturbed' \in 0..MaxDisturbances
    BY <1>7, TurnsAssumption DEF Abort, Disturb, TypeOK
  <2> QED BY <1>7, <2>1, <2>2, <2>3, <2>4 DEF Abort, TypeOK
<1>8. CASE Cancel
  <2>1. response' \in [Turns -> Answers]
    BY <1>8, AnsweredFacts DEF Cancel, Answers
  <2>2. cancelled' \subseteq Turns
    BY <1>8 DEF Cancel, CancelTask, TypeOK
  <2>3. phase' \in [Turns -> Phases] /\ queue' \in Seq(Turns)
    BY <1>8 DEF Cancel, TypeOK, Phases
  <2>4. disturbed' \in 0..MaxDisturbances
    BY <1>8, TurnsAssumption DEF Cancel, Disturb, TypeOK
  <2> QED BY <1>8, <2>1, <2>2, <2>3, <2>4 DEF Cancel, TypeOK
<1>9. CASE UNCHANGED vars
  BY <1>9 DEF vars, TypeOK
<1> QED BY <1>1, <1>2, <1>3, <1>4, <1>5, <1>6, <1>7, <1>8, <1>9, NextCases

\* Every variable of the queue keeps its type in every behaviour, however
\* prompt, cancel and _run_turn_core interleave.
THEOREM TypeCorrect == Spec => []TypeOK
BY InitType, StepType, PTL DEF Spec

-----------------------------------------------------------------------------
(* The FIFO and the answers                                                *)

\* Nobody waits at first.
LEMMA InitQueue == Init => QueueInv /\ EndedAnswered
<1> SUFFICES ASSUME Init PROVE QueueInv /\ EndedAnswered
  OBVIOUS
<1>1. queue = <<>> /\ \A t \in Turns : phase[t] = "idle"
  BY DEF Init
<1> QED BY <1>1, EmptyFifo DEF QueueInv, EndedAnswered, Waiting

\* A fresh turn joins the FIFO; the head may be scheduled in the same step,
\* and nobody else moves.
LEMMA EnqueueFifo ==
  ASSUME TypeOK, QueueInv, NEW t \in Turns, phase[t] = "idle", EnqueueTurn(t)
  PROVE  /\ QueueInv'
         /\ \A u \in Turns : phase[u] = "ended" <=> phase'[u] = "ended"
         /\ \A u \in Turns : phase'[u] \in Live =>
              phase[u] \in Live \/ (inFlight = NoTurn /\ phase'[u] = "opening")
         /\ \A u, v \in Turns : /\ phase'[u] \in Live /\ phase[u] \notin Live
                                /\ phase'[v] \in Live /\ phase[v] \notin Live
                                => u = v
<1> DEFINE q == Append(queue, t)
           ph == [phase EXCEPT ![t] = "queued"]
<1>1. t \notin Waiting
  BY DEF QueueInv
<1>2. /\ q \in Seq(Turns) /\ IsInjective(q)
      /\ Range(q) = Waiting \cup {t}
  BY <1>1, AppendToFifo DEF TypeOK, QueueInv, Waiting
<1>3. ph \in [Turns -> Phases]
  BY DEF TypeOK, Phases
<1>4. \A u \in Turns : ph[u] = "queued" <=> u \in Range(q)
  BY <1>2 DEF QueueInv, TypeOK
<1>5. /\ \A u \in Turns : ph[u] = "ended" <=> phase[u] = "ended"
      /\ \A u \in Turns : ph[u] \in Live <=> phase[u] \in Live
  BY DEF TypeOK, Live, Body
<1>6. \/ inFlight = NoTurn /\ queue' = Rest(q) /\ phase' = DispatchHead(ph, q)
      \/ queue' = q /\ phase' = ph
  BY DEF EnqueueTurn
<1> HIDE DEF q, ph
<1>7. CASE queue' = q /\ phase' = ph
  BY <1>7, <1>2, <1>4, <1>5 DEF QueueInv, Waiting
<1>8. CASE inFlight = NoTurn /\ queue' = Rest(q) /\ phase' = DispatchHead(ph, q)
  <2>1. /\ IsInjective(queue')
        /\ \A u \in Turns : phase'[u] = "queued" <=> u \in Range(queue')
        /\ \A u \in Turns : ph[u] # "queued" => phase'[u] = ph[u]
        /\ \A u, v \in Turns : phase'[u] # ph[u] /\ phase'[v] # ph[v] => u = v
        /\ \A u \in Turns : phase'[u] \in {ph[u], "opening"}
    BY <1>8, <1>2, <1>3, <1>4, DispatchFacts, OnlyHeadOpens
  <2> QED BY <2>1, <1>5, <1>8 DEF QueueInv, Waiting
<1> QED BY <1>6, <1>7, <1>8

\* Every step keeps the FIFO and the phases in agreement, and no ended turn
\* goes on.
LEMMA StepQueue ==
  ASSUME TypeOK, QueueInv, EndedAnswered, [Next]_vars
  PROVE  /\ QueueInv' /\ EndedAnswered'
         /\ \A t \in Turns : phase[t] = "ended" => phase'[t] = "ended"
<1> DEFINE Good == /\ QueueInv' /\ EndedAnswered'
                   /\ \A t \in Turns : phase[t] = "ended" => phase'[t] = "ended"
<1>1. ASSUME NEW t \in Prompts, PromptRunsInline(t) PROVE Good
  BY <1>1 DEF PromptRunsInline, MayArrive, TypeOK, Turns, QueueInv,
     EndedAnswered, Waiting
<1>2. ASSUME NEW t \in Prompts, PromptRefused(t) PROVE Good
  <2>1. /\ \A u \in Turns : response[u] # "pending" => response'[u] = response[u]
        /\ response'[t] # "pending"
    BY <1>2, AnsweredFacts DEF PromptRefused, Answers, Turns
  <2> QED BY <1>2, <2>1 DEF PromptRefused, MayArrive, TypeOK, Turns, QueueInv,
             EndedAnswered, Waiting
<1>3. ASSUME NEW t \in Turns, MayArrive(t) /\ EnqueueTurn(t) PROVE Good
  <2>1. /\ QueueInv'
        /\ \A u \in Turns : phase[u] = "ended" <=> phase'[u] = "ended"
    BY <1>3, EnqueueFifo DEF MayArrive
  <2> QED BY <1>3, <2>1 DEF EnqueueTurn, EndedAnswered
<1>4. ASSUME NEW t \in Turns, Advance(t) PROVE Good
  BY <1>4, AdvanceEnters DEF TypeOK, QueueInv, EndedAnswered, Waiting, Body, Live
<1>5. ASSUME NEW t \in Turns, Close(t) PROVE Good
  <2> DEFINE ph == [phase EXCEPT ![t] = "ended"]
  <2>1. /\ \A u \in Turns : response[u] # "pending" => response'[u] = response[u]
        /\ response'[t] # "pending"
    BY <1>5, AnsweredFacts, OutcomeFacts DEF Close, TypeOK
  <2>2. /\ ph \in [Turns -> Phases] /\ queue \in Seq(Turns)
        /\ IsInjective(queue)
        /\ \A u \in Turns : ph[u] = "queued" <=> u \in Range(queue)
    BY <1>5 DEF Close, TypeOK, QueueInv, Waiting, Phases
  <2>3. phase' = DispatchHead(ph, queue) /\ queue' = Rest(queue)
    BY <1>5 DEF Close
  <2>4. \A u \in Turns : phase[u] = "ended" => ph[u] = "ended"
    BY DEF TypeOK
  <2>5. \A u \in Turns : ph[u] = "ended" => phase[u] = "ended" \/ u = t
    BY DEF TypeOK
  <2> HIDE DEF ph
  <2>6. /\ IsInjective(queue')
        /\ \A u \in Turns : phase'[u] = "queued" <=> u \in Range(queue')
        /\ \A u \in Turns : ph[u] # "queued" => phase'[u] = ph[u]
        /\ \A u \in Turns : phase'[u] \in {ph[u], "opening"}
    BY <2>2, <2>3, DispatchFacts, OnlyHeadOpens
  <2> QED BY <2>1, <2>4, <2>5, <2>6 DEF QueueInv, EndedAnswered, Waiting
<1>6. ASSUME NEW t \in Turns, CancelEscapes(t) \/ WriteFails(t) PROVE Good
  <2>1. PICK s \in {"escaped", "error"} : Die(t, s)
    BY <1>6 DEF CancelEscapes, WriteFails
  <2>2. /\ \A u \in Turns : response[u] # "pending" => response'[u] = response[u]
        /\ response'[t] # "pending"
    BY <2>1, AnsweredFacts, OutcomeFacts DEF Die, StopReasons
  <2>3. phase[t] # "queued"
    BY <1>6 DEF CancelEscapes, WriteFails
  <2> QED BY <2>1, <2>2, <2>3 DEF Die, TypeOK, QueueInv, EndedAnswered, Waiting
<1>7. ASSUME NEW t \in Turns, Abort(t) PROVE Good
  <2>1. \A u \in Turns : response[u] # "pending" => response'[u] # "pending"
    BY <1>7, AnsweredFacts DEF Abort, Answers
  <2> QED BY <1>7, <2>1 DEF Abort, QueueInv, EndedAnswered, Waiting
<1>8. CASE Cancel
  <2>1. /\ \A u \in Turns : response[u] # "pending" => response'[u] # "pending"
        /\ \A u \in Waiting \cap Turns : response'[u] # "pending"
    BY <1>8, AnsweredFacts DEF Cancel, Answers
  <2>2. queue' = <<>> /\ Range(<<>>) = {} /\ IsInjective(<<>>)
    BY <1>8, EmptyFifo DEF Cancel
  <2>3. \A u \in Turns : phase'[u] = IF u \in Waiting THEN "ended" ELSE phase[u]
    BY <1>8 DEF Cancel
  <2> QED BY <2>1, <2>2, <2>3 DEF QueueInv, EndedAnswered, Waiting
<1>9. CASE UNCHANGED vars
  BY <1>9 DEF vars, QueueInv, EndedAnswered, Waiting
<1> QED BY <1>1, <1>2, <1>3, <1>4, <1>5, <1>6, <1>7, <1>8, <1>9, NextCases

\* The FIFO and the phases agree throughout.
LEMMA QueueInvariant == Spec => [](TypeOK /\ QueueInv /\ EndedAnswered)
BY InitType, StepType, InitQueue, StepQueue, PTL DEF Spec

\* A turn that is queued is in the FIFO, and one that ended has its answer.
LEMMA LostNowhere == TypeOK /\ QueueInv /\ EndedAnswered => NoTurnLost
BY DEF TypeOK, QueueInv, EndedAnswered, NoTurnLost, Phases

\* Whatever is cancelled, aborted or fails, a caller without an answer waits
\* for a turn that is in the FIFO or has a live task.
THEOREM TurnsAreKept == Spec => []NoTurnLost
BY QueueInvariant, LostNowhere, PTL

\* No step takes a turn out of its end.
LEMMA EndedStep ==
  TypeOK /\ QueueInv /\ EndedAnswered /\ [Next]_vars =>
    [\A t \in Turns : phase[t] = "ended" => phase'[t] = "ended"]_vars
BY StepQueue

\* No turn that was dropped, refused or finished is dispatched again.
THEOREM DroppedStaysDropped == Spec => DroppedTurnNeverRuns
BY QueueInvariant, EndedStep, PTL DEF Spec, DroppedTurnNeverRuns

\* No step changes an answer.
LEMMA AnswerStep ==
  TypeOK /\ [Next]_vars =>
    [\A t \in Turns : response[t] # "pending" => response'[t] = response[t]]_vars
<1> SUFFICES ASSUME TypeOK, [Next]_vars, NEW t \in Turns,
                    response[t] # "pending"
             PROVE  response'[t] = response[t]
  OBVIOUS
<1>1. \/ response' = response
      \/ \E S : \E a \in Answers : response' = Answered(S, a)
  <2>1. CASE \E u \in Prompts : PromptRunsInline(u)
    BY <2>1 DEF PromptRunsInline
  <2>2. CASE \E u \in Prompts : PromptRefused(u)
    BY <2>2 DEF PromptRefused, Answers
  <2>3. CASE \E u \in Turns : MayArrive(u) /\ EnqueueTurn(u)
    BY <2>3 DEF EnqueueTurn
  <2>4. CASE \E u \in Turns : Advance(u)
    BY <2>4, AdvanceEnters
  <2>5. CASE \E u \in Turns : Close(u)
    BY <2>5, OutcomeFacts DEF Close, TypeOK
  <2>6. CASE \E u \in Turns : CancelEscapes(u) \/ WriteFails(u)
    <3>1. PICK u \in Turns, s \in {"escaped", "error"} : Die(u, s)
      BY <2>6 DEF CancelEscapes, WriteFails
    <3> QED BY <3>1, OutcomeFacts DEF Die, StopReasons
  <2>7. CASE \E u \in Turns : Abort(u)
    BY <2>7 DEF Abort, Answers
  <2>8. CASE Cancel
    BY <2>8 DEF Cancel, Answers
  <2>9. CASE UNCHANGED vars
    BY <2>9 DEF vars
  <2> QED BY <2>1, <2>2, <2>3, <2>4, <2>5, <2>6, <2>7, <2>8, <2>9, NextCases
<1> QED BY <1>1, AnsweredFacts

\* session/cancel, a dead requester and the end of the turn may all try to
\* answer; the first answer stands.
THEOREM FirstAnswerStands == Spec => AnsweredOnce
BY TypeCorrect, AnswerStep, PTL DEF Spec, AnsweredOnce

-----------------------------------------------------------------------------
(* One turn at a time                                                      *)

\* No task is live at first.
LEMMA InitOneLive == Init => OneLive
BY DEF Init, OneLive, Live, Body

\* Every step keeps one live task at most, if none arrives during an opening.
LEMMA StepOneLive ==
  ASSUME "overlap" \notin Disturbances,
         TypeOK, QueueInv, EndedAnswered, OneLive, [Next]_vars
  PROVE  OneLive'
<1>1. ASSUME NEW t \in Turns, MayArrive(t), inFlight = NoTurn,
             NEW u \in Turns
      PROVE  phase[u] \notin Live
  BY <1>1, TurnsAssumption DEF MayArrive, Opening, OneLive, Live
<1>2. ASSUME NEW t \in Prompts, PromptRunsInline(t) PROVE OneLive'
  <2>1. t \in Turns /\ inFlight = NoTurn
        /\ phase' = [phase EXCEPT ![t] = "opening"]
    BY <1>2 DEF PromptRunsInline, Turns
  <2>2. \A u \in Turns : phase[u] \notin Live
    BY <1>1, <1>2, <2>1 DEF PromptRunsInline
  <2> QED BY <2>1, <2>2 DEF OneLive, TypeOK, Live, Body
<1>3. ASSUME NEW t \in Prompts, PromptRefused(t) PROVE OneLive'
  BY <1>3 DEF PromptRefused, OneLive, TypeOK, Live, Body
<1>4. ASSUME NEW t \in Turns, MayArrive(t) /\ EnqueueTurn(t) PROVE OneLive'
  <2>1. /\ \A u \in Turns : phase'[u] \in Live =>
             phase[u] \in Live \/ (inFlight = NoTurn /\ phase'[u] = "opening")
        /\ \A u, v \in Turns : /\ phase'[u] \in Live /\ phase[u] \notin Live
                               /\ phase'[v] \in Live /\ phase[v] \notin Live
                               => u = v
    BY <1>4, EnqueueFifo DEF MayArrive
  <2>2. inFlight' = inFlight
    BY <1>4 DEF EnqueueTurn
  <2>3. CASE inFlight = NoTurn
    <3>1. \A u \in Turns : phase[u] \notin Live
      BY <1>1, <1>4, <2>3
    <3>2. \A u \in Turns : phase'[u] \notin Body
      BY <2>1, <3>1 DEF Live, Body
    <3> QED BY <2>1, <3>1, <3>2 DEF OneLive
  <2>4. CASE inFlight # NoTurn
    <3>1. phase' = [phase EXCEPT ![t] = "queued"]
      BY <1>4, <2>4 DEF EnqueueTurn
    <3> QED BY <3>1, <2>2 DEF OneLive, TypeOK, Live, Body
  <2> QED BY <2>3, <2>4
<1>5. ASSUME NEW t \in Turns, Advance(t) PROVE OneLive'
  <2>1. PICK ph \in Body : phase' = [phase EXCEPT ![t] = ph]
    BY <1>5, AdvanceEnters
  <2>2. phase[t] \in Live
    BY <1>5, AdvanceEnters
  <2>3. \A u, v \in Turns : phase'[u] \in Live /\ phase'[v] \in Live => u = v
    BY <2>1, <2>2 DEF OneLive, TypeOK
  <2>4. inFlight' = t
    <3>1. CASE Open(t)
      BY <3>1 DEF Open
    <3>2. CASE ~Open(t)
      <4>1. phase[t] \in Body /\ inFlight' = inFlight
        BY <1>5, <3>2 DEF Advance, Start, StreamEnds, StreamCancelled,
           CancelRecorded, StreamRaises, HandlerInterrupted, Body
      <4> QED BY <4>1 DEF OneLive
    <3> QED BY <3>1, <3>2
  <2>5. \A u \in Turns : phase'[u] \in Body => u = t
    BY <2>1, <2>3 DEF Live, TypeOK
  <2> QED BY <2>3, <2>4, <2>5 DEF OneLive
<1>6. ASSUME NEW t \in Turns, Close(t) PROVE OneLive'
  <2> DEFINE ph == [phase EXCEPT ![t] = "ended"]
  <2>1. \A u \in Turns : ph[u] \notin Live
    BY <1>6 DEF Close, OneLive, TypeOK, Live, Body
  <2>2. ph \in [Turns -> Phases] /\ queue \in Seq(Turns)
    BY DEF TypeOK, Phases
  <2>3. phase' = DispatchHead(ph, queue)
    BY <1>6 DEF Close
  <2> HIDE DEF ph
  <2>4. /\ \A u \in Turns : phase'[u] \in {ph[u], "opening"}
        /\ \A u, v \in Turns : phase'[u] # ph[u] /\ phase'[v] # ph[v] => u = v
    BY <2>2, <2>3, OnlyHeadOpens
  <2>5. \A u \in Turns : phase'[u] \notin Body
    BY <2>1, <2>4 DEF Live, Body
  <2> QED BY <2>1, <2>4, <2>5 DEF OneLive
<1>7. ASSUME NEW t \in Turns, CancelEscapes(t) \/ WriteFails(t) PROVE OneLive'
  <2>1. phase' = [phase EXCEPT ![t] = "ended"] /\ inFlight' = inFlight
    BY <1>7 DEF CancelEscapes, WriteFails, Die
  <2> QED BY <2>1 DEF OneLive, TypeOK, Live, Body
<1>8. ASSUME NEW t \in Turns, Abort(t) PROVE OneLive'
  BY <1>8 DEF Abort, OneLive
<1>9. CASE Cancel
  BY <1>9 DEF Cancel, OneLive, Live, Body
<1>10. CASE UNCHANGED vars
  BY <1>10 DEF vars, OneLive
<1> QED BY <1>2, <1>3, <1>4, <1>5, <1>6, <1>7, <1>8, <1>9, <1>10, NextCases

\* One live task is one turn at a time.
LEMMA OneLiveSerialises == OneLive => Serialised
BY DEF OneLive, Serialised, InBody, Live

\* Where no turn arrives while another awaits the write of its
\* UserMessageEvent, one turn of the session runs at a time, whatever is
\* cancelled, aborted or fails.
THEOREM TurnsAreSerialised ==
  ASSUME "overlap" \notin Disturbances
  PROVE  Spec => []Serialised
<1>1. Init => TypeOK /\ QueueInv /\ EndedAnswered /\ OneLive
  BY InitType, InitQueue, InitOneLive
<1>2. TypeOK /\ QueueInv /\ EndedAnswered /\ OneLive /\ [Next]_vars
        => (TypeOK /\ QueueInv /\ EndedAnswered /\ OneLive)'
  BY StepType, StepQueue, StepOneLive
<1> QED BY <1>1, <1>2, OneLiveSerialises, PTL DEF Spec

-----------------------------------------------------------------------------
(* The abstract queue                                                      *)

\* A line with somebody in front.
LEMMA InFront ==
  ASSUME NEW S, NEW e \in S, NEW q \in Seq(S)
  PROVE  LET line == <<e>> \o q
         IN  /\ line \in Seq(S) /\ line # <<>> /\ Len(line) = Len(q) + 1
             /\ Head(line) = e /\ Tail(line) = q
             /\ \A i \in 1..Len(q) : line[i + 1] = q[i]
             /\ Range(line) = {e} \cup Range(q)
<1> DEFINE line == <<e>> \o q
<1>1. <<e>> \in Seq(S) /\ Len(<<e>>) = 1 /\ <<e>>[1] = e /\ Len(q) \in Nat
  BY LenProperties
<1>2. /\ line \in Seq(S) /\ Len(line) = 1 + Len(q)
      /\ \A i \in 1..(1 + Len(q)) : line[i] = IF i <= 1 THEN <<e>>[i] ELSE q[i - 1]
  BY <1>1, ConcatProperties
<1> HIDE DEF line
<1>3. line # <<>>
  BY <1>1, <1>2, EmptySeq
<1>4. line[1] = e
  BY <1>1, <1>2
<1>5. \A i \in 1..Len(q) : line[i + 1] = q[i]
  <2> TAKE i \in 1..Len(q)
  <2>1. i + 1 \in 1..(1 + Len(q)) /\ ~(i + 1 <= 1) /\ (i + 1) - 1 = i
    BY <1>1
  <2> QED BY <1>2, <2>1
<1>6. Head(line) = e
  BY <1>2, <1>3, <1>4
<1>7. Tail(line) \in Seq(S) /\ Len(Tail(line)) = Len(q)
      /\ \A i \in 1..Len(q) : Tail(line)[i] = line[i + 1]
  BY <1>1, <1>2, <1>3, HeadTailProperties
<1>8. Tail(line) = q
  <2>1. \A i \in 1..Len(q) : Tail(line)[i] = q[i]
    BY <1>5, <1>7
  <2> QED BY <1>7, <2>1, SeqEqual
<1>9. Range(line) = {e} \cup Range(q)
  BY <1>2, <1>3, <1>6, <1>8, TailOfFifo
<1> QED BY <1>1, <1>2, <1>3, <1>5, <1>6, <1>8, <1>9 DEF line

\* A line is its head in front of its tail.
LEMMA HeadInFront ==
  ASSUME NEW S, NEW q \in Seq(S), q # <<>>
  PROVE  <<Head(q)>> \o Tail(q) = q
<1>1. Head(q) \in S /\ Tail(q) \in Seq(S) /\ Len(Tail(q)) = Len(q) - 1
      /\ \A i \in 1..Len(Tail(q)) : Tail(q)[i] = q[i + 1]
  BY HeadTailProperties
<1>2. Len(q) \in Nat \ {0} /\ q[1] = Head(q)
  BY EmptySeq
<1> DEFINE line == <<Head(q)>> \o Tail(q)
<1>3. /\ line \in Seq(S) /\ Len(line) = Len(Tail(q)) + 1 /\ line[1] = Head(q)
      /\ \A i \in 1..Len(Tail(q)) : line[i + 1] = Tail(q)[i]
  <2>1. line[1] = Head(line) /\ Head(line) = Head(q)
    BY <1>1, InFront
  <2> QED BY <1>1, <2>1, InFront
<1> HIDE DEF line
<1>4. ASSUME NEW i \in 1..Len(q) PROVE line[i] = q[i]
  <2>1. CASE i = 1
    BY <1>2, <1>3, <2>1
  <2>2. CASE i # 1
    <3>1. i - 1 \in 1..Len(Tail(q)) /\ (i - 1) + 1 = i
      BY <1>1, <1>2, <2>2
    <3>2. line[(i - 1) + 1] = Tail(q)[i - 1] /\ Tail(q)[i - 1] = q[(i - 1) + 1]
      BY <1>1, <1>3, <3>1
    <3> QED BY <3>1, <3>2
  <2> QED BY <2>1, <2>2
<1>5. Len(line) = Len(q)
  BY <1>1, <1>2, <1>3
<1>6. line = q
  BY <1>3, <1>4, <1>5, SeqEqual
<1> QED BY <1>6 DEF line

\* Where the runner is cancelled only inside its try and every write succeeds:
\* a turn in its body has in_flight_turn, and who has not come has no answer.
Undisturbed == {"overlap", "bracket", "dbfail"} \cap Disturbances = {}

Smooth ==
  /\ inFlight # NoTurn => phase[inFlight] \in Body
  /\ \A t \in cancelled : phase[t] \in {"opening", "running"}
  /\ \A t \in Turns : phase[t] = "idle" => response[t] = "pending"

FInv == TypeOK /\ QueueInv /\ EndedAnswered /\ OneLive /\ Smooth

\* No turn is in its body at first.
LEMMA InitSmooth == Init => Smooth
BY DEF Init, Smooth

\* Every undisturbed step lets go of in_flight_turn with the body.
LEMMA StepSmooth ==
  ASSUME Undisturbed, FInv, [Next]_vars
  PROVE  Smooth'
<1> USE DEF FInv
<1>1. ASSUME NEW t \in Prompts, PromptRunsInline(t) PROVE Smooth'
  BY <1>1, TurnsAssumption DEF PromptRunsInline, MayArrive, Smooth, TypeOK, Turns, Body
<1>2. ASSUME NEW t \in Prompts, PromptRefused(t) PROVE Smooth'
  <2>1. \A u \in Turns : u # t => response'[u] = response[u]
    BY <1>2 DEF PromptRefused, Answered
  <2> QED BY <1>2, <2>1 DEF PromptRefused, MayArrive, Smooth, TypeOK, Turns, Body
<1>3. ASSUME NEW t \in Turns, MayArrive(t) /\ EnqueueTurn(t) PROVE Smooth'
  <2> DEFINE q == Append(queue, t)
             ph == [phase EXCEPT ![t] = "queued"]
  <2>1. /\ UNCHANGED <<inFlight, cancelled, response>> /\ phase[t] = "idle"
        /\ \/ inFlight = NoTurn /\ phase' = DispatchHead(ph, q)
           \/ phase' = ph
    BY <1>3 DEF EnqueueTurn, MayArrive
  <2>2. q \in Seq(Turns) /\ ph \in [Turns -> Phases]
    BY AppendToFifo DEF TypeOK, Phases
  <2>3. \A u \in Turns : ph[u] = IF u = t THEN "queued" ELSE phase[u]
    BY DEF TypeOK
  <2> HIDE DEF q, ph
  <2>4. CASE phase' = ph
    BY <2>1, <2>3, <2>4 DEF Smooth, TypeOK, Body
  <2>5. CASE inFlight = NoTurn /\ phase' = DispatchHead(ph, q)
    <3>1. \A u \in Turns : phase'[u] \in {ph[u], "opening"}
      BY <2>2, <2>5, OnlyHeadOpens
    <3>2. \A u \in cancelled : phase'[u] = "opening" \/ phase'[u] = phase[u]
      BY <2>1, <2>3, <3>1 DEF Smooth, TypeOK
    <3> QED BY <2>1, <2>3, <2>5, <3>1, <3>2 DEF Smooth, TypeOK
  <2> QED BY <2>1, <2>4, <2>5
<1>4. ASSUME NEW t \in Turns, Advance(t) PROVE Smooth'
  <2>1. PICK ph \in Body : phase' = [phase EXCEPT ![t] = ph]
    BY <1>4, AdvanceEnters
  <2>2. UNCHANGED response /\ t \notin cancelled'
    BY <1>4, AdvanceEnters DEF Advance, Open, Start, StreamEnds, StreamRaises,
       StreamCancelled, CancelRecorded, HandlerInterrupted
  <2>3. cancelled' \subseteq cancelled
    BY <1>4 DEF Advance, Open, Start, StreamEnds, StreamRaises,
       StreamCancelled, CancelRecorded, HandlerInterrupted
  <2>4. inFlight' \in {inFlight, t}
    BY <1>4 DEF Advance, Open, Start, StreamEnds, StreamRaises,
       StreamCancelled, CancelRecorded, HandlerInterrupted
  <2>5. inFlight' # NoTurn => phase'[inFlight'] \in Body
    BY <2>1, <2>4 DEF Smooth, TypeOK
  <2>6. \A u \in cancelled' : phase'[u] \in {"opening", "running"}
    BY <2>1, <2>2, <2>3 DEF Smooth, TypeOK
  <2>7. \A u \in Turns : phase'[u] = "idle" => response'[u] = "pending"
    BY <2>1, <2>2 DEF Smooth, TypeOK, Body
  <2> QED BY <2>5, <2>6, <2>7 DEF Smooth
<1>5. ASSUME NEW t \in Turns, Close(t) PROVE Smooth'
  <2> DEFINE ph == [phase EXCEPT ![t] = "ended"]
  <2>1. /\ phase' = DispatchHead(ph, queue) /\ inFlight' = NoTurn
        /\ UNCHANGED cancelled /\ t \notin cancelled
        /\ \A u \in Turns : u # t => response'[u] = response[u]
    BY <1>5 DEF Close, Answered
  <2>2. ph \in [Turns -> Phases] /\ queue \in Seq(Turns)
        /\ \A u \in Turns : ph[u] = IF u = t THEN "ended" ELSE phase[u]
    BY DEF TypeOK, Phases
  <2> HIDE DEF ph
  <2>3. \A u \in Turns : phase'[u] \in {ph[u], "opening"}
    BY <2>1, <2>2, OnlyHeadOpens
  <2>4. \A u \in cancelled : phase'[u] = "opening" \/ phase'[u] = phase[u]
    BY <2>1, <2>2, <2>3 DEF Smooth, TypeOK
  <2> QED BY <2>1, <2>2, <2>3, <2>4 DEF Smooth, TypeOK
<1>6. ASSUME NEW t \in Turns, CancelEscapes(t) \/ WriteFails(t) PROVE Smooth'
  <2>1. phase[t] = "opening" /\ Die(t, "escaped")
    BY <1>6 DEF CancelEscapes, WriteFails, Disturb, Undisturbed, Smooth
  <2>2. \A u \in Turns : u # t => response'[u] = response[u]
    BY <2>1 DEF Die, Answered
  <2> QED BY <2>1, <2>2 DEF Die, Smooth, TypeOK, Body
<1>7. ASSUME NEW t \in Turns, Abort(t) PROVE Smooth'
  <2>1. \A u \in Turns : u # t => response'[u] = response[u]
    BY <1>7 DEF Abort, Answered
  <2>2. \A u \in cancelled' : u \in cancelled \/ (u = t /\ phase[t] \in {"opening", "running"})
    BY <1>7 DEF Abort, CancelTask, Undisturbed, Live, Body
  <2> QED BY <1>7, <2>1, <2>2 DEF Abort, Smooth
<1>8. CASE Cancel
  <2>1. \A u \in Turns : u \notin Waiting => response'[u] = response[u] /\ phase'[u] = phase[u]
    BY <1>8 DEF Cancel, Answered
  <2>2. \A u \in Turns : u \in Waiting => phase'[u] = "ended" /\ phase[u] = "queued"
    BY <1>8 DEF Cancel, QueueInv
  <2>3. \A u \in cancelled' : \/ u \in cancelled
                              \/ u = inFlight /\ u # NoTurn /\ phase[u] \in {"opening", "running"}
    BY <1>8 DEF Cancel, CancelTask, Undisturbed, Live, Body
  <2>4. inFlight' = inFlight
    BY <1>8 DEF Cancel
  <2>5. \A u \in Turns : phase[u] \in Live => phase'[u] = phase[u]
    BY <2>1, <2>2 DEF Live, Body
  <2>6. \A u \in cancelled' : u \in Turns /\ phase[u] \in {"opening", "running"}
    BY <2>3 DEF Smooth, TypeOK, Live, Body
  <2>7. \A u \in cancelled' : phase'[u] \in {"opening", "running"}
    BY <2>5, <2>6 DEF Live, Body
  <2>8. inFlight # NoTurn => phase'[inFlight] \in Body
    BY <2>5 DEF Smooth, TypeOK, Live
  <2> QED BY <2>1, <2>2, <2>4, <2>7, <2>8 DEF Smooth
<1>9. CASE UNCHANGED vars
  BY <1>9 DEF vars, Smooth
<1> QED BY <1>1, <1>2, <1>3, <1>4, <1>5, <1>6, <1>7, <1>8, <1>9, NextCases

\* The turns whose callers have their answer.
Replied == {t \in Turns : response[t] # "pending"}

\* The line of a session: the FIFO, and in front of it the scheduled turn.
LEMMA Line ==
  ASSUME FInv
  PROVE  /\ Opening = {} => FifoWaiting = queue
         /\ \A t \in Opening : Opening = {t} /\ FifoWaiting = <<t>> \o queue /\ InBody = {}
         /\ FifoWaiting \in Seq(Turns) /\ Range(FifoWaiting) = Waiting \cup Opening
<1>1. queue \in Seq(Turns) /\ Opening \subseteq Turns
  BY DEF FInv, TypeOK, Opening
<1>2. ASSUME NEW t \in Opening
      PROVE Opening = {t} /\ FifoWaiting = <<t>> \o queue /\ InBody = {}
  <2>1. Opening = {t} /\ InBody = {}
    BY DEF FInv, OneLive, Opening, InBody, Live, Body
  <2> QED BY <2>1 DEF FifoWaiting
<1>3. CASE Opening = {}
  BY <1>1, <1>3 DEF FifoWaiting, Waiting
<1>4. ASSUME NEW t \in Opening
      PROVE  FifoWaiting \in Seq(Turns) /\ Range(FifoWaiting) = Waiting \cup Opening
  <2>1. t \in Turns /\ FifoWaiting = <<t>> \o queue
    BY <1>1, <1>2
  <2>2. FifoWaiting \in Seq(Turns) /\ Range(FifoWaiting) = {t} \cup Range(queue)
    BY <1>1, <2>1, InFront
  <2> QED BY <1>2, <2>2 DEF Waiting
<1> QED BY <1>2, <1>3, <1>4

\* Answering a set of turns adds it to those that have been answered.
LEMMA RepliedGrows ==
  ASSUME TypeOK, NEW S \in SUBSET Turns, NEW a \in Answers \ {"pending"},
         response' = Answered(S, a)
  PROVE  Replied' = Replied \cup S
BY DEF TypeOK, Answered, Replied

\* A turn that comes has not been seen by the abstract queue.
LEMMA Unseen ==
  ASSUME FInv, NEW t \in Turns, phase[t] = "idle"
  PROVE  t \in Fifo!Fresh
<1>1. t \notin Waiting /\ t \notin Opening /\ t \notin InBody /\ t \notin Replied
  BY DEF FInv, QueueInv, Opening, InBody, Smooth, Replied, Body
<1>2. Range(FifoWaiting) = Waiting \cup Opening
  BY Line
<1> QED BY <1>1, <1>2 DEF Fifo!Fresh, Fifo!InLine, Fifo!Range, Range, Replied

\* The turn in front leaves the line, or all those behind it.
LEMMA WithoutFirst ==
  ASSUME FInv, NEW t \in Opening
  PROVE  Fifo!Without({t}, queue)
<1>1. /\ FifoWaiting = <<t>> \o queue /\ queue \in Seq(Turns) /\ FifoWaiting \in Seq(Turns)
      /\ Range(FifoWaiting) = Waiting \cup {t} /\ t \in Turns
  BY Line DEF FInv, TypeOK, Opening
<1>2. /\ Len(FifoWaiting) = Len(queue) + 1 /\ Len(queue) \in Nat
      /\ DOMAIN FifoWaiting = 1..(Len(queue) + 1) /\ DOMAIN queue = 1..Len(queue)
      /\ FifoWaiting[1] = t
      /\ \A i \in 1..Len(queue) : FifoWaiting[i + 1] = queue[i]
  BY <1>1, InFront, LenProperties
<1>3. \A i \in 1..Len(queue) : queue[i] # t
  <2>1. t \notin Waiting
    BY DEF FInv, QueueInv, Opening
  <2> QED BY <1>2, <2>1 DEF Waiting, Range
<1>4. queue \in Seq(Range(FifoWaiting))
  <2>1. \A i \in 1..Len(queue) : queue[i] \in Range(FifoWaiting)
    BY <1>1, <1>2 DEF Waiting, Range
  <2> QED BY <1>1, <1>2, <2>1
<1> DEFINE from == [i \in 1..Len(queue) |-> i + 1]
<1>5. from \in [1..Len(queue) -> 1..(Len(queue) + 1)]
  BY <1>2
<1>6. \A i, j \in 1..Len(queue) : i < j => from[i] < from[j]
  BY <1>2
<1>7. \A i \in 1..Len(queue) : queue[i] = FifoWaiting[from[i]]
  BY <1>2
<1>8. Range(from) = {i \in 1..(Len(queue) + 1) : FifoWaiting[i] \notin {t}}
  <2>1. \A i \in 1..(Len(queue) + 1) : FifoWaiting[i] \notin {t} <=> i # 1
    <3>1. ASSUME NEW i \in 1..(Len(queue) + 1), i # 1 PROVE FifoWaiting[i] # t
      <4>1. i - 1 \in 1..Len(queue) /\ (i - 1) + 1 = i
        BY <1>2, <3>1
      <4> QED BY <1>2, <1>3, <4>1
    <3> QED BY <1>2, <3>1
  <2>2. DOMAIN from = 1..Len(queue) /\ \A i \in 1..Len(queue) : from[i] = i + 1
    OBVIOUS
  <2> HIDE DEF from
  <2>3. \A i \in 1..Len(queue) : from[i] \in 1..(Len(queue) + 1) /\ from[i] # 1
    BY <1>2, <2>2
  <2>4. \A i \in 1..(Len(queue) + 1) : i # 1 => i - 1 \in 1..Len(queue) /\ from[i - 1] = i
    BY <1>2, <2>2
  <2>5. Range(from) = {i \in 1..(Len(queue) + 1) : i # 1}
    <3>1. Range(from) = {from[i] : i \in 1..Len(queue)}
      BY <2>2 DEF Range
    <3>2. ASSUME NEW x \in Range(from) PROVE x \in 1..(Len(queue) + 1) /\ x # 1
      <4>1. PICK i \in 1..Len(queue) : x = from[i]
        BY <3>1
      <4> QED BY <2>3, <4>1
    <3>3. ASSUME NEW x \in 1..(Len(queue) + 1), x # 1 PROVE x \in Range(from)
      <4>1. x - 1 \in 1..Len(queue) /\ from[x - 1] = x
        BY <2>4, <3>3
      <4> QED BY <3>1, <4>1
    <3> QED BY <3>2, <3>3
  <2> QED BY <2>1, <2>5
<1> HIDE DEF from
<1>9. \E f \in [DOMAIN queue -> DOMAIN FifoWaiting] :
       /\ \A i, j \in DOMAIN queue : i < j => f[i] < f[j]
       /\ \A i \in DOMAIN queue : queue[i] = FifoWaiting[f[i]]
       /\ Fifo!Range(f) = {i \in DOMAIN FifoWaiting : FifoWaiting[i] \notin {t}}
  BY <1>2, <1>5, <1>6, <1>7, <1>8 DEF Fifo!Range, Range
<1> QED BY <1>4, <1>9 DEF Fifo!Without, Fifo!InLine, Fifo!Range, Range

\* A line can lose all of its members that wait, or all but the one that
\* opens.
LEMMA WithoutRest ==
  ASSUME FInv
  PROVE  /\ Opening = {} => Fifo!Without(Waiting, <<>>)
         /\ \A t \in Opening : Fifo!Without(Waiting, <<t>>)
<1>1. queue \in Seq(Turns) /\ DOMAIN queue = 1..Len(queue) /\ Len(queue) \in Nat
  BY LenProperties DEF FInv, TypeOK
<1>2. CASE Opening = {}
  <2>1. FifoWaiting = queue
    BY <1>2, Line
  <2>2. \A i \in DOMAIN queue : queue[i] \in Waiting
    BY DEF Waiting, Range
  <2>3. ASSUME NEW line, line = <<>> PROVE Fifo!Without(Waiting, line)
    <3>1. line \in Seq(Range(FifoWaiting)) /\ DOMAIN line = {}
      BY <2>3, EmptySeq
    <3>2. [i \in {} |-> 0] \in [{} -> DOMAIN FifoWaiting] /\ Fifo!Range([i \in {} |-> 0]) = {}
      BY DEF Fifo!Range
    <3>3. {i \in DOMAIN FifoWaiting : FifoWaiting[i] \notin Waiting} = {}
      BY <2>1, <2>2
    <3>4. \E f \in [{} -> DOMAIN FifoWaiting] :
            Fifo!Range(f) = {i \in DOMAIN FifoWaiting : FifoWaiting[i] \notin Waiting}
      BY <3>2, <3>3
    <3> QED BY <3>1, <3>4 DEF Fifo!Without, Fifo!InLine, Fifo!Range, Range
  <2> QED BY <1>2, <2>3
<1>3. ASSUME NEW t \in Opening PROVE Fifo!Without(Waiting, <<t>>)
  <2>1. /\ FifoWaiting = <<t>> \o queue /\ FifoWaiting \in Seq(Turns)
        /\ Range(FifoWaiting) = Waiting \cup {t} /\ t \in Turns
    BY Line DEF Opening
  <2>2. /\ DOMAIN FifoWaiting = 1..(Len(queue) + 1) /\ FifoWaiting[1] = t
        /\ \A i \in 1..Len(queue) : FifoWaiting[i + 1] = queue[i]
    BY <1>1, <2>1, InFront, LenProperties
  <2>3. t \notin Waiting
    BY DEF FInv, QueueInv, Opening
  <2>4. \A i \in 1..(Len(queue) + 1) : FifoWaiting[i] \notin Waiting <=> i = 1
    <3>1. ASSUME NEW i \in 1..(Len(queue) + 1), i # 1 PROVE FifoWaiting[i] \in Waiting
      <4>1. i - 1 \in 1..Len(queue) /\ (i - 1) + 1 = i
        BY <1>1, <3>1
      <4>2. FifoWaiting[i] = queue[i - 1]
        BY <2>2, <4>1
      <4> QED BY <1>1, <4>1, <4>2 DEF Waiting, Range
    <3> QED BY <2>2, <2>3, <3>1
  <2>5. <<t>> \in Seq(Range(FifoWaiting)) /\ DOMAIN <<t>> = {1} /\ <<t>>[1] = t
    BY <2>1
  <2> DEFINE from == [i \in {1} |-> 1]
  <2>6. from \in [{1} -> 1..(Len(queue) + 1)] /\ from[1] = 1 /\ Range(from) = {1}
    BY <1>1 DEF Range
  <2> HIDE DEF from
  <2>7. {i \in 1..(Len(queue) + 1) : FifoWaiting[i] \notin Waiting} = {1}
    BY <1>1, <2>4
  <2>8. /\ \A i, j \in {1} : i < j => from[i] < from[j]
        /\ \A i \in {1} : <<t>>[i] = FifoWaiting[from[i]]
    BY <2>2, <2>5, <2>6
  <2> QED BY <2>2, <2>5, <2>6, <2>7, <2>8 DEF Fifo!Without, Fifo!InLine, Fifo!Range, Range
<1> QED BY <1>2, <1>3

-----------------------------------------------------------------------------
(* Every step is one of the abstract queue or none                         *)

\* A turn that arrives is submitted to the abstract line or refused by it.
LEMMA ArrivalsRefine ==
  ASSUME FInv, NEW t \in Turns,
         \/ t \in Prompts /\ (PromptRunsInline(t) \/ PromptRefused(t))
         \/ MayArrive(t) /\ EnqueueTurn(t)
  PROVE  Undisturbed => Fifo!Submit(t) \/ Fifo!Refuse(t)
<1> SUFFICES ASSUME Undisturbed PROVE Fifo!Submit(t) \/ Fifo!Refuse(t)
  OBVIOUS
<1>1. phase[t] = "idle" /\ Opening = {} /\ FifoWaiting = queue /\ t \in Fifo!Fresh
  BY Unseen, Line DEF PromptRunsInline, PromptRefused, MayArrive, Undisturbed
<1>2. phase \in [Turns -> Phases] /\ queue \in Seq(Turns)
  BY DEF FInv, TypeOK
<1>3. CASE PromptRunsInline(t)
  <2>1. Opening' = {t} /\ InBody' = InBody
    BY <1>1, <1>2, <1>3 DEF PromptRunsInline, Opening, InBody, Body
  <2>2. FifoWaiting' = <<t>> \o queue /\ queue = <<>>
    BY <1>3, <2>1 DEF FifoWaiting, PromptRunsInline
  <2>3. FifoWaiting' = Append(FifoWaiting, t)
    BY <1>1, <2>2
  <2> QED BY <1>1, <1>3, <2>1, <2>3 DEF Fifo!Submit, PromptRunsInline
<1>4. CASE PromptRefused(t)
  <2>1. Opening' = {} /\ InBody' = InBody
    BY <1>1, <1>2, <1>4 DEF PromptRefused, Opening, InBody, Body
  <2>2. FifoWaiting' = FifoWaiting
    BY <1>1, <1>4, <2>1 DEF FifoWaiting, PromptRefused
  <2>3. Replied' = Replied \cup {t}
    BY <1>4, RepliedGrows DEF FInv, PromptRefused, Answers
  <2> QED BY <1>1, <2>1, <2>2, <2>3 DEF Fifo!Refuse, Replied
<1>5. CASE MayArrive(t) /\ EnqueueTurn(t)
  <2> DEFINE q == Append(queue, t)
             ph == [phase EXCEPT ![t] = "queued"]
  <2>1. /\ q \in Seq(Turns) /\ q # <<>> /\ Range(q) = Waiting \cup {t} /\ UNCHANGED response
        /\ \/ inFlight = NoTurn /\ queue' = Rest(q) /\ phase' = DispatchHead(ph, q)
           \/ queue' = q /\ phase' = ph
    BY <1>2, <1>5, AppendToFifo DEF EnqueueTurn, Waiting
  <2>2. \A u \in Turns : ph[u] = IF u = t THEN "queued" ELSE phase[u]
    BY <1>2
  <2>3. ph \in [Turns -> Phases]
    BY <1>2 DEF Phases
  <2>4. /\ \A u \in Turns : ph[u] # "opening"
        /\ \A u \in Turns : ph[u] \in Body <=> phase[u] \in Body
        /\ \A u \in Range(q) : u \in Turns /\ ph[u] = "queued"
    BY <1>1, <1>2, <2>1, <2>2, FifoElements DEF Opening, FInv, QueueInv, Body
  <2>5. FifoWaiting' = q /\ InBody' = InBody
    <3> HIDE DEF q, ph
    <3>1. CASE queue' = q /\ phase' = ph
      <4>1. Opening' = {} /\ InBody' = InBody
        BY <2>4, <3>1 DEF Opening, InBody
      <4> QED BY <3>1, <4>1 DEF FifoWaiting
    <3>2. CASE queue' = Rest(q) /\ phase' = DispatchHead(ph, q)
      <4>1. Head(q) \in Turns /\ Head(q) \in Range(q) /\ queue' = Tail(q)
            /\ phase' = [ph EXCEPT ![Head(q)] = "opening"]
        BY <2>1, <3>2, TailOfFifo DEF Rest, DispatchHead
      <4>2. Opening' = {Head(q)} /\ InBody' = InBody
        BY <2>3, <2>4, <4>1 DEF Opening, InBody, Body
      <4>3. FifoWaiting' = <<Head(q)>> \o Tail(q)
        BY <4>1, <4>2 DEF FifoWaiting
      <4> QED BY <2>1, <4>2, <4>3, HeadInFront
    <3> QED BY <2>1, <3>1, <3>2
  <2> QED BY <1>1, <2>1, <2>5 DEF Fifo!Submit
<1> QED BY <1>3, <1>4, <1>5

\* A turn begins when in_flight_turn shows it; its other steps are its own.
LEMMA AdvanceRefines ==
  ASSUME FInv, NEW t \in Turns, Advance(t)
  PROVE  Fifo!Begin \/ UNCHANGED <<FifoWaiting, InBody, Replied>>
<1>1. PICK ph \in Body : phase' = [phase EXCEPT ![t] = ph]
  BY AdvanceEnters
<1>2. UNCHANGED <<queue, response>> /\ phase \in [Turns -> Phases] /\ queue \in Seq(Turns)
  BY AdvanceEnters DEF FInv, TypeOK
<1>3. CASE Open(t)
  <2>1. t \in Opening
    BY <1>3 DEF Open, Opening
  <2>2. Opening = {t} /\ FifoWaiting = <<t>> \o queue /\ InBody = {}
    BY <2>1, Line
  <2>3. Opening' = {} /\ InBody' = {t}
    BY <1>1, <1>2, <2>2 DEF Opening, InBody, Body
  <2>4. FifoWaiting' = queue
    BY <1>2, <2>3 DEF FifoWaiting
  <2>5. FifoWaiting # <<>> /\ Head(FifoWaiting) = t /\ Tail(FifoWaiting) = queue
    BY <1>2, <2>2, InFront
  <2> QED BY <1>2, <2>2, <2>3, <2>4, <2>5 DEF Fifo!Begin
<1>4. CASE ~Open(t)
  <2>1. phase[t] \in Body
    BY <1>4 DEF Advance, Start, StreamEnds, StreamCancelled, CancelRecorded,
       StreamRaises, HandlerInterrupted, Body
  <2>2. Opening' = Opening /\ InBody' = InBody
    BY <1>1, <1>2, <2>1 DEF Opening, InBody, Body
  <2> QED BY <1>2, <2>2 DEF FifoWaiting, Replied
<1> QED BY <1>3, <1>4

\* The turn that ends leaves the line as it is: its head is scheduled.
LEMMA CloseRefines ==
  ASSUME FInv, NEW t \in Turns, Close(t)
  PROVE  Fifo!Finish(t)
<1>1. phase[t] = "closing" /\ phase \in [Turns -> Phases] /\ queue \in Seq(Turns)
  BY DEF FInv, TypeOK, Close
<1>2. InBody = {t} /\ Opening = {} /\ FifoWaiting = queue
  <2>1. InBody = {t} /\ Opening = {}
    BY <1>1 DEF FInv, OneLive, InBody, Opening, Live, Body
  <2> QED BY <2>1, Line
<1>3. Replied' = Replied \cup {t}
  BY OutcomeFacts, RepliedGrows DEF Close, FInv, TypeOK
<1> DEFINE ph == [phase EXCEPT ![t] = "ended"]
<1>4. queue' = Rest(queue) /\ phase' = DispatchHead(ph, queue)
  BY DEF Close
<1>5. /\ ph \in [Turns -> Phases]
      /\ \A u \in Turns : ph[u] # "opening" /\ ph[u] \notin Body
  BY <1>1, <1>2 DEF Phases, Opening, InBody, Body
<1> HIDE DEF ph
<1>6. FifoWaiting' = queue /\ InBody' = {}
  <2>1. CASE queue = <<>>
    <3>1. phase' = ph /\ queue' = queue
      BY <1>4, <2>1 DEF Rest, DispatchHead
    <3>2. Opening' = {} /\ InBody' = {}
      BY <1>5, <3>1 DEF Opening, InBody
    <3> QED BY <3>1, <3>2 DEF FifoWaiting
  <2>2. CASE queue # <<>>
    <3>1. Head(queue) \in Turns /\ queue' = Tail(queue)
          /\ phase' = [ph EXCEPT ![Head(queue)] = "opening"]
      BY <1>1, <1>4, <2>2, TailOfFifo DEF Rest, DispatchHead
    <3>2. Opening' = {Head(queue)} /\ InBody' = {}
      BY <1>5, <3>1 DEF Opening, InBody, Body
    <3>3. FifoWaiting' = <<Head(queue)>> \o Tail(queue)
      BY <3>1, <3>2 DEF FifoWaiting
    <3> QED BY <1>1, <2>2, <3>2, <3>3, HeadInFront
  <2> QED BY <2>1, <2>2
<1> QED BY <1>2, <1>3, <1>6 DEF Fifo!Finish, Replied

\* Only an inline turn dies, whose request is cancelled before in_flight_turn
\* shows it: it leaves the front of the line.
LEMMA DeathRefines ==
  ASSUME Undisturbed, FInv, NEW t \in Turns, CancelEscapes(t) \/ WriteFails(t)
  PROVE  Fifo!Drop({t})
<1>1. phase[t] = "opening" /\ Die(t, "escaped")
  BY DEF CancelEscapes, WriteFails, Disturb, Undisturbed, FInv, Smooth
<1>2. t \in Opening /\ phase \in [Turns -> Phases]
  BY <1>1 DEF Opening, FInv, TypeOK
<1>3. Opening = {t} /\ InBody = {} /\ Range(FifoWaiting) = Waiting \cup Opening
  BY <1>2, Line
<1>4. Opening' = {} /\ InBody' = {}
  BY <1>1, <1>2, <1>3 DEF Die, Opening, InBody, Body
<1>5. FifoWaiting' = queue
  BY <1>1, <1>4 DEF FifoWaiting, Die
<1>6. Replied' = Replied \cup {t}
  BY <1>1, OutcomeFacts, RepliedGrows DEF Die, FInv, StopReasons
<1>7. Fifo!Without({t}, queue)
  BY <1>2, WithoutFirst
<1> QED BY <1>3, <1>4, <1>5, <1>6, <1>7
        DEF Fifo!Drop, Fifo!InLine, Fifo!Range, Range, Replied

\* The task that awaits an answer dies; the turn keeps its place.
LEMMA AbortRefines ==
  ASSUME FInv, NEW t \in Turns, Abort(t)
  PROVE  Fifo!GiveUp(t) \/ UNCHANGED <<FifoWaiting, InBody, Replied>>
<1>1. UNCHANGED <<FifoWaiting, InBody>>
  BY DEF Abort, FifoWaiting, Opening, InBody
<1>2. CASE UNCHANGED response
  BY <1>1, <1>2 DEF Replied
<1>3. CASE response[t] = "pending" /\ response' = Answered({t}, "aborted")
  <2>1. Replied' = Replied \cup {t}
    BY <1>3, RepliedGrows DEF FInv, Answers
  <2>2. phase[t] \in Live \cup {"queued"}
    BY <1>3 DEF Abort, FInv, EndedAnswered, TypeOK, Phases
  <2>3. t \in Waiting \/ t \in Opening \/ t \in InBody
    BY <2>2 DEF FInv, QueueInv, Opening, InBody, Live
  <2>4. Range(FifoWaiting) = Waiting \cup Opening
    BY Line
  <2> QED BY <1>1, <2>1, <2>3, <2>4 DEF Fifo!GiveUp, Fifo!InLine, Fifo!Range, Range, Replied
<1> QED BY <1>2, <1>3 DEF Abort

\* session/cancel empties the FIFO; the scheduled turn stays first in line.
LEMMA CancelRefines ==
  ASSUME FInv, Cancel
  PROVE  \E S \in SUBSET Fifo!InLine : Fifo!Drop(S)
<1>1. Waiting \subseteq Turns
  BY FifoElements DEF FInv, TypeOK, Waiting
<1>2. Replied' = Replied \cup Waiting
  BY <1>1, RepliedGrows DEF Cancel, FInv, Answers
<1>3. \A u \in Turns : u \in Waiting => phase[u] = "queued" /\ phase'[u] = "ended"
  BY DEF Cancel, FInv, QueueInv
<1>4. \A u \in Turns : u \notin Waiting => phase'[u] = phase[u]
  BY DEF Cancel
<1>5. Opening' = Opening /\ InBody' = InBody
  BY <1>3, <1>4 DEF Opening, InBody, Body
<1>6. Range(FifoWaiting) = Waiting \cup Opening
  BY Line
<1>7. Fifo!Without(Waiting, FifoWaiting')
  <2>1. CASE Opening = {}
    <3>1. FifoWaiting' = <<>>
      BY <1>5, <2>1 DEF FifoWaiting, Cancel
    <3> QED BY <2>1, <3>1, WithoutRest
  <2>2. ASSUME NEW t \in Opening PROVE Fifo!Without(Waiting, FifoWaiting')
    <3>1. Opening' = {t} /\ t \in Turns
      BY <1>5, Line DEF Opening
    <3>2. FifoWaiting' = <<t>> \o <<>>
      BY <3>1 DEF FifoWaiting, Cancel
    <3>3. FifoWaiting' = <<t>>
      BY <3>2
    <3> QED BY <3>3, WithoutRest
  <2> QED BY <2>1, <2>2
<1>8. PICK S \in SUBSET Turns : S = Waiting
  BY <1>1
<1>9. S \in SUBSET Fifo!InLine /\ Fifo!Drop(S)
  BY <1>2, <1>5, <1>6, <1>7, <1>8 DEF Fifo!Drop, Fifo!InLine, Fifo!Range, Range, Replied
<1> QED BY <1>9

\* The abstract line is empty at first.
LEMMA InitRefines == Init => Fifo!Init
<1> SUFFICES ASSUME Init PROVE Fifo!Init
  OBVIOUS
<1>1. queue = <<>> /\ \A t \in Turns : phase[t] = "idle" /\ response[t] = "pending"
  BY DEF Init
<1>2. Opening = {} /\ InBody = {} /\ Replied = {}
  BY <1>1 DEF Opening, InBody, Replied, Body
<1> QED BY <1>1, <1>2 DEF Fifo!Init, FifoWaiting, Replied

\* Every undisturbed step is one of the abstract line or leaves it alone.
LEMMA StepRefines ==
  ASSUME Undisturbed, FInv, [Next]_vars
  PROVE  [Fifo!Next]_(Fifo!fifoVars)
<1>1. CASE \E t \in Prompts : PromptRunsInline(t) \/ PromptRefused(t)
  BY <1>1, ArrivalsRefine DEF Fifo!Next, Turns
<1>2. CASE \E t \in Turns : MayArrive(t) /\ EnqueueTurn(t)
  BY <1>2, ArrivalsRefine DEF Fifo!Next
<1>3. CASE \E t \in Turns : Advance(t) \/ Abort(t)
  BY <1>3, AdvanceRefines, AbortRefines DEF Fifo!Next, Fifo!fifoVars, Replied
<1>4. CASE \E t \in Turns : Close(t)
  BY <1>4, CloseRefines DEF Fifo!Next
<1>5. CASE \E t \in Turns : CancelEscapes(t) \/ WriteFails(t)
  <2>1. PICK t \in Turns : Fifo!Drop({t})
    BY <1>5, DeathRefines
  <2>2. {t} \in SUBSET Fifo!InLine
    BY <2>1 DEF Fifo!Drop
  <2> QED BY <2>1, <2>2 DEF Fifo!Next
<1>6. CASE Cancel
  BY <1>6, CancelRefines DEF Fifo!Next
<1>7. CASE UNCHANGED vars
  BY <1>7 DEF vars, Fifo!fifoVars, FifoWaiting, Opening, InBody
<1> QED BY <1>1, <1>2, <1>3, <1>4, <1>5, <1>6, <1>7, NextCases DEF FInv

\* Where no turn arrives while another is opening, none is cancelled outside
\* the runner's try and every event is written, the queue is the abstract one:
\* turns run one at a time in the order they came, a turn that is dropped
\* leaves the others in their order, and each is answered when it ends, is
\* refused or is dropped.
THEOREM QueueIsFifo ==
  ASSUME {"overlap", "bracket", "dbfail"} \cap Disturbances = {}
  PROVE  Spec => ImplementsFifo
<1>1. Init => FInv
  BY InitType, InitQueue, InitOneLive, InitSmooth DEF FInv
<1>2. FInv /\ [Next]_vars => FInv'
  <2> SUFFICES ASSUME FInv, [Next]_vars PROVE FInv'
    OBVIOUS
  <2>1. Smooth'
    BY StepSmooth DEF Undisturbed
  <2> QED BY <2>1, StepType, StepQueue, StepOneLive DEF FInv
<1>3. FInv /\ [Next]_vars => [Fifo!Next]_(Fifo!fifoVars)
  BY StepRefines DEF Undisturbed
<1> QED BY <1>1, <1>2, <1>3, InitRefines, PTL DEF Spec, ImplementsFifo, Fifo!Spec

-----------------------------------------------------------------------------
(* The objects of a session                                                *)
(*                                                                         *)
(* SessionTurns has one object, which runs the turns of its session; from  *)
(* here on it is about the objects that stand for the session as it is     *)
(* loaded, evicted and deleted.  The two modules share no variable.        *)

\* A step is as many races as it is kinds of race, and no race if it is none.
LEMMA RacesCounted ==
  \A rs \in SUBSET AllRaces : Cardinality(rs) \in Nat /\ (Cardinality(rs) = 0 => rs = {})
<1>1. IsFiniteSet(AllRaces)
  <2>1. AllRaces = {"coload"} \cup {"slowclose"} \cup {"opening"} \cup {"force"}
    BY DEF AllRaces
  <2>2. /\ IsFiniteSet({"coload"}) /\ IsFiniteSet({"slowclose"})
        /\ IsFiniteSet({"opening"}) /\ IsFiniteSet({"force"})
    BY FS_Singleton
  <2>3. IsFiniteSet({"coload"} \cup {"slowclose"})
    BY <2>2, FS_Union
  <2>4. IsFiniteSet({"coload"} \cup {"slowclose"} \cup {"opening"})
    BY <2>2, <2>3, FS_Union
  <2> QED BY <2>1, <2>2, <2>4, FS_Union
<1>2. ASSUME NEW rs \in SUBSET AllRaces
      PROVE  IsFiniteSet(rs)
  BY <1>1, FS_Subset
<1> QED BY <1>2, FS_CardinalityType, FS_EmptySet

\* What Races says of the number of races: it grows within its bound, and by
\* nothing only if there was no race.
RacesMove == races' \in 0..MaxRaces /\ races <= races'

\* Every race is counted.
LEMMA RacesGrow ==
  ASSUME ResidencyTypeOK
  PROVE  \A rs : Races(rs) => RacesMove /\ (races' = races => rs = {})
<1> SUFFICES ASSUME NEW rs, Races(rs)
             PROVE  RacesMove /\ (races' = races => rs = {})
  OBVIOUS
<1>1. rs \in SUBSET AllRaces
  BY ResidencyAssumption DEF Races
<1>2. Cardinality(rs) \in Nat /\ (Cardinality(rs) = 0 => rs = {})
  BY <1>1, RacesCounted
<1>3. races \in Nat /\ MaxRaces \in Nat
  BY ResidencyAssumption DEF ResidencyTypeOK
<1> QED BY <1>2, <1>3 DEF Races, RacesMove

-----------------------------------------------------------------------------
\* A race that a step would be is among its races.
LEMMA RacesIn ==
  AllRaces = {"coload", "slowclose", "opening", "force"}
  /\ \A c, r : (c => r \in When(c, r)) /\ (When(c, r) = {} => ~c)
BY DEF AllRaces, When

\* The variables that a caller's use of an object may change.
Handled ==
  /\ pc \in [Loaders -> {"out", "checking", "reading", "in"}]
  /\ senders \in [Objects -> SUBSET Clients]
  /\ flight \in [Objects -> {"idle", "opening", "inflight"}]
  /\ waiting \in [Objects -> 0..MaxWaiting]
  /\ parked \subseteq Objects

\* Binding, prompting and renaming keep the domains.
LEMMA UseTyped ==
  ASSUME ResidencyTypeOK
  PROVE  \A l \in Loaders, o \in Objects : Use(l, o) => Handled'
<1> SUFFICES ASSUME NEW l \in Loaders, NEW o \in Objects, Use(l, o)
             PROVE  Handled'
  OBVIOUS
<1>1. CASE l \in Clients /\ Bind(l, o)
  BY <1>1 DEF Bind, ResidencyTypeOK, Handled, Loaders
<1>2. CASE l \in Gateways /\ Prompted(o) /\ pc' = [pc EXCEPT ![l] = "out"]
  BY <1>2, ResidencyAssumption DEF Prompted, ResidencyTypeOK, Handled
<1>3. CASE /\ l \in Editors
           /\ pc' = [pc EXCEPT ![l] = "out"]
           /\ parked' = IF o = current THEN parked ELSE parked \cup {o}
           /\ UNCHANGED <<senders, flight, waiting>>
  BY <1>3 DEF ResidencyTypeOK, Handled
<1> QED BY <1>1, <1>2, <1>3 DEF Use

\* What an eviction may change.
LEMMA EvictTyped ==
  ASSUME ResidencyTypeOK
  PROVE  \A o \in Objects : \A conns : MaybeEvict(o, conns) =>
           /\ current' \in {current, None}
           /\ closing' \in [Objects -> 0..MaxDue]
           /\ RacesMove
<1> SUFFICES ASSUME NEW o \in Objects, NEW conns, MaybeEvict(o, conns)
             PROVE  /\ current' \in {current, None}
                    /\ closing' \in [Objects -> 0..MaxDue]
                    /\ RacesMove
  OBVIOUS
<1>1. CASE UNCHANGED <<current, closing, races>>
  BY <1>1, ResidencyAssumption DEF ResidencyTypeOK, RacesMove
<1>2. CASE /\ Races(When(flight[o] = "opening", "opening"))
           /\ o \in shells => closing[o] < MaxDue
           /\ current' = IF o \in shells THEN current ELSE None
           /\ closing' = IF o \in shells THEN [closing EXCEPT ![o] = @ + 1] ELSE closing
  <2>1. RacesMove
    BY <1>2, RacesGrow
  <2>2. closing' \in [Objects -> 0..MaxDue]
    BY <1>2, ResidencyAssumption DEF ResidencyTypeOK
  <2> QED BY <1>2, <2>1, <2>2
<1> QED BY <1>1, <1>2 DEF MaybeEvict

\* The kernel starts without objects.
LEMMA InitHome == ResidencyInit => ResidencyTypeOK
BY ResidencyAssumption DEF ResidencyInit, ResidencyTypeOK, Objects, None, Loaders

\* Loads, turns, evictions and deletions keep the domains.
LEMMA StepTyped ==
  ASSUME ResidencyTypeOK, [ResidencyNext]_residencyVars
  PROVE  ResidencyTypeOK'
<1> USE DEF RacesMove
<1>a. /\ MaxObjects \in Nat \ {0} /\ MaxWaiting \in Nat /\ MaxDue \in Nat \ {0}
      /\ MaxRaces \in Nat
  BY ResidencyAssumption
<1>b. RacesMove => races' \in 0..MaxRaces
  OBVIOUS
<1>1. ASSUME NEW l \in Loaders, LoadBegins(l)
      PROVE  ResidencyTypeOK'
  BY <1>1, RacesGrow DEF LoadBegins, ResidencyTypeOK
<1>2. ASSUME NEW l \in Loaders, LoadFindsResident(l)
      PROVE  ResidencyTypeOK'
  <2>1. current \in Objects /\ Use(l, current)
    BY <1>2 DEF LoadFindsResident, ResidencyTypeOK
  <2>2. Handled'
    BY <2>1, UseTyped
  <2> QED BY <1>2, <2>2 DEF LoadFindsResident, ResidencyTypeOK, Handled
<1>3. ASSUME NEW l \in Loaders, RecordRead(l)
      PROVE  ResidencyTypeOK'
  <2>1. Handled'
    <3>1. CASE /\ UNCHANGED <<senders, flight, waiting, parked>>
               /\ pc' \in {[pc EXCEPT ![l] = "out"], [pc EXCEPT ![l] = "reading"]}
      BY <3>1 DEF ResidencyTypeOK, Handled
    <3>2. CASE current # None /\ Use(l, current)
      <4>1. current \in Objects
        BY <3>2 DEF ResidencyTypeOK
      <4> QED BY <3>2, <4>1, UseTyped
    <3> QED BY <1>3, <3>1, <3>2 DEF RecordRead
  <2> QED BY <1>3, <2>1 DEF RecordRead, ResidencyTypeOK, Handled
<1>4. ASSUME NEW l \in Loaders, ObjectBuilt(l)
      PROVE  ResidencyTypeOK'
  <2>1. PICK o \in Objects : o = made + 1
    BY <1>4, <1>a DEF ObjectBuilt, ResidencyTypeOK, Objects
  <2>2. /\ made' = o /\ current' = o /\ Use(l, made')
        /\ UNCHANGED <<stored, shells, due, closing, deleting, races>>
    BY <1>4, <2>1 DEF ObjectBuilt
  <2>3. Use(l, o)
    BY <2>2
  <2>4. Handled'
    BY <2>3, UseTyped
  <2>5. o \in 0..MaxObjects
    BY <1>a DEF Objects
  <2> QED BY <2>2, <2>4, <2>5 DEF ResidencyTypeOK, Handled
<1>5. CASE Prompt
  BY <1>5, <1>a DEF Prompt, Prompted, ResidencyTypeOK
<1>6. ASSUME NEW o \in Objects,
             TurnShows(o) \/ ShellStarts(o) \/ ShellExits(o)
      PROVE  ResidencyTypeOK'
  BY <1>6, RacesGrow DEF TurnShows, ShellStarts, ShellExits, ResidencyTypeOK
<1>7. ASSUME NEW o \in Objects, TurnEnds(o)
      PROVE  ResidencyTypeOK'
  <2>1. /\ flight' \in [Objects -> {"idle", "opening", "inflight"}]
        /\ waiting' \in [Objects -> 0..MaxWaiting]
        /\ due' \in [Objects -> 0..MaxDue]
    BY <1>7, <1>a DEF TurnEnds, MoreDue, ResidencyTypeOK
  <2> QED BY <1>7, <2>1 DEF TurnEnds, ResidencyTypeOK
<1>8. CASE CancelSession
  <2>1. PICK o \in Objects : o = current
    BY <1>8 DEF CancelSession, ResidencyTypeOK
  <2>2. /\ waiting' \in [Objects -> 0..MaxWaiting]
        /\ due' \in [Objects -> 0..MaxDue]
    BY <1>8, <1>a, <2>1 DEF CancelSession, MoreDue, ResidencyTypeOK
  <2> QED BY <1>8, <2>2 DEF CancelSession, ResidencyTypeOK
<1>9. ASSUME NEW o \in Objects, EvictRuns(o)
      PROVE  ResidencyTypeOK'
  <2>1. /\ current' \in {current, None}
        /\ closing' \in [Objects -> 0..MaxDue]
        /\ RacesMove
    BY <1>9, EvictTyped DEF EvictRuns
  <2>2. due' \in [Objects -> 0..MaxDue]
    BY <1>9, <1>a DEF EvictRuns, ResidencyTypeOK
  <2> QED BY <1>9, <2>1, <2>2 DEF EvictRuns, ResidencyTypeOK
<1>10. ASSUME NEW o \in Objects, EvictPops(o)
       PROVE  ResidencyTypeOK'
  <2>1. closing' \in [Objects -> 0..MaxDue]
    BY <1>10, <1>a DEF EvictPops, ResidencyTypeOK
  <2> QED BY <1>10, <2>1 DEF EvictPops, ResidencyTypeOK
<1>11. ASSUME NEW c \in Clients, Disconnect(c)
       PROVE  ResidencyTypeOK'
  <2>1. /\ pc' \in [Loaders -> {"out", "checking", "reading", "in"}]
        /\ UNCHANGED <<stored, made, flight, waiting, shells, due, parked, deleting>>
    BY <1>11 DEF Disconnect, ResidencyTypeOK
  <2>2. CASE current # None /\ senders' = [senders EXCEPT ![current] = @ \ {c}]
             /\ MaybeEvict(current, senders[current] \ {c})
    <3>1. PICK o \in Objects : o = current
      BY <2>2 DEF ResidencyTypeOK
    <3>2. MaybeEvict(o, senders[o] \ {c})
      BY <2>2, <3>1
    <3>3. /\ current' \in {current, None}
          /\ closing' \in [Objects -> 0..MaxDue]
          /\ RacesMove
      BY <3>2, EvictTyped
    <3>4. senders' \in [Objects -> SUBSET Clients]
      BY <2>2, <3>1 DEF ResidencyTypeOK
    <3> QED BY <2>1, <3>3, <3>4 DEF ResidencyTypeOK
  <2>3. CASE UNCHANGED <<senders, current, closing, races>>
    BY <2>1, <2>3 DEF ResidencyTypeOK
  <2> QED BY <1>11, <2>2, <2>3 DEF Disconnect
<1>12. CASE DeleteBegins
  <2>1. RacesMove
    BY <1>12, RacesGrow DEF DeleteBegins
  <2> QED BY <1>12, <2>1 DEF DeleteBegins, ResidencyTypeOK
<1>13. CASE DeletePops \/ DeleteErases
  BY <1>13 DEF DeletePops, DeleteErases, ResidencyTypeOK
<1>14. CASE UNCHANGED residencyVars
  BY <1>14 DEF residencyVars, ResidencyTypeOK
<1> QED BY <1>1, <1>2, <1>3, <1>4, <1>5, <1>6, <1>7, <1>8, <1>9, <1>10, <1>11, <1>12, <1>13,
           <1>14 DEF ResidencyNext

-----------------------------------------------------------------------------
\* What keeps an object in memory.  A deletion is no reason of its own: it
\* finds one, and takes the session out of the map before the row is erased.
Reason(o) ==
  senders[o] # {} \/ flight[o] # "idle" \/ due[o] > 0 \/ closing[o] > 0 \/ o \in parked

\* The object in the map has a reason to be there.
Kept == current # None => Reason(current)

\* The object in the map is none that is yet to be built.
Newest == current <= made

\* Turns wait only behind a turn.
Behind == \A o \in Objects : waiting[o] > 0 => flight[o] # "idle"

Stays == ResidencyTypeOK /\ Newest /\ Kept /\ Behind

\* Nothing is in the map at first.
LEMMA InitStays == ResidencyInit => Stays
BY InitHome DEF Stays, ResidencyInit, Newest, Kept, Behind, None

\* Nothing that ends or drops turns leaves one waiting behind none.
LEMMA StepBehind ==
  ASSUME ResidencyTypeOK, Behind, [ResidencyNext]_residencyVars
  PROVE  Behind'
<1>a. \A o \in Objects : waiting[o] \in Nat
  BY ResidencyAssumption DEF ResidencyTypeOK
<1>1. ASSUME NEW l, NEW o, Use(l, o)
      PROVE  Behind'
  BY <1>1, <1>a DEF Use, Bind, Prompted, Behind, ResidencyTypeOK
<1>2. CASE UNCHANGED <<flight, waiting>>
  BY <1>2 DEF Behind
<1>3. ASSUME NEW l \in Loaders, LoadFindsResident(l) \/ RecordRead(l)
      PROVE  Behind'
  BY <1>1, <1>2, <1>3 DEF LoadFindsResident, RecordRead
<1>4. ASSUME NEW l \in Loaders, ObjectBuilt(l)
      PROVE  Behind'
  <2>1. PICK o : o = made'
    OBVIOUS
  <2> QED BY <2>1, <1>1, <1>4 DEF ObjectBuilt
<1>5. CASE Prompt
  BY <1>5, <1>a DEF Prompt, Prompted, Behind, ResidencyTypeOK
<1>6. ASSUME NEW o \in Objects, TurnShows(o) \/ TurnEnds(o)
      PROVE  Behind'
  BY <1>6, <1>a DEF TurnShows, TurnEnds, Behind, ResidencyTypeOK
<1>7. CASE CancelSession
  BY <1>7 DEF CancelSession, Behind, ResidencyTypeOK
<1>8. ASSUME NEW l \in Loaders, LoadBegins(l)
      PROVE  Behind'
  BY <1>2, <1>8 DEF LoadBegins
<1>9. ASSUME NEW o \in Objects,
             \/ ShellStarts(o) \/ ShellExits(o)
             \/ EvictRuns(o) \/ EvictPops(o)
      PROVE  Behind'
  BY <1>2, <1>9 DEF ShellStarts, ShellExits, EvictRuns, EvictPops
<1>10. ASSUME NEW c \in Clients, Disconnect(c)
       PROVE  Behind'
  BY <1>2, <1>10 DEF Disconnect
<1>11. CASE DeleteBegins \/ DeletePops \/ DeleteErases \/ UNCHANGED residencyVars
  BY <1>2, <1>11 DEF DeleteBegins, DeletePops, DeleteErases, residencyVars
<1> QED BY <1>3, <1>4, <1>5, <1>6, <1>7, <1>8, <1>9, <1>10, <1>11 DEF ResidencyNext

\* Whatever takes away an object's last reason schedules its eviction or is
\* one, and a new object gets its reason in the step that puts it in the map.
LEMMA StepStays ==
  ASSUME Stays, [ResidencyNext]_residencyVars
  PROVE  Stays'
<1>a. ResidencyTypeOK /\ Newest /\ Kept /\ Behind /\ ResidencyTypeOK' /\ Behind'
  BY StepTyped, StepBehind DEF Stays
<1>b. current \in Nat /\ made \in Nat /\ None = 0 /\ None \notin Objects
  BY <1>a, ResidencyAssumption DEF ResidencyTypeOK, Objects, None
<1>c. Objects \subseteq Nat
  BY DEF Objects
<1> SUFFICES Newest' /\ Kept'
  BY <1>a DEF Stays
<1>1. ASSUME NEW l \in Loaders, LoadBegins(l)
      PROVE  Newest' /\ Kept'
  BY <1>1, <1>a DEF LoadBegins, Newest, Kept, Reason
<1>u. ASSUME NEW l \in Loaders, current # None, Use(l, current),
             UNCHANGED <<current, made, due, closing>>
      PROVE  Newest' /\ Kept'
  <2>1. PICK o \in Objects : o = current
    BY <1>u, <1>a DEF ResidencyTypeOK
  <2>2. Use(l, o) /\ Reason(o)
    BY <1>u, <1>a, <2>1 DEF Kept
  <2>3. Reason(o)'
    <3>1. CASE l \in Clients /\ Bind(l, o)
      BY <3>1, <1>a DEF Bind, Reason, ResidencyTypeOK
    <3>2. CASE Prompted(o)
      BY <3>2, <1>a DEF Prompted, Reason, ResidencyTypeOK
    <3>3. CASE parked' = parked /\ UNCHANGED <<senders, flight, waiting>>
      BY <3>3, <2>2, <1>u DEF Reason
    <3> QED BY <2>1, <2>2, <3>1, <3>2, <3>3 DEF Use
  <2> QED BY <2>1, <2>3, <1>u, <1>a DEF Newest, Kept, Reason
<1>2. ASSUME NEW l \in Loaders, LoadFindsResident(l)
      PROVE  Newest' /\ Kept'
  BY <1>2, <1>u DEF LoadFindsResident
<1>3. ASSUME NEW l \in Loaders, RecordRead(l)
      PROVE  Newest' /\ Kept'
  <2>1. UNCHANGED <<current, made, due, closing>>
    BY <1>3 DEF RecordRead
  <2>2. CASE UNCHANGED <<senders, flight, waiting, parked>>
    BY <2>1, <2>2, <1>a DEF Newest, Kept, Reason
  <2>3. CASE current # None /\ Use(l, current)
    BY <2>1, <2>3, <1>u
  <2> QED BY <1>3, <2>2, <2>3 DEF RecordRead
<1>4. ASSUME NEW l \in Loaders, ObjectBuilt(l)
      PROVE  Newest' /\ Kept'
  <2>1. PICK o \in Objects : o = made + 1
    BY <1>4, <1>a, ResidencyAssumption DEF ObjectBuilt, ResidencyTypeOK, Objects
  <2>2. /\ made' = o /\ current' = o /\ Use(l, made')
        /\ UNCHANGED <<stored, shells, due, closing, deleting, races>>
    BY <1>4, <2>1 DEF ObjectBuilt
  <2>3. Use(l, o) /\ o # current
    BY <2>1, <2>2, <1>a, <1>b DEF Newest
  <2>4. Reason(o)'
    <3>1. CASE l \in Clients /\ Bind(l, o)
      BY <3>1, <1>a DEF Bind, Reason, ResidencyTypeOK
    <3>2. CASE Prompted(o)
      BY <3>2, <1>a DEF Prompted, Reason, ResidencyTypeOK
    <3>3. CASE parked' = parked \cup {o}
      BY <3>3 DEF Reason
    <3> QED BY <2>3, <3>1, <3>2, <3>3 DEF Use
  <2> QED BY <2>2, <2>4, <1>c DEF Newest, Kept, Reason
<1>5. CASE Prompt
  <2>1. PICK o \in Objects : o = current
    BY <1>5, <1>a DEF Prompt, ResidencyTypeOK
  <2>2. Prompted(o)
    BY <1>5, <2>1 DEF Prompt
  <2>3. Reason(o)'
    BY <2>2, <1>a DEF Prompted, Reason, ResidencyTypeOK
  <2> QED BY <1>5, <2>1, <2>3, <1>a DEF Prompt, Newest, Kept, Reason
<1>6. ASSUME NEW o \in Objects,
             TurnShows(o) \/ ShellStarts(o) \/ ShellExits(o)
      PROVE  Newest' /\ Kept'
  BY <1>6, <1>a
     DEF TurnShows, ShellStarts, ShellExits, ResidencyTypeOK, Newest, Kept, Reason
<1>7. ASSUME NEW o \in Objects, TurnEnds(o)
      PROVE  Newest' /\ Kept'
  BY <1>7, <1>a, <1>b DEF TurnEnds, ResidencyTypeOK, Newest, Kept, Reason
<1>8. CASE CancelSession
  BY <1>8, <1>a, <1>b DEF CancelSession, ResidencyTypeOK, Newest, Kept, Reason
<1>e. ASSUME NEW o \in Objects, NEW conns, MaybeEvict(o, conns), current = o,
             conns = senders'[o], UNCHANGED <<flight, waiting, made, parked>>
      PROVE  Newest' /\ Kept'
  <2>1. CASE UNCHANGED <<current, closing, races>> /\ (conns # {} \/ Busy(o))
    <3>1. conns # {} \/ flight[o] = "inflight" \/ waiting[o] > 0
      BY <2>1 DEF Busy
    <3> QED BY <3>1, <2>1, <1>e, <1>a DEF Newest, Kept, Reason, Behind
  <2>2. CASE current' = None
    BY <2>2, <1>e, <1>a, <1>b DEF Newest, Kept
  <2>3. CASE current' = current /\ closing' = [closing EXCEPT ![o] = @ + 1]
    BY <2>3, <1>e, <1>a DEF Newest, Kept, Reason, ResidencyTypeOK
  <2> QED BY <1>e, <1>b, <2>1, <2>2, <2>3 DEF MaybeEvict
<1>9. ASSUME NEW o \in Objects, EvictRuns(o)
      PROVE  Newest' /\ Kept'
  BY <1>9, <1>a, <1>b, <1>e DEF EvictRuns, MaybeEvict, ResidencyTypeOK, Newest, Kept, Reason
<1>10. ASSUME NEW o \in Objects, EvictPops(o)
       PROVE  Newest' /\ Kept'
  BY <1>10, <1>a, <1>b DEF EvictPops, Newest, Kept
<1>11. ASSUME NEW c \in Clients, Disconnect(c)
       PROVE  Newest' /\ Kept'
  <2>1. UNCHANGED <<stored, made, flight, waiting, shells, due, parked, deleting>>
    BY <1>11 DEF Disconnect
  <2>2. CASE current # None /\ senders' = [senders EXCEPT ![current] = @ \ {c}]
             /\ MaybeEvict(current, senders[current] \ {c})
    <3>1. PICK o \in Objects : o = current
      BY <2>2, <1>a DEF ResidencyTypeOK
    <3>2. MaybeEvict(o, senders[o] \ {c}) /\ senders'[o] = senders[o] \ {c}
      BY <2>2, <3>1, <1>a DEF ResidencyTypeOK
    <3> QED BY <2>1, <3>1, <3>2, <1>e
  <2>3. CASE UNCHANGED <<senders, current, closing, races>>
    BY <2>1, <2>3, <1>a DEF Newest, Kept, Reason
  <2> QED BY <1>11, <2>2, <2>3 DEF Disconnect
<1>12. CASE DeleteBegins
  <2>1. /\ current' \in {current, None}
        /\ UNCHANGED <<made, senders, flight, due, closing, parked>>
    BY <1>12 DEF DeleteBegins
  <2> QED BY <2>1, <1>a, <1>b DEF Newest, Kept, Reason
<1>13. CASE DeletePops \/ DeleteErases
  BY <1>13, <1>a, <1>b DEF DeletePops, DeleteErases, Newest, Kept, Reason
<1>14. CASE UNCHANGED residencyVars
  BY <1>14, <1>a DEF residencyVars, Newest, Kept, Reason
<1> QED BY <1>1, <1>2, <1>3, <1>4, <1>5, <1>6, <1>7, <1>8, <1>9, <1>10, <1>11, <1>12, <1>13,
           <1>14 DEF ResidencyNext

-----------------------------------------------------------------------------
\* The object of a turn under way or waiting.
Turning(o) == flight[o] # "idle" \/ waiting[o] > 0

\* A caller is between its look at the map and its use of what it found.
Between(l) == pc[l] \in {"checking", "reading"}

\* No eviction waits for the end of processes.
NoneSlow ==
  shells = {} /\ deleting # "closing" /\ \A o \in Objects : closing[o] = 0

\* An eviction is scheduled for the object in the map, if there is one.
DueHere == current # None => \A o \in Objects : due[o] > 0 => o = current

\* One caller loads at a time, and what it found absent still is.
LoadsAlone ==
  /\ \A k, l \in Loaders : Between(k) /\ Between(l) => k = l
  /\ \A l \in Loaders : pc[l] = "checking" /\ l \notin Clients => current = None
  /\ \A l \in Loaders : pc[l] = "reading" =>
       current = None /\ \A o \in Objects : due[o] = 0

\* Turns are on the object in the map.
AtHome == \A o \in Objects : Turning(o) => o = current

\* Until the first race.
Calm == races = 0 => AtHome /\ NoneSlow /\ DueHere /\ LoadsAlone

\* Until the first race an object with a turn is the map's: no other is built
\* while the map has one, no eviction is scheduled for one that left it, and
\* none that runs finds a turn that it does not see.
LEMMA StepCalm ==
  ASSUME ResidencyTypeOK, Calm, [ResidencyNext]_residencyVars
  PROVE  Calm'
<1>a. ResidencyTypeOK' /\ None = 0 /\ None \notin Objects
  BY StepTyped DEF None, Objects
<1>r. /\ \A rs : Races(rs) /\ races' = 0 => races = 0 /\ rs = {}
      /\ races \in Nat
  <2>1. races \in Nat
    BY ResidencyAssumption DEF ResidencyTypeOK
  <2>2. ASSUME NEW rs, Races(rs), races' = 0
        PROVE  races = 0 /\ rs = {}
    BY <2>1, <2>2, RacesGrow DEF RacesMove
  <2> QED BY <2>1, <2>2
<1> SUFFICES ASSUME races' = 0
             PROVE  (AtHome /\ NoneSlow /\ DueHere /\ LoadsAlone)'
  BY DEF Calm
<1>w. \A c, r : When(c, r) = {} => ~c
  BY RacesIn
<1>u. ASSUME NEW l \in Loaders, NEW o \in Objects, Use(l, o),
             races = 0, current' = o,
             \A p \in Objects : Turning(p) => p = o
      PROVE  AtHome'
  <2>1. \A p \in Objects : p = o \/ (flight'[p] = flight[p] /\ waiting'[p] = waiting[p])
    BY <1>u DEF Use, Bind, Prompted, ResidencyTypeOK
  <2> QED BY <2>1, <1>u DEF AtHome, Turning
<1>k. ASSUME races = 0,
             UNCHANGED <<flight, waiting, current, due, shells, deleting, closing, pc>>
      PROVE  (AtHome /\ NoneSlow /\ DueHere /\ LoadsAlone)'
  BY <1>k DEF Calm, AtHome, NoneSlow, DueHere, LoadsAlone, Turning, Between
<1>1. ASSUME NEW l \in Loaders, LoadBegins(l)
      PROVE  (AtHome /\ NoneSlow /\ DueHere /\ LoadsAlone)'
  <2>1. races = 0 /\ ~Loading
    BY <1>1, <1>r, <1>w DEF LoadBegins
  <2>2. /\ pc' = [pc EXCEPT ![l] = "checking"] /\ (l \in Clients \/ current = None)
        /\ UNCHANGED <<stored, current, made, senders, flight, waiting, shells, due,
                       closing, parked, deleting>>
    BY <1>1 DEF LoadBegins
  <2>3. \A k \in Loaders : pc[k] \notin {"checking", "reading"}
    BY <2>1 DEF Loading
  <2>4. \A k \in Loaders : pc'[k] = (IF k = l THEN "checking" ELSE pc[k])
    BY <2>2 DEF ResidencyTypeOK
  <2>5. LoadsAlone'
    BY <2>2, <2>3, <2>4 DEF LoadsAlone, Between
  <2> QED BY <2>1, <2>2, <2>5 DEF Calm, AtHome, NoneSlow, DueHere, Turning
<1>2. ASSUME NEW l \in Loaders, LoadFindsResident(l)
      PROVE  (AtHome /\ NoneSlow /\ DueHere /\ LoadsAlone)'
  <2>1. PICK o \in Objects : o = current
    BY <1>2 DEF LoadFindsResident, ResidencyTypeOK
  <2>2. /\ Use(l, o) /\ races = 0 /\ current' = o /\ l \notin Clients
        /\ UNCHANGED <<stored, current, made, shells, due, closing, deleting, races>>
    BY <1>2, <2>1 DEF LoadFindsResident
  <2>3. AtHome'
    BY <1>u, <2>1, <2>2 DEF Calm, AtHome
  <2>4. pc' = [pc EXCEPT ![l] = "out"]
    BY <2>2 DEF Use
  <2>5. LoadsAlone'
    BY <2>2, <2>4 DEF Calm, LoadsAlone, Between, ResidencyTypeOK
  <2> QED BY <2>2, <2>3, <2>5 DEF Calm, NoneSlow, DueHere
<1>3. ASSUME NEW l \in Loaders, RecordRead(l)
      PROVE  (AtHome /\ NoneSlow /\ DueHere /\ LoadsAlone)'
  <2>1. /\ UNCHANGED <<stored, current, made, shells, due, closing, deleting, races>>
        /\ pc[l] = "checking" /\ races = 0
    BY <1>3 DEF RecordRead
  <2>2. /\ \A k \in Loaders : k # l => pc[k] \notin {"checking", "reading"}
        /\ l \notin Clients => current = None
    BY <2>1 DEF Calm, LoadsAlone, Between
  <2>3. CASE /\ pc' = [pc EXCEPT ![l] = "out"]
             /\ UNCHANGED <<senders, flight, waiting, parked>>
    <3>1. LoadsAlone'
      BY <2>1, <2>3 DEF Calm, LoadsAlone, Between, ResidencyTypeOK
    <3> QED BY <2>1, <2>3, <3>1 DEF Calm, AtHome, NoneSlow, DueHere, Turning
  <2>4. CASE l \in Clients /\ current # None /\ Use(l, current)
    <3>1. PICK o \in Objects : o = current
      BY <2>4 DEF ResidencyTypeOK
    <3>2. Use(l, o) /\ current' = o
      BY <2>1, <2>4, <3>1
    <3>3. AtHome'
      BY <1>u, <2>1, <3>1, <3>2 DEF Calm, AtHome
    <3>4. pc' \in {[pc EXCEPT ![l] = "out"], [pc EXCEPT ![l] = "in"]}
      BY <3>2 DEF Use, Bind
    <3>5. LoadsAlone'
      BY <2>1, <3>4 DEF Calm, LoadsAlone, Between, ResidencyTypeOK
    <3> QED BY <2>1, <3>3, <3>5 DEF Calm, NoneSlow, DueHere
  <2>5. CASE /\ l \notin Clients \/ current = None
             /\ \A o \in Objects : due[o] = 0
             /\ pc' = [pc EXCEPT ![l] = "reading"]
             /\ UNCHANGED <<senders, flight, waiting, parked>>
    <3>1. current = None
      BY <2>2, <2>5
    <3>2. \A k \in Loaders : pc'[k] = (IF k = l THEN "reading" ELSE pc[k])
      BY <2>5 DEF ResidencyTypeOK
    <3>3. LoadsAlone'
      BY <2>1, <2>2, <2>5, <3>1, <3>2 DEF LoadsAlone, Between
    <3> QED BY <2>1, <2>5, <3>3 DEF Calm, AtHome, NoneSlow, DueHere, Turning
  <2> QED BY <1>3, <2>3, <2>4, <2>5 DEF RecordRead
<1>4. ASSUME NEW l \in Loaders, ObjectBuilt(l)
      PROVE  (AtHome /\ NoneSlow /\ DueHere /\ LoadsAlone)'
  <2>1. PICK o \in Objects : o = made + 1
    BY <1>4, ResidencyAssumption DEF ObjectBuilt, ResidencyTypeOK, Objects
  <2>2. /\ made' = o /\ current' = o /\ Use(l, made') /\ pc[l] = "reading" /\ races = 0
        /\ UNCHANGED <<stored, shells, due, closing, deleting, races>>
    BY <1>4, <2>1 DEF ObjectBuilt
  <2>3. Use(l, o)
    BY <2>2
  <2>4. /\ current = None /\ \A p \in Objects : due[p] = 0
        /\ \A k \in Loaders : k # l => pc[k] \notin {"checking", "reading"}
    BY <2>2 DEF Calm, LoadsAlone, Between
  <2>5. AtHome'
    BY <1>u, <1>a, <2>2, <2>3, <2>4 DEF Calm, AtHome
  <2>6. pc' \in {[pc EXCEPT ![l] = "out"], [pc EXCEPT ![l] = "in"]}
    BY <2>3 DEF Use, Bind
  <2>7. \A k \in Loaders : pc'[k] \notin {"checking", "reading"}
    BY <2>4, <2>6 DEF ResidencyTypeOK
  <2>8. LoadsAlone'
    BY <2>7 DEF LoadsAlone, Between
  <2> QED BY <2>2, <2>4, <2>5, <2>8, <1>a DEF Calm, NoneSlow, DueHere, ResidencyTypeOK
<1>5. CASE Prompt
  <2>1. PICK o \in Objects : o = current
    BY <1>5 DEF Prompt, ResidencyTypeOK
  <2>2. /\ Prompted(o) /\ races = 0
        /\ UNCHANGED <<stored, current, made, pc, shells, due, closing, deleting, races>>
    BY <1>5, <2>1 DEF Prompt
  <2>3. \A p \in Objects : p = o \/ (flight'[p] = flight[p] /\ waiting'[p] = waiting[p])
    BY <2>2 DEF Prompted, ResidencyTypeOK
  <2>4. AtHome'
    BY <2>1, <2>2, <2>3 DEF Calm, AtHome, Turning
  <2> QED BY <2>2, <2>4 DEF Calm, NoneSlow, DueHere, LoadsAlone, Between
<1>6. ASSUME NEW o \in Objects, TurnShows(o) \/ ShellExits(o)
      PROVE  (AtHome /\ NoneSlow /\ DueHere /\ LoadsAlone)'
  BY <1>6 DEF TurnShows, ShellExits, ResidencyTypeOK, Calm, AtHome, NoneSlow, DueHere,
              LoadsAlone, Turning, Between
<1>s. ASSUME NEW o \in Objects, ShellStarts(o)
      PROVE  FALSE
  BY <1>s, <1>r DEF ShellStarts
<1>7. ASSUME NEW o \in Objects, TurnEnds(o)
      PROVE  (AtHome /\ NoneSlow /\ DueHere /\ LoadsAlone)'
  <2>1. /\ UNCHANGED <<stored, current, made, pc, senders, shells, closing, parked,
                       deleting, races>>
        /\ flight[o] = "inflight" /\ races = 0
    BY <1>7 DEF TurnEnds
  <2>2. o = current /\ current # None
    BY <2>1, <1>a DEF Calm, AtHome, Turning
  <2>3. \A p \in Objects : p # o =>
          flight'[p] = flight[p] /\ waiting'[p] = waiting[p] /\ due'[p] = due[p]
    BY <1>7 DEF TurnEnds, ResidencyTypeOK
  <2>4. AtHome' /\ DueHere'
    BY <2>1, <2>2, <2>3 DEF Calm, AtHome, DueHere, Turning
  <2>5. \A l \in Loaders : pc[l] # "reading"
    BY <2>1, <2>2 DEF Calm, LoadsAlone
  <2> QED BY <2>1, <2>4, <2>5 DEF Calm, NoneSlow, LoadsAlone, Between
<1>8. CASE CancelSession
  <2>1. PICK o \in Objects : o = current
    BY <1>8 DEF CancelSession, ResidencyTypeOK
  <2>2. /\ waiting' = [waiting EXCEPT ![o] = 0]
        /\ due' = [due EXCEPT ![o] = @ + 1] /\ races = 0 /\ current # None
        /\ UNCHANGED <<stored, current, made, pc, senders, flight, shells, closing,
                       parked, deleting, races>>
    BY <1>8, <2>1 DEF CancelSession
  <2>3. \A p \in Objects : p # o => waiting'[p] = waiting[p] /\ due'[p] = due[p]
    BY <2>2 DEF ResidencyTypeOK
  <2>4. AtHome' /\ DueHere'
    BY <2>1, <2>2, <2>3 DEF Calm, AtHome, DueHere, Turning
  <2>5. \A l \in Loaders : pc[l] # "reading"
    BY <2>2 DEF Calm, LoadsAlone
  <2> QED BY <2>2, <2>4, <2>5 DEF Calm, NoneSlow, LoadsAlone, Between
<1>e. ASSUME NEW o \in Objects, NEW conns, MaybeEvict(o, conns),
             o = current \/ current = None,
             UNCHANGED <<flight, waiting, shells, deleting>>,
             \A l \in Loaders : pc'[l] \in {pc[l], "out"},
             \A p \in Objects : due'[p] \in Nat /\ due'[p] <= due[p]
      PROVE  (AtHome /\ NoneSlow /\ DueHere /\ LoadsAlone)'
  <2>0. \A p \in Objects : due[p] \in Nat
    BY ResidencyAssumption DEF ResidencyTypeOK
  <2>1. CASE UNCHANGED <<current, closing, races>>
    <3>1. LoadsAlone'
      <4>1. \A p \in Objects : due[p] = 0 => due'[p] = 0
        BY <1>e, <2>0
      <4> QED BY <1>e, <2>1, <4>1 DEF Calm, LoadsAlone, Between
    <3>2. DueHere'
      BY <1>e, <2>0, <2>1 DEF Calm, DueHere
    <3> QED BY <1>e, <2>1, <3>1, <3>2 DEF Calm, AtHome, NoneSlow, Turning
  <2>2. CASE /\ Races(When(flight[o] = "opening", "opening"))
             /\ ~Busy(o) /\ current # None
             /\ current' = IF o \in shells THEN current ELSE None
             /\ closing' = IF o \in shells THEN [closing EXCEPT ![o] = @ + 1] ELSE closing
    <3>1. races = 0 /\ flight[o] # "opening"
      BY <2>2, <1>r, <1>w
    <3>2. ~Turning(o)
      BY <2>2, <3>1 DEF Busy, Turning, ResidencyTypeOK
    <3>3. current' = None /\ closing' = closing
      BY <2>2, <3>1 DEF Calm, NoneSlow
    <3>4. \A p \in Objects : ~Turning(p)
      BY <1>e, <2>2, <3>1, <3>2 DEF Calm, AtHome
    <3>5. AtHome'
      BY <1>e, <3>4 DEF AtHome, Turning
    <3>6. LoadsAlone'
      <4>1. \A p \in Objects : due[p] = 0 => due'[p] = 0
        BY <1>e, <2>0
      <4> QED BY <1>e, <3>1, <3>3, <4>1 DEF Calm, LoadsAlone, Between
    <3> QED BY <1>e, <3>1, <3>3, <3>5, <3>6 DEF Calm, NoneSlow, DueHere
  <2> QED BY <1>e, <2>1, <2>2 DEF MaybeEvict
<1>9. ASSUME NEW o \in Objects, EvictRuns(o)
      PROVE  (AtHome /\ NoneSlow /\ DueHere /\ LoadsAlone)'
  <2>1. /\ due[o] > 0 /\ due' = [due EXCEPT ![o] = @ - 1]
        /\ MaybeEvict(o, senders[o])
        /\ UNCHANGED <<stored, made, pc, senders, flight, waiting, shells, parked,
                       deleting>>
    BY <1>9 DEF EvictRuns
  <2>2. \A p \in Objects : due'[p] \in Nat /\ due'[p] <= due[p]
    BY <2>1, ResidencyAssumption DEF ResidencyTypeOK
  <2>3. races = 0
    <3>1. MaybeEvict(o, senders[o]) =>
            races' = races \/ Races(When(flight[o] = "opening", "opening"))
      BY DEF MaybeEvict
    <3> QED BY <2>1, <3>1, <1>r
  <2>4. o = current \/ current = None
    BY <2>1, <2>3 DEF Calm, DueHere
  <2> QED BY <2>1, <2>2, <2>4, <1>e
<1>10. ASSUME NEW o \in Objects, EvictPops(o)
       PROVE  FALSE
  BY <1>10 DEF EvictPops, Calm, NoneSlow
<1>11. ASSUME NEW c \in Clients, Disconnect(c)
       PROVE  (AtHome /\ NoneSlow /\ DueHere /\ LoadsAlone)'
  <2>1. /\ UNCHANGED <<stored, made, flight, waiting, shells, due, parked, deleting>>
        /\ \A l \in Loaders : pc'[l] \in {pc[l], "out"}
    BY <1>11 DEF Disconnect, ResidencyTypeOK
  <2>2. \A p \in Objects : due'[p] \in Nat /\ due'[p] <= due[p]
    BY <2>1, ResidencyAssumption DEF ResidencyTypeOK
  <2>3. CASE current # None /\ MaybeEvict(current, senders[current] \ {c})
    <3>1. PICK o \in Objects : o = current
      BY <2>3 DEF ResidencyTypeOK
    <3>2. MaybeEvict(o, senders[o] \ {c})
      BY <2>3, <3>1
    <3> QED BY <2>1, <2>2, <3>1, <3>2, <1>e
  <2>4. CASE UNCHANGED <<senders, current, closing, races>>
    BY <2>1, <2>4 DEF Calm, AtHome, NoneSlow, DueHere, LoadsAlone, Turning, Between
  <2> QED BY <1>11, <2>3, <2>4 DEF Disconnect
<1>12. CASE DeleteBegins
  <2> DEFINE inUse  == current # None /\ (senders[current] # {} \/ Busy(current))
             opens  == current # None /\ flight[current] = "opening"
             raced  == When(Loading, "coload") \cup When(inUse, "force")
                         \cup When(opens, "opening")
  <2>1. Races(raced)
    BY <1>12 DEF DeleteBegins
  <2>2. /\ races = 0
        /\ When(Loading, "coload") = {}
        /\ When(inUse, "force") = {}
        /\ When(opens, "opening") = {}
    <3>1. races = 0 /\ raced = {}
      <4> HIDE DEF raced
      <4> QED BY <2>1, <1>r
    <3> QED BY <3>1
  <2>3. /\ ~Loading
        /\ current # None => ~Busy(current) /\ flight[current] # "opening"
    BY <2>2, <1>w
  <2>4. /\ current' = None /\ deleting' = "erasing"
        /\ UNCHANGED <<stored, made, pc, senders, flight, waiting, shells, due,
                       closing, parked>>
    BY <1>12, <2>2 DEF DeleteBegins, Calm, NoneSlow
  <2>5. \A o \in Objects : ~Turning(o)
    BY <2>2, <2>3, <1>a DEF Calm, AtHome, Turning, Busy, ResidencyTypeOK
  <2>6. AtHome' /\ DueHere'
    BY <2>4, <2>5 DEF AtHome, DueHere, Turning
  <2>7. LoadsAlone'
    BY <2>3, <2>4 DEF LoadsAlone, Loading, Between
  <2> QED BY <2>2, <2>4, <2>6, <2>7 DEF Calm, NoneSlow
<1>13. CASE DeletePops
  BY <1>13 DEF DeletePops, Calm, NoneSlow
<1>14. CASE DeleteErases
  BY <1>14 DEF DeleteErases, Calm, AtHome, NoneSlow, DueHere, LoadsAlone, Turning, Between
<1>15. CASE UNCHANGED residencyVars
  BY <1>15, <1>k DEF residencyVars
<1> QED BY <1>1, <1>2, <1>3, <1>4, <1>5, <1>6, <1>s, <1>7, <1>8, <1>9, <1>10, <1>11, <1>12,
           <1>13, <1>14, <1>15 DEF ResidencyNext

-----------------------------------------------------------------------------
\* Loaders, objects, evictions and the deletion keep their domains, however
\* load_session, _get_or_load, _maybe_evict and on_disconnect interleave.
THEOREM ObjectsTyped == ResidencySpec => []ResidencyTypeOK
BY InitHome, StepTyped, PTL DEF ResidencySpec

\* No session is left in _sessions for ever: who lets go of it last, whether
\* on_disconnect, cancel or _run_turn_core, evicts it or schedules that, and
\* this stands whatever races there are.
THEOREM ResidentsHaveReasons == ResidencySpec => []ResidentForAReason
<1>1. Stays => ResidentForAReason
  BY DEF Stays, Kept, Reason, ResidentForAReason
<1> QED BY <1>1, InitStays, StepStays, PTL DEF ResidencySpec

\* Until loads cross, a close is slow, an eviction meets an opening turn or a
\* delete is forced, a turn runs on the object that _sessions holds.
THEOREM TurnsStayAtHome == ResidencySpec => []TurnsAtHome
<1>1. ResidencyInit => ResidencyTypeOK /\ Calm
  <2>1. ResidencyInit => Calm
    BY DEF ResidencyInit, Calm, AtHome, NoneSlow, DueHere, LoadsAlone, Turning, Between
  <2> QED BY <2>1, InitHome
<1>2. ResidencyTypeOK /\ Calm /\ [ResidencyNext]_residencyVars => (ResidencyTypeOK /\ Calm)'
  BY StepTyped, StepCalm
<1>3. Calm => TurnsAtHome
  BY DEF Calm, AtHome, Turning, TurnsAtHome
<1> QED BY <1>1, <1>2, <1>3, PTL DEF ResidencySpec

=========================================================================
