------------------------------- MODULE TurnFifo -------------------------------
(***************************************************************************)
(* What the prompt queue promises its callers: turns of one session run    *)
(* one at a time, in the order they arrived, and every turn is answered    *)
(* when it ends, is refused, or is dropped before it ran.                  *)
(***************************************************************************)
EXTENDS Naturals, Sequences, Functions

CONSTANT Turns

VARIABLES
  waiting,    \* accepted turns that have not begun, oldest first
  running,    \* the turn that runs, as a set of at most one
  answered    \* the turns whose caller has its answer

fifoVars == <<waiting, running, answered>>

InLine == Range(waiting)
Fresh  == Turns \ (InLine \cup running \cup answered)

Init ==
  /\ waiting = <<>>
  /\ running = {}
  /\ answered = {}

Submit(t) ==
  /\ t \in Fresh
  /\ waiting' = Append(waiting, t)
  /\ UNCHANGED <<running, answered>>

Refuse(t) ==
  /\ t \in Fresh
  /\ answered' = answered \cup {t}
  /\ UNCHANGED <<waiting, running>>

Begin ==
  /\ running = {} /\ waiting # <<>>
  /\ running' = {Head(waiting)}
  /\ waiting' = Tail(waiting)
  /\ UNCHANGED answered

Finish(t) ==
  /\ running = {t}
  /\ running' = {}
  /\ answered' = answered \cup {t}
  /\ UNCHANGED waiting

\* line is what waiting keeps, in its order, when the turns of S leave it:
\* its positions are those of the others, in turn.
Without(S, line) ==
  /\ line \in Seq(InLine)
  /\ \E from \in [DOMAIN line -> DOMAIN waiting] :
       /\ \A i, j \in DOMAIN line : i < j => from[i] < from[j]
       /\ \A i \in DOMAIN line : line[i] = waiting[from[i]]
       /\ Range(from) = {i \in DOMAIN waiting : waiting[i] \notin S}

\* Turns leave the line without running; the others keep their order.
Drop(S) ==
  /\ S \subseteq InLine
  /\ Without(S, waiting')
  /\ answered' = answered \cup S
  /\ UNCHANGED running

\* A caller stops waiting for its answer; its turn keeps its place.
GiveUp(t) ==
  /\ t \in InLine \cup running
  /\ answered' = answered \cup {t}
  /\ UNCHANGED <<waiting, running>>

Next ==
  \/ Begin
  \/ \E t \in Turns : Submit(t) \/ Refuse(t) \/ Finish(t) \/ GiveUp(t)
  \/ \E S \in SUBSET InLine : Drop(S)

Spec == Init /\ [][Next]_fifoVars
=============================================================================
