------------------------------- MODULE ToolCalls -------------------------------
(***************************************************************************)
(* The tool calls of an answer: the executor that partitions and runs      *)
(* them, and the authorizer that decides about each.                       *)
(*                                                                         *)
(* The calls of one answer are cut into batches: neighbours that are safe  *)
(* to run together, any other call alone.  The batches run one after the   *)
(* other, the calls of a batch as tasks under a semaphore.  A task gets    *)
(* its decision, asks the user behind a lock if it has to, runs the tool   *)
(* and puts its result into a queue, from which the stream collects it.    *)
(* When the stream is over, every call has a result in the history.        *)
(*                                                                         *)
(* A call is known by its request, the tool with its input: grants and     *)
(* rules go by it.  Calls are numbered over the whole session; the answer  *)
(* in hand has the calls from `first' on, and an executor of its own.      *)
(***************************************************************************)
EXTENDS Naturals, FiniteSets, Sequences

CONSTANTS
  Requests,       \* the tools with their inputs
  Safe,           \* those of tools that are concurrency safe
  Mutating,       \* those of tools of a kind that edits, deletes, moves, executes
  Unknown,        \* those of tools that are not registered
  Asked,          \* those whose default_risk is to ask, if no rule says more
  Refused,        \* those whose default_risk is to deny
  Deniable,       \* those that may get a deny rule
  MaxConcurrency, \* permits of the semaphore
  MaxCalls,       \* bound on the calls of the session
  Departures,     \* what may go differently from a plain run
  MaxDepartures   \* bound on how often it does

(* cancel   the turn is cancelled while tools run                          *)
(* again    and once more, while it waits for their tasks (not counted)    *)
(* unasked  the client that was asked goes away                            *)
(* failure  what surrounds the call of a tool raises                       *)
(* policy   the mode or a rule changes between two answers                 *)
(* switch   or while an answer is in hand                                  *)
(* twins    an answer has the same request twice                           *)
AllDepartures == {"cancel", "again", "unasked", "failure", "policy", "switch",
                  "twins"}

ASSUME CallsAssumption ==
  /\ Safe \subseteq Requests \ Unknown /\ Mutating \subseteq Requests
  /\ Asked \subseteq Requests /\ Refused \subseteq Requests \ Asked
  /\ Deniable \subseteq Requests
  /\ MaxConcurrency \in Nat \ {0} /\ MaxCalls \in Nat /\ MaxDepartures \in Nat
  /\ Departures \subseteq AllDepartures

Modes  == {"default", "plan", "bypass"}
Leaves == {"none", "grant", "mode", "rule", "user"}
Steps  == {"waiting", "created", "asking", "asked", "cleared", "running",
           "put", "collected", "lost"}

VARIABLES
  departs,   \* the departures so far (history)
  spent,     \* and how often there was one (bound)
  mode,      \* orchestrator._mode, as the authorizer gets it
  denied,    \* requests under a deny rule
  grants,    \* SessionGrantCache, of this session; it outlives an eviction
  calls,     \* the requests of all answers so far
  first,     \* the first call of the answer in hand
  phase,     \* "idle", "tools" while results() runs, "closing" after a cancel
  held,      \* the mode that results() was given
  step,      \* where each call is
  slots,     \* permits left of the executor's semaphore
  lock,      \* the call that holds the permission lock, or 0
  results,   \* the calls whose results the stream has yielded
  told,      \* what the history says of each call that is over
  leave,     \* what let each call run (history)
  against,   \* what forbade a call when its tool began (history)
  effects    \* the calls whose tool ran to its end (history)

executor == <<slots, lock>>
policy   == <<mode, denied, grants>>
history  == <<told, leave, against, effects>>
vars == <<departs, spent, policy, calls, first, phase, held, step, executor,
          results, history>>

When(c, d) == IF c THEN {d} ELSE {}

\* The step departs from a plain run in the ways ds.
Departs(ds) ==
  /\ ds \subseteq Departures /\ spent + Cardinality(ds) <= MaxDepartures
  /\ departs' = departs \cup ds /\ spent' = spent + Cardinality(ds)

Plain == UNCHANGED <<departs, spent>>

-----------------------------------------------------------------------------
(* Batches                                                                 *)

InHand == first..Len(calls)

\* Variant: unsafe calls do not part their neighbours.
AllSafe(i) ==
  IF calls[i] \notin Safe THEN {i} ELSE {j \in InHand : calls[j] \in Safe}

\* partition_tool_calls: the calls that run together with call i.
Batch(i) ==
  IF calls[i] \notin Safe THEN {i}
  ELSE {j \in InHand : \A k \in InHand :
          (i <= k /\ k <= j) \/ (j <= k /\ k <= i) => calls[k] \in Safe}

IsOver(i)   == step[i] \in {"collected", "lost"}
IsActive(i) == step[i] \notin {"waiting", "put", "collected", "lost"}
Holds(i)    == step[i] \in {"asking", "asked", "cleared", "running"}

-----------------------------------------------------------------------------
(* The authorizer                                                          *)

Verdict(decision, by) == [decision |-> decision, by |-> by]

\* Variant: a request to ask about is asked about.
AskFirst(r, m) ==
  IF r \in Asked THEN Verdict("ask", "rule")
  ELSE IF r \in grants THEN Verdict("allow", "grant")
  ELSE IF m = "plan" /\ r \in Mutating THEN Verdict("deny", "mode")
  ELSE IF r \in denied \cup Refused THEN Verdict("deny", "rule")
  ELSE Verdict("allow", "rule")

\* _authorize_impl and _apply_outcome, but for allow and ask rules.
Decision(r, m) ==
  IF r \in grants THEN Verdict("allow", "grant")
  ELSE IF m = "plan" /\ r \in Mutating THEN Verdict("deny", "mode")
  ELSE IF m = "bypass" THEN Verdict("allow", "mode")
  ELSE IF r \in denied \cup Refused THEN Verdict("deny", "rule")
  ELSE IF r \in Asked THEN Verdict("ask", "rule")
  ELSE Verdict("allow", "rule")

\* What speaks against a request at this moment.
Forbids(r) ==
  When(mode = "plan" /\ r \in Mutating, "plan") \cup When(r \in denied /\ mode # "bypass", "rule")

-----------------------------------------------------------------------------
Init ==
  /\ departs = {} /\ spent = 0
  /\ mode = "default" /\ denied = {} /\ grants = {}
  /\ calls = <<>> /\ first = 1
  /\ phase = "idle" /\ held = "default"
  /\ step = <<>> /\ slots = MaxConcurrency /\ lock = 0
  /\ results = {}
  /\ told = <<>> /\ leave = <<>> /\ against = <<>> /\ effects = {}

-----------------------------------------------------------------------------
(* The stream                                                              *)

\* finalize_stream, and results() with the mode of this moment.
Answer(requests) ==
  /\ phase = "idle"
  /\ Departs(When(\E i, j \in DOMAIN requests : i # j /\ requests[i] = requests[j], "twins"))
  /\ calls' = calls \o requests /\ first' = Len(calls) + 1
  /\ step'    = step    \o [i \in DOMAIN requests |-> "waiting"]
  /\ told'    = told    \o [i \in DOMAIN requests |-> "open"]
  /\ leave'   = leave   \o [i \in DOMAIN requests |-> "none"]
  /\ against' = against \o [i \in DOMAIN requests |-> {}]
  /\ phase' = "tools" /\ held' = mode
  /\ slots' = MaxConcurrency /\ lock' = 0 /\ results' = {}
  /\ UNCHANGED <<policy, effects>>

\* The next batch: a task for each of its calls; an unknown tool fails.
StartBatch ==
  /\ phase = "tools" /\ \A i \in InHand : step[i] = "waiting" \/ IsOver(i)
  /\ \E i \in InHand :
       /\ step[i] = "waiting" /\ \A j \in first..(i - 1) : IsOver(j)
       /\ step' = [j \in DOMAIN step |->
            IF j \notin Batch(i) THEN step[j]
            ELSE IF calls[j] \in Unknown THEN "put" ELSE "created"]
  /\ Plain
  /\ UNCHANGED <<policy, calls, first, phase, held, executor, results, history>>

\* Variant: of two items that are there, one is taken.
CollectBoth(i) ==
  /\ phase = "tools" /\ i \in InHand /\ step[i] = "put"
  /\ step' = [j \in DOMAIN step |-> IF step[j] = "put" THEN "collected" ELSE step[j]]
  /\ results' = results \cup {i}
  /\ Plain
  /\ UNCHANGED <<policy, calls, first, phase, held, executor, history>>

\* _merge_queues: an item of any queue of the batch.
Collect(i) ==
  /\ phase = "tools" /\ i \in InHand /\ step[i] = "put"
  /\ step' = [step EXCEPT ![i] = "collected"] /\ results' = results \cup {i}
  /\ Plain
  /\ UNCHANGED <<policy, calls, first, phase, held, executor, history>>

\* append_tool_results.
EndStream ==
  /\ phase = "tools" /\ \A i \in InHand : IsOver(i)
  /\ phase' = "idle"
  /\ told' = [i \in DOMAIN told |-> IF i \in results THEN "result" ELSE told[i]]
  /\ Plain
  /\ UNCHANGED <<policy, calls, first, held, step, executor, results, leave, against, effects>>

\* The CancelledError at the queues: every task of the batch is cancelled.
Cancel ==
  /\ phase = "tools" /\ Departs({"cancel"})
  /\ phase' = "closing"
  /\ UNCHANGED <<policy, calls, first, held, step, executor, results, history>>

\* Variant: only the calls that were running are given a result.
CloseRunning ==
  /\ phase' = "idle"
  /\ told' = [i \in DOMAIN told |->
       IF i \in InHand /\ step[i] = "lost" THEN "interrupted" ELSE told[i]]
  /\ UNCHANGED <<policy, calls, first, held, step, executor, results, leave, against, effects>>

\* No result of this answer is in the history: each call is told to be
\* interrupted.
Close ==
  /\ phase' = "idle"
  /\ told' = [i \in DOMAIN told |-> IF i \in InHand THEN "interrupted" ELSE told[i]]
  /\ UNCHANGED <<policy, calls, first, held, step, executor, results, leave, against, effects>>

\* gather: the tasks of the batch are over.
Closed == phase = "closing" /\ (\A i \in InHand : ~IsActive(i)) /\ Plain /\ Close

\* Another cancel ends the wait for them.
CancelAgain ==
  /\ phase = "closing" /\ \E i \in InHand : IsActive(i)
  /\ "again" \in Departures /\ departs' = departs \cup {"again"} /\ UNCHANGED spent
  /\ Close

-----------------------------------------------------------------------------
(* A task                                                                  *)

\* Call i moves on; at its end it lets go of the semaphore, and of the lock.
\* An earlier executor's semaphore and lock are of no account.
Becomes(i, s) ==
  /\ step' = [step EXCEPT ![i] = s]
  /\ slots' = IF i \in InHand THEN slots + (IF Holds(i) /\ s \in {"put", "lost"} THEN 1 ELSE 0)
                                         - (IF ~Holds(i) /\ s \in {"asking", "cleared"} THEN 1 ELSE 0)
              ELSE slots
  /\ lock' = IF lock = i /\ s # "asked" THEN 0 ELSE lock

Unmoved == UNCHANGED <<calls, first, phase, held, results, told>>

\* Behind the semaphore: invalid input, or the decision; without anybody to
\* ask, asking is denying.
Authorize(i) ==
  /\ phase = "tools" /\ i \in InHand /\ step[i] = "created" /\ slots > 0
  /\ LET d == Decision(calls[i], held)
     IN  \/ Becomes(i, "put") /\ UNCHANGED leave
         \/ /\ d.decision = "allow" /\ Becomes(i, "cleared")
            /\ leave' = [leave EXCEPT ![i] = d.by]
         \/ d.decision = "ask" /\ Becomes(i, "asking") /\ UNCHANGED leave
  /\ Plain /\ Unmoved
  /\ UNCHANGED <<policy, against, effects>>

\* on_permission, with the permission lock.
Ask(i) ==
  /\ phase = "tools" /\ i \in InHand /\ step[i] = "asking" /\ lock = 0
  /\ step' = [step EXCEPT ![i] = "asked"] /\ lock' = i
  /\ Plain /\ Unmoved
  /\ UNCHANGED <<policy, slots, leave, against, effects>>

\* Variant: the lock is released when the call is allowed.
LockedReply(i, response) ==
  /\ phase = "tools" /\ i \in InHand /\ step[i] = "asked"
  /\ IF response = "reject"
     THEN /\ step' = [step EXCEPT ![i] = "put"] /\ slots' = slots + 1 /\ UNCHANGED <<leave, lock>>
     ELSE Becomes(i, "cleared") /\ leave' = [leave EXCEPT ![i] = "user"]
  /\ grants' = grants \cup When(response = "allow_always", calls[i])
  /\ Plain /\ Unmoved
  /\ UNCHANGED <<mode, denied, against, effects>>

\* The user's answer; what on_permission raises counts as "reject".
Reply(i, response) ==
  /\ phase = "tools" /\ i \in InHand /\ step[i] = "asked"
  /\ IF response = "reject" THEN Becomes(i, "put") /\ UNCHANGED leave
     ELSE Becomes(i, "cleared") /\ leave' = [leave EXCEPT ![i] = "user"]
  /\ grants' = grants \cup When(response = "allow_always", calls[i])
  /\ Plain /\ Unmoved
  /\ UNCHANGED <<mode, denied, against, effects>>

\* The request's future is cancelled: the task ends without a result.
Unasked(i) ==
  /\ phase = "tools" /\ i \in InHand /\ step[i] = "asked" /\ Departs({"unasked"})
  /\ Becomes(i, "lost")
  /\ Unmoved /\ UNCHANGED <<policy, leave, against, effects>>

\* pre_tool_use blocks the call, or its tool begins.
Begin(i) ==
  /\ phase = "tools" /\ i \in InHand /\ step[i] = "cleared"
  /\ \/ Becomes(i, "put") /\ UNCHANGED against
     \/ Becomes(i, "running") /\ against' = [against EXCEPT ![i] = Forbids(calls[i])]
  /\ Plain /\ Unmoved
  /\ UNCHANGED <<policy, leave, effects>>

\* The tool returns, with a result or without, or raises: a result is put.
Return(i) ==
  /\ phase = "tools" /\ step[i] = "running"
  /\ Becomes(i, "put") /\ effects' = effects \cup {i}
  /\ Plain /\ Unmoved /\ UNCHANGED <<policy, leave, against>>

\* An exception outside the call of the tool is logged and the queue closed.
Fail(i) ==
  /\ phase = "tools" /\ step[i] \in {"cleared", "running"} /\ Departs({"failure"})
  /\ Becomes(i, "lost")
  /\ \/ step[i] = "running" /\ effects' = effects \cup {i}
     \/ UNCHANGED effects
  /\ Unmoved /\ UNCHANGED <<policy, leave, against>>

\* A cancelled task stops; a tool may run to its end before.
Unwind(i) ==
  /\ IsActive(i) /\ (phase # "tools" \/ i < first)
  /\ \/ Becomes(i, "lost") /\ UNCHANGED effects
     \/ step[i] = "running" /\ Becomes(i, "put") /\ effects' = effects \cup {i}
  /\ Plain /\ Unmoved /\ UNCHANGED <<policy, leave, against>>

-----------------------------------------------------------------------------
(* Around it                                                               *)

Switches == {IF phase = "idle" THEN "policy" ELSE "switch"}

\* session/set_mode, and the tools that enter and leave the plan mode.
SetMode(m) ==
  /\ m # mode /\ Departs(Switches) /\ mode' = m
  /\ UNCHANGED <<denied, grants, calls, first, phase, held, step, executor, results, history>>

\* The config file is reloaded with a deny rule.
Deny(r) ==
  /\ r \notin denied /\ Departs(Switches) /\ denied' = denied \cup {r}
  /\ UNCHANGED <<mode, grants, calls, first, phase, held, step, executor, results, history>>

-----------------------------------------------------------------------------
SomeAnswer ==
  \E n \in 1..(MaxCalls - Len(calls)) : \E requests \in [1..n -> Requests] : Answer(requests)

Task(i) ==
  Authorize(i) \/ Ask(i) \/ (\E r \in {"allow_once", "allow_always", "reject"} : Reply(i, r))
    \/ Begin(i) \/ Return(i) \/ Unwind(i)

Next ==
  \/ SomeAnswer \/ StartBatch \/ EndStream \/ Cancel \/ Closed \/ CancelAgain
  \/ \E i \in DOMAIN calls : Collect(i)
  \/ \E i \in DOMAIN calls : Authorize(i)
  \/ \E i \in DOMAIN calls : Ask(i)
  \/ \E i \in DOMAIN calls, r \in {"allow_once", "allow_always", "reject"} : Reply(i, r)
  \/ \E i \in DOMAIN calls : Unasked(i)
  \/ \E i \in DOMAIN calls : Begin(i)
  \/ \E i \in DOMAIN calls : Return(i)
  \/ \E i \in DOMAIN calls : Fail(i)
  \/ \E i \in DOMAIN calls : Unwind(i)
  \/ \E m \in Modes : SetMode(m)
  \/ \E r \in Deniable : Deny(r)

\* The loop's own steps are scheduled, tools return and users answer.
Fairness ==
  /\ WF_vars(StartBatch) /\ WF_vars(EndStream) /\ WF_vars(Closed)
  /\ \A i \in 1..MaxCalls : WF_vars(i \in DOMAIN calls /\ Collect(i))
  /\ \A i \in 1..MaxCalls : WF_vars(i \in DOMAIN calls /\ Task(i))

Spec == Init /\ [][Next]_vars /\ Fairness

-----------------------------------------------------------------------------
(* Properties                                                              *)

Tolerates(ds) == departs \subseteq ds

\* The domains of the variables.
TypeOK ==
  /\ departs \subseteq Departures /\ spent \in 0..MaxDepartures
  /\ mode \in Modes /\ held \in Modes
  /\ denied \subseteq Requests /\ grants \subseteq Requests
  /\ calls \in Seq(Requests) /\ first \in 1..(Len(calls) + 1)
  /\ phase \in {"idle", "tools", "closing"}
  /\ slots \in 0..MaxConcurrency /\ lock \in 0..Len(calls)
  /\ results \subseteq InHand /\ effects \subseteq DOMAIN calls
  /\ step \in [DOMAIN calls -> Steps]
  /\ told \in [DOMAIN calls -> {"open", "result", "interrupted"}]
  /\ leave \in [DOMAIN calls -> Leaves]
  /\ against \in [DOMAIN calls -> SUBSET {"plan", "rule"}]

\* "Not safe: it runs alone, nothing beside it, before and after": of two calls
\* one of which is not safe, the later one starts when the earlier one is
\* over.  A second cancel leaves calls of the answer before behind.
Ordered ==
  Tolerates(AllDepartures \ {"again"}) =>
    \A i, j \in DOMAIN calls :
      i < j /\ ~({calls[i], calls[j]} \subseteq Safe) /\ (IsActive(j) \/ step[j] = "put")
      => ~IsActive(i) /\ (i \in InHand => IsOver(i))

\* The semaphore's permits are with the calls that hold one, and the lock with
\* the call whose user is asked: neither is lost when calls fail or are
\* cancelled.
Accounted ==
  /\ slots + Cardinality({i \in InHand : Holds(i)}) = MaxConcurrency
  /\ \A i \in InHand : lock = i <=> step[i] = "asked"

\* Every tool_use gets its tool_result: when an answer's turn goes on, each of
\* its calls is told once, whatever was denied, blocked, raised or cancelled.
Told ==
  Tolerates(AllDepartures \ {"unasked", "failure"}) /\ phase = "idle" =>
    \A i \in DOMAIN calls : told[i] # "open"

\* What the history says of a call is what happened: a call that is told to be
\* interrupted had no effect, unless the turn was cancelled.
EffectsTold ==
  Tolerates(AllDepartures \ {"cancel", "again", "failure"}) /\ phase = "idle" =>
    \A i \in effects : told[i] = "result"

\* No tool begins against a deny rule or the plan mode, but on a grant and
\* what changed while its answer was in hand.
Forbidden ==
  Tolerates(AllDepartures \ {"switch"}) =>
    \A i \in DOMAIN calls : against[i] # {} => leave[i] = "grant"

\* Every answer's calls come to an end, one way or another.
AnswerEnds == phase # "idle" ~> phase = "idle"
=============================================================================
