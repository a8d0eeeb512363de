------------------------------ MODULE TaskRegistry ------------------------------
(***************************************************************************)
(* Background tasks of a session: shells, monitors and agents.             *)
(*                                                                         *)
(* One registry serves the session's own agent (agent 0) and all the       *)
(* agents that it, or they, started in the background; such an agent is    *)
(* known by its task.  A task that ends leaves a notification for its      *)
(* owner, which the owner's query loop turns into a reminder after a round *)
(* of tools; reminders are the session's, and the first agent that begins  *)
(* a turn reads them all, also those made for another.                     *)
(*                                                                         *)
(* Tasks are numbered in the order they are asked for, and every one of    *)
(* them is kept here, also those the registry has dropped.                 *)
(***************************************************************************)
EXTENDS Naturals, FiniteSets, Sequences

CONSTANTS
  Names,         \* names that agents may be given
  NoName,
  MaxTasks,      \* bound on the tasks of the session
  Departures,    \* what may go differently from a plain run
  MaxDepartures  \* bound on how often it does

(* stop      an agent is stopped: its cancel_event is None, and it goes on *)
(* foreign   a round evicts a task another agent is not yet told of        *)
(* orphan    an agent ends before the tasks that it owns                   *)
(* crash     an agent's run raises                                         *)
(* unopened  a tool raises, or is cancelled, before it registers its task  *)
(* again     a stopped agent is resumed a second time                      *)
(* hijack    an agent is resumed when its name has gone to another one     *)
(* survivor  the session is closed while agents of it run                  *)
AllDepartures == {"stop", "foreign", "orphan", "crash", "unopened", "again",
                  "hijack", "survivor"}

ASSUME TasksAssumption ==
  /\ NoName \notin Names /\ MaxTasks \in Nat /\ MaxDepartures \in Nat
  /\ Departures \subseteq AllDepartures

Kinds    == {"shell", "monitor", "agent"}
Terminal == {"ended", "killed"}    \* "ended" is completed or failed

VARIABLES
  departs,   \* the departures so far (history)
  spent,     \* and how often there was one (bound)
  turn,      \* agent 0 is in a turn
  stage,     \* "open", "closing" while the session is torn down, "closed"
  doomed,    \* the tasks that shutdown() has yet to visit
  tasks,     \* kind, owner_agent_id, name, and the task it resumes
  life,      \* what its process or its agent does
  status,    \* TaskState.status
  present,   \* TaskRegistry._tasks
  notified,  \* the tasks whose notified flag is set
  queue,     \* how often each task is in _notification_queue
  names,     \* _name_to_id, 0 for a name not in it
  reminders, \* the tasks told of in session.pending_reminders
  notices,   \* how many reminders were made of each task (history)
  told       \* the tasks whose reminder was read (history)

registry == <<status, present, notified, queue, names>>
telling  == <<reminders, notices, told>>
vars == <<departs, spent, turn, stage, doomed, tasks, life, registry, telling>>

When(c, d) == IF c THEN {d} ELSE {}

\* The step departs from a plain run in the ways ds.
Departs(ds) ==
  /\ ds \subseteq Departures /\ spent + Cardinality(ds) <= MaxDepartures
  /\ departs' = departs \cup ds /\ spent' = spent + Cardinality(ds)

Plain == UNCHANGED <<departs, spent>>

-----------------------------------------------------------------------------
Ids       == DOMAIN tasks
Agents    == {i \in Ids : tasks[i].kind = "agent"}
Queued    == {i \in Ids : queue[i] > 0}
OwnedBy(a) == {i \in Ids : tasks[i].owner = a}
IsLive(i)  == life[i] \in {"created", "alive"}

\* The agents that may call tools, and those whose calls are all back.
Actors  == When(turn, 0) \cup {i \in Agents : life[i] = "alive" /\ stage # "closed"}
Between == {a \in Actors : \A i \in OwnedBy(a) : life[i] # "opening"}

\* evict_terminal: also the tasks whose notification still waits.
Evictable == {i \in present \cap notified : status[i] \in Terminal}

Init ==
  /\ departs = {} /\ spent = 0
  /\ turn = FALSE /\ stage = "open" /\ doomed = {}
  /\ tasks = <<>> /\ life = <<>>
  /\ status = <<>> /\ present = {} /\ notified = {} /\ queue = <<>>
  /\ names = [n \in Names |-> 0]
  /\ reminders = {} /\ notices = <<>> /\ told = {}

-----------------------------------------------------------------------------
(* The registry                                                            *)

\* Variant: the flag is not looked at.
EnqueueAlways(i, q) ==
  /\ notified' = notified \cup (present \cap {i})
  /\ queue' = IF i \in present THEN [q EXCEPT ![i] = @ + 1] ELSE q

\* enqueue_notification: once, and for a task that is there.
Enqueue(i, q) ==
  /\ notified' = notified \cup (present \cap {i})
  /\ queue' = IF i \in present \ notified THEN [q EXCEPT ![i] = @ + 1] ELSE q

\* update_status, whatever the status was.
Update(i, s) == status' = IF i \in present THEN [status EXCEPT ![i] = s] ELSE status

\* drain_notifications: what is left for the other agents.
LeftFor(a) == [i \in Ids |-> IF i \in OwnedBy(a) THEN 0 ELSE queue[i]]

\* A reminder of each of a's notifications whose task is still there; the
\* reminders are kept by a session that is open.
Remind(a) ==
  LET due == Queued \cap OwnedBy(a) \cap present
  IN  /\ reminders' = IF stage = "open" THEN reminders \cup due ELSE reminders
      /\ notices' = [i \in Ids |-> notices[i] + IF i \in due THEN queue[i] ELSE 0]

\* setup_turn: the prompt gets the session's reminders, whoever's they are.
Read ==
  /\ told' = IF stage = "open" THEN told \cup reminders ELSE told
  /\ reminders' = IF stage = "open" THEN {} ELSE reminders
  /\ UNCHANGED notices

\* Variant: the names of evicted tasks stay.
NamesStay(gone) == names

\* evict_terminal's second half.
NamesWithout(gone) == [n \in Names |-> IF names[n] \in gone THEN 0 ELSE names[n]]

-----------------------------------------------------------------------------
(* Agents' turns                                                           *)

\* A turn of agent 0 begins.
StartTurn ==
  /\ ~turn /\ stage = "open" /\ turn' = TRUE
  /\ Read /\ Plain
  /\ UNCHANGED <<stage, doomed, tasks, life, registry>>

EndTurn ==
  /\ 0 \in Between /\ turn' = FALSE
  /\ Plain /\ UNCHANGED <<stage, doomed, tasks, life, registry, telling>>

\* Variant: what has ended is evicted first.
EvictThenDrain(a) ==
  /\ a \in Between
  /\ Departs(When(\E i \in Evictable : i \in Queued \ OwnedBy(a), "foreign"))
  /\ queue' = LeftFor(a)
  /\ present' = present \ Evictable /\ names' = NamesWithout(Evictable)
  /\ UNCHANGED <<turn, stage, doomed, tasks, life, status, notified, telling>>

\* drain_task_notifications, when the results of a round of tools are in.
ToolRound(a) ==
  /\ a \in Between
  /\ Departs(When(\E i \in Evictable : i \in Queued \ OwnedBy(a), "foreign"))
  /\ Remind(a) /\ queue' = LeftFor(a)
  /\ present' = present \ Evictable /\ names' = NamesWithout(Evictable)
  /\ UNCHANGED <<turn, stage, doomed, tasks, life, status, notified, told>>

\* The coroutine of agent i begins, with a turn of its own.
Begin(i) ==
  /\ i \in Agents /\ life[i] = "created"
  /\ life' = [life EXCEPT ![i] = "alive"]
  /\ Read /\ Plain
  /\ UNCHANGED <<turn, stage, doomed, tasks, registry>>

\* The agent's turn ends: the notifications it left are claimed for the
\* session's reminders, then its own is enqueued.
AgentEnds(i) ==
  /\ i \in Agents \cap Between
  /\ Departs(When(\E j \in OwnedBy(i) : life[j] # "over", "orphan"))
  /\ life' = [life EXCEPT ![i] = "over"]
  /\ Remind(i)
  /\ Update(i, "ended") /\ Enqueue(i, LeftFor(i))
  /\ UNCHANGED <<turn, stage, doomed, tasks, present, names, told>>

\* Its run raises: nothing is claimed.
AgentFails(i) ==
  /\ i \in Agents \cap Between /\ Departs({"crash"})
  /\ life' = [life EXCEPT ![i] = "over"]
  /\ Update(i, "ended") /\ Enqueue(i, queue)
  /\ UNCHANGED <<turn, stage, doomed, tasks, present, names, telling>>

-----------------------------------------------------------------------------
(* The tools                                                               *)

\* A call that opens a task awaits its output file.
Asks(task) ==
  /\ Len(tasks) < MaxTasks
  /\ tasks' = Append(tasks, task) /\ life' = Append(life, "opening")
  /\ status' = Append(status, "none")
  /\ queue' = Append(queue, 0) /\ notices' = Append(notices, 0)

\* bash, monitor and agent in the background; an agent's name is taken first.
Open(a, kind, name) ==
  /\ a \in Actors
  /\ name # NoName => kind = "agent" /\ names[name] = 0
  /\ Asks([kind |-> kind, owner |-> a, name |-> name, from |-> 0])
  /\ names' = [n \in Names |-> IF n = name THEN Len(tasks) + 1 ELSE names[n]]
  /\ Plain
  /\ UNCHANGED <<turn, stage, doomed, present, notified, reminders, told>>

\* send_message to an agent that has ended: a task that goes on with it.
Resume(a, i) ==
  /\ a \in Actors /\ i \in Agents \cap present /\ status[i] \in Terminal
  /\ Departs(When(\E j \in Ids : tasks[j].from = i, "again"))
  /\ Asks([kind |-> "agent", owner |-> a, name |-> tasks[i].name, from |-> i])
  /\ UNCHANGED <<turn, stage, doomed, present, notified, names, reminders, told>>

\* register, and update_name for an agent that is resumed.
Register(i) ==
  LET name  == tasks[i].name
      moves == tasks[i].from # 0 /\ name # NoName
  IN  /\ life[i] = "opening"
      /\ Departs(When(moves /\ names[name] \notin {0, tasks[i].from}
                            /\ "again" \notin departs, "hijack"))
      /\ life' = [life EXCEPT ![i] = IF tasks[i].kind = "agent" THEN "created" ELSE "alive"]
      /\ present' = present \cup {i} /\ status' = [status EXCEPT ![i] = "running"]
      /\ names' = IF moves THEN [names EXCEPT ![name] = i] ELSE names
      /\ UNCHANGED <<turn, stage, doomed, tasks, notified, queue, telling>>

\* The file or the process cannot be had, or the turn is cancelled.
OpenFails(i) ==
  /\ life[i] = "opening" /\ Departs({"unopened"})
  /\ life' = [life EXCEPT ![i] = "over"]
  /\ UNCHANGED <<turn, stage, doomed, tasks, registry, telling>>

\* task_stop; an agent has no cancel_event to set.
Stop(a, i) ==
  /\ a \in Actors /\ i \in present /\ status[i] = "running"
  /\ Departs(When(i \in Agents, "stop"))
  /\ life' = IF i \in Agents THEN life ELSE [life EXCEPT ![i] = "killed"]
  /\ Update(i, "killed") /\ Enqueue(i, queue)
  /\ UNCHANGED <<turn, stage, doomed, tasks, present, names, telling>>

\* The process exits, by itself, at its timeout or killed: a shell's waiter
\* writes the status again, a monitor's only over "running".
Exit(i) ==
  /\ life[i] \in {"alive", "killed"} /\ i \notin Agents
  /\ life' = [life EXCEPT ![i] = "over"]
  /\ IF tasks[i].kind = "monitor" /\ status[i] # "running"
     THEN UNCHANGED <<status, notified, queue>>
     ELSE Update(i, "ended") /\ Enqueue(i, queue)
  /\ Plain
  /\ UNCHANGED <<turn, stage, doomed, tasks, present, names, telling>>

-----------------------------------------------------------------------------
(* The end of the session                                                  *)

\* shutdown: a copy of the tasks there are; the session is idle.
CloseBegins ==
  /\ stage = "open" /\ ~turn /\ stage' = "closing"
  /\ Departs(When(\E i \in Agents : IsLive(i), "survivor"))
  /\ doomed' = present
  /\ UNCHANGED <<turn, tasks, life, registry, telling>>

\* Variant: the shells are killed, the monitors are not.
KillShell(i) ==
  /\ stage = "closing" /\ i \in doomed
  /\ IF status[i] = "running" /\ tasks[i].kind # "agent" /\ life[i] # "killed"
     THEN /\ life' = IF tasks[i].kind = "shell" THEN [life EXCEPT ![i] = "killed"] ELSE life
          /\ doomed' = IF tasks[i].kind = "shell" THEN doomed ELSE doomed \ {i}
          /\ UNCHANGED status
     ELSE /\ status' = [status EXCEPT ![i] = IF @ = "running" THEN "killed" ELSE @]
          /\ doomed' = doomed \ {i} /\ UNCHANGED life
  /\ Plain
  /\ UNCHANGED <<turn, stage, tasks, present, notified, queue, names, telling>>

\* The next task: a process is killed and awaited, one at a time; an agent,
\* and a process that is dead, is marked.
Kill(i) ==
  /\ stage = "closing" /\ i \in doomed
  /\ \A j \in doomed \ {i} : status[j] = "running" => life[j] # "killed"
  /\ IF status[i] = "running" /\ life[i] = "alive" /\ i \notin Agents
     THEN life' = [life EXCEPT ![i] = "killed"] /\ UNCHANGED <<status, doomed>>
     ELSE /\ status' = [status EXCEPT ![i] = IF @ = "running" THEN "killed" ELSE @]
          /\ doomed' = doomed \ {i} /\ UNCHANGED life
  /\ Plain
  /\ UNCHANGED <<turn, stage, tasks, present, notified, queue, names, telling>>

\* _tasks.clear(), also of what was registered in the meantime.
Close ==
  /\ stage = "closing" /\ doomed = {} /\ stage' = "closed" /\ present' = {}
  /\ Plain
  /\ UNCHANGED <<turn, doomed, tasks, life, status, notified, queue, names, telling>>

-----------------------------------------------------------------------------
\* What survives the session is not followed: its registry is nobody's.
Followed == {i \in Ids : stage # "closed"}

Next ==
  \/ StartTurn \/ EndTurn
  \/ \E a \in Actors : ToolRound(a)
  \/ \E i \in Followed : Begin(i)
  \/ \E i \in Followed : AgentEnds(i)
  \/ \E i \in Followed : AgentFails(i)
  \/ \E a \in Actors, k \in Kinds, n \in Names \cup {NoName} : Open(a, k, n)
  \/ \E a \in Actors, i \in Followed : Resume(a, i)
  \/ \E i \in Followed : Register(i)
  \/ \E i \in Followed : OpenFails(i)
  \/ \E a \in Actors, i \in Followed : Stop(a, i)
  \/ \E i \in Followed : Exit(i)
  \/ CloseBegins \/ Close
  \/ \E i \in Followed : Kill(i)

Spec == Init /\ [][Next]_vars

-----------------------------------------------------------------------------
(* Properties                                                              *)

Tolerates(ds) == departs \subseteq ds

\* The domains of the variables.
TypeOK ==
  /\ turn \in BOOLEAN /\ stage \in {"open", "closing", "closed"}
  /\ tasks \in Seq([kind : Kinds, owner : Nat, name : Names \cup {NoName}, from : Nat])
  /\ life \in [Ids -> {"opening", "created", "alive", "killed", "over"}]
  /\ status \in [Ids -> {"none", "running"} \cup Terminal]
  /\ doomed \subseteq Ids /\ present \subseteq Ids
  /\ names \in [Names -> {0} \cup Ids]
  /\ queue \in [Ids -> Nat] /\ notices \in [Ids -> Nat]
  /\ notified \subseteq Ids /\ reminders \subseteq Ids /\ told \subseteq Ids

\* Nobody is told twice that a task has ended, though a stop and the exit it
\* brings about both report it.
ToldOnce == \A i \in Ids : notices[i] <= 1

\* A task that has ended is told of, or its notification waits, in the queue
\* or as a reminder: no order of exits, rounds and evictions loses it.
NoneForgotten ==
  Tolerates(AllDepartures \ {"foreign"}) /\ stage = "open" =>
    \A i \in Ids : status[i] \in Terminal =>
      i \in Queued \cup reminders \cup told

\* A name leads to a task that is there or is being opened.
NameLeads ==
  Tolerates(AllDepartures \ {"unopened"}) /\ stage # "closed" =>
    \A n \in Names : names[n] # 0 => names[n] \in present \/ life[names[n]] = "opening"

\* A session that was closed leaves no process behind.
NoProcessLeft ==
  Tolerates(AllDepartures \ {"survivor"}) /\ stage = "closed" =>
    \A i \in Ids \ Agents : life[i] # "alive"
=============================================================================
