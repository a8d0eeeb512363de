--------------------------- MODULE TaskRegistryProofs ---------------------------
(***************************************************************************)
(* What holds of the background tasks of a session for any number of tasks *)
(* and any names: a closed session leaves no process behind, a name leads  *)
(* to a task, and the end of a task is told once and not forgotten.        *)
(***************************************************************************)
EXTENDS TaskRegistry, SequenceTheorems, TLAPS

Lives  == {"opening", "created", "alive", "killed", "over"}
States == {"none", "running"} \cup Terminal
Tasks  == [kind : Kinds, owner : Nat, name : Names \cup {NoName}, from : Nat]

-----------------------------------------------------------------------------
(* Sequences                                                               *)

\* A sequence with one more element.
LEMMA Appended ==
  ASSUME NEW S, NEW x \in S, NEW m \in Nat, NEW s \in [1..m -> S]
  PROVE  /\ Append(s, x) \in [1..(m + 1) -> S]
         /\ \A i \in 1..m : Append(s, x)[i] = s[i]
         /\ Append(s, x)[m + 1] = x
<1>1. s \in Seq(S)
  BY SeqDef
<1>2. Len(s) \in Nat /\ DOMAIN s = 1..Len(s) /\ DOMAIN s = 1..m
  BY <1>1, LenProperties
<1>3. Len(s) = m
  <2>1. m \in 1..Len(s) \/ m = 0
    BY <1>2
  <2>2. Len(s) \in 1..m \/ Len(s) = 0
    BY <1>2
  <2> QED BY <1>2, <2>1, <2>2
<1>4. /\ Append(s, x) \in Seq(S) /\ Len(Append(s, x)) = m + 1
      /\ \A i \in 1..m : Append(s, x)[i] = s[i]
      /\ Append(s, x)[m + 1] = x
  BY <1>1, <1>3, AppendProperties
<1> QED BY <1>4, LenProperties

-----------------------------------------------------------------------------
(* The parts of the invariant                                              *)

\* The domains of what the proof is about.
Shapes ==
  /\ tasks \in Seq(Tasks)
  /\ life \in [Ids -> Lives] /\ status \in [Ids -> States]
  /\ turn \in BOOLEAN /\ stage \in {"open", "closing", "closed"}
  /\ stage # "open" => ~turn
  /\ present \subseteq Ids /\ doomed \subseteq Ids
  /\ names \in [Names -> {0} \cup Ids]

\* A task that is being opened is a call of an agent in a turn.
OpenedByActors ==
  stage # "closed" => \A i \in Ids : life[i] = "opening" => tasks[i].owner \in Actors

\* A process that runs is in the registry, as running.
RunningIsKnown ==
  stage # "closed" => \A i \in Ids \ Agents : life[i] = "alive" => i \in present /\ status[i] = "running"

\* While the session is torn down no agent is at work, and what runs is still
\* to be visited.
ClosingIsCalm ==
  "survivor" \notin departs /\ stage = "closing" =>
    /\ ~turn /\ \A i \in Agents : ~IsLive(i)
    /\ \A i \in Ids \ Agents : life[i] = "alive" => i \in doomed

ClosedIsDead ==
  "survivor" \notin departs /\ stage = "closed" => \A i \in Ids \ Agents : life[i] # "alive"

NamesLead ==
  "unopened" \notin departs /\ stage # "closed" =>
    \A n \in Names : names[n] # 0 => names[n] \in present \/ life[names[n]] = "opening"

RInv == /\ Shapes /\ OpenedByActors /\ RunningIsKnown
        /\ ClosingIsCalm /\ ClosedIsDead /\ NamesLead

\* The tasks are numbered from 1 on.
LEMMA TasksNumbered ==
  ASSUME Shapes
  PROVE  /\ Len(tasks) \in Nat /\ Ids = 1..Len(tasks)
         /\ \A i \in Ids : tasks[i] \in Tasks /\ i # 0
<1>1. Len(tasks) \in Nat /\ Ids = 1..Len(tasks)
  BY LenProperties DEF Shapes, Ids
<1> QED BY <1>1, ElementOfSeq DEF Shapes

\* The agents at work are numbered, and there are none in a closed session.
LEMMA ActorsNumbered ==
  ASSUME Shapes, NEW a \in Actors
  PROVE  a \in Nat /\ stage # "closed"
  BY TasksNumbered DEF Shapes, Actors, When, Agents

\* At first there is no task.
LEMMA InitRInv == Init => RInv
<1> SUFFICES ASSUME Init PROVE RInv
  OBVIOUS
<1>1. tasks \in Seq(Tasks) /\ Len(tasks) = 0
  BY EmptySeq DEF Init
<1>2. Ids = {}
  BY <1>1, LenProperties DEF Ids
<1>3. Agents = {}
  BY <1>2 DEF Agents
<1>4. \A S : <<>> \in [{} -> S]
  OBVIOUS
<1>5. Shapes
  BY <1>1, <1>2, <1>4 DEF Init, Shapes
<1> QED BY <1>2, <1>3, <1>5 DEF Init, RInv, OpenedByActors, RunningIsKnown, ClosingIsCalm,
                               ClosedIsDead, NamesLead

-----------------------------------------------------------------------------
(* A new task                                                              *)

\* A call that opens a task adds one that is being opened.
LEMMA AsksKeeps ==
  ASSUME RInv, NEW a \in Actors, NEW task \in Tasks, task.owner = a, stage # "closed", Asks(task),
         UNCHANGED <<turn, stage, doomed, present>>, departs \subseteq departs',
         \/ names' = names
         \/ names' = [n \in Names |-> IF n = task.name THEN Len(tasks) + 1 ELSE names[n]]
  PROVE  RInv'
<1> DEFINE m == Len(tasks)
<1>1. m \in Nat /\ Ids = 1..m /\ tasks \in [1..m -> Tasks] /\ tasks \in Seq(Tasks)
  BY TasksNumbered, LenProperties DEF RInv, Shapes
<1>2. tasks' = Append(tasks, task) /\ life' = Append(life, "opening") /\ status' = Append(status, "none")
  BY DEF Asks
<1>3. /\ tasks' \in Seq(Tasks) /\ Ids' = 1..(m + 1)
      /\ \A i \in 1..m : tasks'[i] = tasks[i]
      /\ tasks'[m + 1] = task
  BY <1>1, <1>2, AppendProperties, LenProperties DEF Ids
<1>4. /\ life' \in [1..(m + 1) -> Lives]
      /\ \A i \in 1..m : life'[i] = life[i]
      /\ life'[m + 1] = "opening"
  <2>1. life \in [1..m -> Lives] /\ "opening" \in Lives
    BY <1>1 DEF RInv, Shapes, Lives
  <2> HIDE DEF m
  <2>2. life' \in [1..(m + 1) -> Lives]
    BY <1>1, <1>2, <2>1, Appended
  <2>3. life'[m + 1] = "opening"
    BY <1>1, <1>2, <2>1, Appended
  <2>4. \A i \in 1..m : life'[i] = life[i]
    BY <1>1, <1>2, <2>1, Appended
  <2> QED BY <2>2, <2>3, <2>4
<1>5. /\ status' \in [1..(m + 1) -> States]
      /\ \A i \in 1..m : status'[i] = status[i]
  <2>1. status \in [1..m -> States] /\ "none" \in States
    BY <1>1 DEF RInv, Shapes, States
  <2> HIDE DEF m
  <2>2. status' \in [1..(m + 1) -> States]
    BY <1>1, <1>2, <2>1, Appended
  <2>3. \A i \in 1..m : status'[i] = status[i]
    BY <1>1, <1>2, <2>1, Appended
  <2> QED BY <2>2, <2>3
<1> HIDE DEF m
<1>6. \A i \in 1..(m + 1) : i \in 1..m \/ i = m + 1
  BY <1>1
<1>7. names' \in [Names -> {0} \cup Ids']
  BY <1>1, <1>3 DEF RInv, Shapes, m
<1>8. Shapes'
  BY <1>1, <1>3, <1>4, <1>5, <1>7 DEF RInv, Shapes
<1>9. Actors \subseteq Actors'
  <2> SUFFICES ASSUME NEW b \in Actors PROVE b \in Actors'
    OBVIOUS
  <2>1. CASE b = 0 /\ turn
    BY <2>1 DEF Actors, When
  <2>2. CASE b \in Agents /\ life[b] = "alive" /\ stage # "closed"
    <3>1. b \in 1..m /\ tasks[b].kind = "agent"
      BY <1>1, <2>2 DEF Agents
    <3>2. b \in Agents' /\ life'[b] = "alive"
      BY <1>1, <1>3, <1>4, <2>2, <3>1 DEF Agents
    <3> QED BY <2>2, <3>2 DEF Actors
  <2> QED BY <2>1, <2>2 DEF Actors, When
<1>10. \A i \in 1..m : i \in Agents' <=> i \in Agents
  BY <1>1, <1>3 DEF Agents
<1>11. OpenedByActors'
  BY <1>1, <1>3, <1>4, <1>6, <1>9 DEF RInv, OpenedByActors
<1>12. RunningIsKnown'
  BY <1>1, <1>3, <1>4, <1>5, <1>6, <1>10 DEF RInv, RunningIsKnown
<1>13. ClosingIsCalm'
  <2> SUFFICES ASSUME "survivor" \notin departs', stage' = "closing" PROVE ClosingIsCalm'
    BY DEF ClosingIsCalm
  <2>1. ~turn /\ \A i \in Agents : ~IsLive(i)
    BY DEF RInv, ClosingIsCalm
  <2> QED BY <2>1 DEF Actors, When, IsLive
<1>14. ClosedIsDead'
  BY DEF ClosedIsDead
<1>15. NamesLead'
  <2> SUFFICES ASSUME "unopened" \notin departs', NEW n \in Names, names'[n] # 0
               PROVE  names'[n] \in present' \/ life'[names'[n]] = "opening"
    BY DEF NamesLead
  <2>1. CASE names'[n] = m + 1
    BY <1>4, <2>1
  <2>2. CASE names'[n] # m + 1
    <3>1. names'[n] = names[n] /\ names[n] \in 1..m
      BY <1>1, <2>2 DEF RInv, Shapes, m
    <3>2. names[n] \in present \/ life[names[n]] = "opening"
      BY <3>1 DEF RInv, NamesLead
    <3> QED BY <1>4, <3>1, <3>2
  <2> QED BY <2>1, <2>2
<1> QED BY <1>8, <1>11, <1>12, <1>13, <1>14, <1>15 DEF RInv

-----------------------------------------------------------------------------
(* The other steps                                                         *)

\* The same tasks are the same agents.
LEMMA SameTasks ==
  ASSUME tasks' = tasks
  PROVE  Ids' = Ids /\ Agents' = Agents /\ \A a : OwnedBy(a)' = OwnedBy(a)
  BY DEF Ids, Agents, OwnedBy

\* A step that changes the status only of what is no running process, and the
\* life only of agents that were begun.
LEMMA AgentSteps ==
  ASSUME RInv, stage # "closed",
         \/ StartTurn \/ EndTurn
         \/ \E i \in Ids : Begin(i) \/ AgentEnds(i) \/ AgentFails(i)
  PROVE  RInv'
<1>1. /\ UNCHANGED <<tasks, stage, doomed, present, names>> /\ departs \subseteq departs'
  BY DEF StartTurn, EndTurn, Begin, AgentEnds, AgentFails, registry, Plain, Departs
<1>2. /\ Ids' = Ids /\ Agents' = Agents /\ \A a : OwnedBy(a)' = OwnedBy(a)
      /\ Agents \subseteq Ids
  BY <1>1, SameTasks DEF Agents
<1>3. /\ life \in [Ids -> Lives] /\ status \in [Ids -> States] /\ turn \in BOOLEAN
      /\ {"alive", "over"} \subseteq Lives /\ "ended" \in States
  BY DEF RInv, Shapes, Lives, States, Terminal
<1>4. CASE StartTurn
  <2>1. life' = life /\ status' = status /\ turn' = TRUE /\ stage = "open"
    BY <1>4 DEF StartTurn, registry
  <2>2. Actors \subseteq Actors'
    BY <1>1, <1>2, <2>1 DEF Actors, When
  <2>3. Shapes' /\ RunningIsKnown' /\ NamesLead'
    BY <1>1, <1>2, <2>1 DEF RInv, Shapes, RunningIsKnown, NamesLead
  <2>4. OpenedByActors'
    BY <1>1, <1>2, <2>1, <2>2 DEF RInv, OpenedByActors
  <2>5. ClosingIsCalm' /\ ClosedIsDead'
    BY <1>1, <2>1 DEF ClosingIsCalm, ClosedIsDead
  <2> QED BY <2>3, <2>4, <2>5 DEF RInv
<1>5. CASE EndTurn
  <2>1. life' = life /\ status' = status /\ turn' = FALSE /\ 0 \in Between
    BY <1>5 DEF EndTurn, registry
  <2>2. Actors \subseteq Actors' \cup {0}
    BY <1>1, <1>2, <2>1 DEF Actors, When
  <2>3. \A i \in Ids : life[i] = "opening" => tasks[i].owner # 0
    BY <2>1 DEF Between, OwnedBy
  <2>4. Shapes' /\ RunningIsKnown' /\ NamesLead' /\ ClosedIsDead'
    BY <1>1, <1>2, <2>1 DEF RInv, Shapes, RunningIsKnown, NamesLead, ClosedIsDead
  <2>5. OpenedByActors'
    BY <1>1, <1>2, <2>1, <2>2, <2>3 DEF RInv, OpenedByActors
  <2>6. ClosingIsCalm'
    BY <1>1, <1>2, <2>1 DEF RInv, ClosingIsCalm, IsLive
  <2> QED BY <2>4, <2>5, <2>6 DEF RInv
<1>6. ASSUME NEW i \in Agents, i \in Ids, IsLive(i), turn' = turn,
             NEW s \in {"alive", "over"}, life' = [life EXCEPT ![i] = s],
             status' \in [Ids -> States], \A j \in Ids \ {i} : status'[j] = status[j],
             s = "over" => i \in Between
      PROVE  RInv'
  <2>1. life' \in [Ids -> Lives] /\ life[i] # "opening"
    BY <1>3, <1>6 DEF IsLive
  <2>2. Shapes'
    BY <1>1, <1>2, <1>3, <1>6, <2>1 DEF RInv, Shapes
  <2>3. \A j \in Ids : life'[j] = "opening" <=> life[j] = "opening"
    BY <1>3, <1>6, <2>1
  <2>4. ASSUME NEW j \in Ids, life[j] = "opening" PROVE tasks[j].owner \in Actors'
    <3>1. tasks[j].owner \in Actors
      BY <2>4 DEF RInv, OpenedByActors
    <3>2. CASE tasks[j].owner = i /\ s = "over"
      BY <1>6, <2>4, <3>2 DEF Between, OwnedBy
    <3>3. CASE tasks[j].owner = i /\ s = "alive"
      BY <1>1, <1>2, <1>3, <1>6, <3>3 DEF Actors
    <3>4. CASE tasks[j].owner # i
      BY <1>1, <1>2, <1>3, <1>6, <3>1, <3>4 DEF Actors, When
    <3> QED BY <1>6, <3>2, <3>3, <3>4
  <2>5. OpenedByActors'
    BY <1>1, <1>2, <2>3, <2>4 DEF OpenedByActors
  <2>6. \A j \in Ids \ Agents : life'[j] = life[j] /\ status'[j] = status[j]
    BY <1>3, <1>6
  <2>7. RunningIsKnown' /\ ClosedIsDead'
    BY <1>1, <1>2, <2>6 DEF RInv, RunningIsKnown, ClosedIsDead
  <2>8. NamesLead'
    <3>1. \A n \in Names : names[n] # 0 => names[n] \in Ids
      BY DEF RInv, Shapes
    <3> QED BY <1>1, <2>3, <3>1 DEF RInv, NamesLead
  <2>9. ClosingIsCalm'
    <3> SUFFICES ASSUME "survivor" \notin departs', stage' = "closing" PROVE FALSE
      BY DEF ClosingIsCalm
    <3> QED BY <1>1, <1>6 DEF RInv, ClosingIsCalm
  <2> QED BY <2>2, <2>5, <2>7, <2>8, <2>9 DEF RInv
<1>7. CASE \E i \in Ids : Begin(i)
  <2>1. PICK i \in Ids : Begin(i)
    BY <1>7
  <2> QED BY <1>3, <1>6, <2>1 DEF Begin, IsLive, registry
<1>8. CASE \E i \in Ids : AgentEnds(i) \/ AgentFails(i)
  <2>1. PICK i \in Ids : AgentEnds(i) \/ AgentFails(i)
    BY <1>8
  <2>2. i \in Agents /\ i \in Between /\ life' = [life EXCEPT ![i] = "over"] /\ turn' = turn
        /\ Update(i, "ended")
    BY <2>1 DEF AgentEnds, AgentFails
  <2>3. 0 \notin Agents
    BY <1>2, TasksNumbered DEF RInv
  <2>4. IsLive(i)
    BY <2>2, <2>3 DEF Between, Actors, When, IsLive
  <2>5. status' \in [Ids -> States] /\ \A j \in Ids \ {i} : status'[j] = status[j]
    BY <1>3, <2>2 DEF Update
  <2> QED BY <1>6, <2>1, <2>2, <2>4, <2>5
<1> QED BY <1>4, <1>5, <1>7, <1>8

\* A round of tools: what is evicted was over, and its name goes with it.
LEMMA RoundKeeps ==
  ASSUME RInv, stage # "closed", NEW a \in Actors, ToolRound(a)
  PROVE  RInv'
<1>1. /\ UNCHANGED <<tasks, stage, doomed, turn, life, status>> /\ departs \subseteq departs'
      /\ present' = present \ Evictable /\ names' = NamesWithout(Evictable)
  BY DEF ToolRound, Departs
<1>2. Ids' = Ids /\ Agents' = Agents /\ Actors' = Actors
  BY <1>1, SameTasks DEF Actors
<1>3. \A i \in Evictable : status[i] # "running"
  BY DEF Evictable, Terminal
<1>4. \A n \in Names : names'[n] = 0 \/ (names'[n] = names[n] /\ names[n] \notin Evictable)
  BY <1>1 DEF NamesWithout
<1>5. Shapes'
  <2>1. names' \in [Names -> {0} \cup Ids]
    BY <1>1 DEF RInv, Shapes, NamesWithout
  <2> QED BY <1>1, <1>2, <2>1 DEF RInv, Shapes
<1>6. OpenedByActors' /\ ClosedIsDead'
  BY <1>1, <1>2 DEF RInv, OpenedByActors, ClosedIsDead
<1>7. RunningIsKnown'
  BY <1>1, <1>2, <1>3 DEF RInv, RunningIsKnown
<1>8. ClosingIsCalm'
  BY <1>1, <1>2 DEF RInv, ClosingIsCalm, IsLive
<1>9. NamesLead'
  BY <1>1, <1>4 DEF RInv, NamesLead
<1> QED BY <1>5, <1>6, <1>7, <1>8, <1>9 DEF RInv

\* A task is registered, or cannot be had.
LEMMA OpeningKeeps ==
  ASSUME RInv, stage # "closed", NEW i \in Ids, Register(i) \/ OpenFails(i)
  PROVE  RInv'
<1>1. /\ UNCHANGED <<tasks, stage, doomed, turn>> /\ departs \subseteq departs'
      /\ life[i] = "opening"
  BY DEF Register, OpenFails, Departs
<1>2. Ids' = Ids /\ Agents' = Agents
  BY <1>1, SameTasks
<1>3. /\ life \in [Ids -> Lives] /\ status \in [Ids -> States] /\ present \subseteq Ids
      /\ names \in [Names -> {0} \cup Ids] /\ tasks[i].name \in Names \cup {NoName}
      /\ {"alive", "created", "over"} \subseteq Lives /\ "running" \in States
  BY TasksNumbered DEF RInv, Shapes, Lives, States, Tasks
<1>4. PICK s \in {"alive", "created", "over"} : life' = [life EXCEPT ![i] = s]
  BY DEF Register, OpenFails
<1>5. Actors \subseteq Actors'
  BY <1>1, <1>2, <1>3, <1>4 DEF Actors, When, Agents
<1>6. tasks[i].owner \in Actors
  BY <1>1 DEF RInv, OpenedByActors
<1>7. OpenedByActors'
  BY <1>1, <1>2, <1>3, <1>4, <1>5 DEF RInv, OpenedByActors
<1>8. "survivor" \in departs' \/ stage # "closing"
  <2>1. ASSUME "survivor" \notin departs, stage = "closing" PROVE FALSE
    BY <1>6, <2>1 DEF RInv, ClosingIsCalm, Actors, When, IsLive
  <2> QED BY <1>1, <2>1
<1>9. ClosingIsCalm' /\ ClosedIsDead'
  BY <1>1, <1>8 DEF ClosingIsCalm, ClosedIsDead
<1>10. CASE Register(i)
  <2>1. /\ present' = present \cup {i} /\ status' = [status EXCEPT ![i] = "running"]
        /\ \A n \in Names : names'[n] = names[n] \/ names'[n] = i
        /\ names' \in [Names -> {0} \cup Ids]
    BY <1>3, <1>10 DEF Register
  <2>2. Shapes'
    BY <1>1, <1>2, <1>3, <1>4, <2>1 DEF RInv, Shapes
  <2>3. RunningIsKnown'
    BY <1>1, <1>2, <1>3, <1>4, <2>1 DEF RInv, RunningIsKnown
  <2>4. NamesLead'
    BY <1>1, <1>3, <1>4, <2>1 DEF RInv, NamesLead
  <2> QED BY <1>7, <1>9, <2>2, <2>3, <2>4 DEF RInv
<1>11. CASE OpenFails(i)
  <2>1. UNCHANGED registry /\ "unopened" \in departs' /\ life' = [life EXCEPT ![i] = "over"]
    BY <1>11 DEF OpenFails, Departs
  <2>2. Shapes'
    BY <1>1, <1>2, <1>3, <1>4, <2>1 DEF RInv, Shapes, registry
  <2>3. RunningIsKnown' /\ NamesLead'
    BY <1>1, <1>2, <1>3, <2>1 DEF RInv, RunningIsKnown, NamesLead, registry
  <2> QED BY <1>7, <1>9, <2>2, <2>3 DEF RInv
<1> QED BY <1>10, <1>11

\* A process is stopped, exits, or is killed when the session ends.
LEMMA ProcessKeeps ==
  ASSUME RInv, stage # "closed",
         \/ \E a \in Actors, i \in Ids : Stop(a, i)
         \/ \E i \in Ids : Exit(i) \/ Kill(i)
  PROVE  RInv'
<1>1. /\ UNCHANGED <<tasks, stage, turn, present, names>> /\ departs \subseteq departs'
  BY DEF Stop, Exit, Kill, Departs, Plain
<1>2. Ids' = Ids /\ Agents' = Agents
  BY <1>1, SameTasks
<1>3. /\ life \in [Ids -> Lives] /\ status \in [Ids -> States] /\ present \subseteq Ids
      /\ names \in [Names -> {0} \cup Ids]
      /\ {"killed", "over"} \subseteq Lives /\ {"killed", "ended"} \subseteq States
  BY DEF RInv, Shapes, Lives, States, Terminal
<1>4. PICK i \in Ids : (\E a \in Actors : Stop(a, i)) \/ Exit(i) \/ Kill(i)
  OBVIOUS
<1>5. /\ life' \in [Ids -> Lives] /\ status' \in [Ids -> States]
      /\ \A j \in Ids \ {i} : life'[j] = life[j] /\ status'[j] = status[j]
      /\ doomed' \in {doomed, doomed \ {i}}
  <2>1. CASE \E a \in Actors : Stop(a, i)
    BY <1>3, <2>1 DEF Stop, Update
  <2>2. CASE Exit(i)
    BY <1>3, <2>2 DEF Exit, Update, registry
  <2>3. CASE Kill(i)
    BY <1>3, <2>3 DEF Kill
  <2> QED BY <1>4, <2>1, <2>2, <2>3
<1>6. /\ i \in Agents => life'[i] = life[i]
      /\ i \notin Agents => life'[i] = life[i] \/ life'[i] \in {"killed", "over"}
      /\ life'[i] # life[i] => life[i] # "opening" \/ i \in present
      /\ i \notin Agents /\ life'[i] = "alive" => status'[i] = status[i] \/ status[i] # "running"
      /\ i \notin Agents /\ life'[i] = "alive" => doomed' = doomed \/ status[i] # "running"
  <2>1. CASE \E a \in Actors : Stop(a, i)
    BY <1>3, <2>1 DEF Stop, Update
  <2>2. CASE Exit(i)
    BY <1>3, <2>2 DEF Exit
  <2>3. CASE Kill(i)
    BY <1>3, <2>3 DEF Kill
  <2> QED BY <1>4, <2>1, <2>2, <2>3
<1>7. Shapes'
  BY <1>1, <1>2, <1>5 DEF RInv, Shapes
<1>8. Actors' = Actors
  BY <1>1, <1>2, <1>3, <1>5, <1>6 DEF Actors, Agents
<1>9. OpenedByActors'
  BY <1>1, <1>2, <1>3, <1>5, <1>6, <1>8 DEF RInv, OpenedByActors, Agents
<1>10. RunningIsKnown'
  BY <1>1, <1>2, <1>3, <1>5, <1>6 DEF RInv, RunningIsKnown
<1>11. ClosingIsCalm'
  <2> SUFFICES ASSUME "survivor" \notin departs', stage' = "closing" PROVE ClosingIsCalm'
    BY DEF ClosingIsCalm
  <2>1. /\ ~turn /\ \A j \in Agents : ~IsLive(j)
        /\ \A j \in Ids \ Agents : life[j] = "alive" => j \in doomed /\ status[j] = "running"
    BY <1>1 DEF RInv, ClosingIsCalm, RunningIsKnown
  <2>2. \A j \in Agents : life'[j] = life[j]
    BY <1>5, <1>6 DEF Agents
  <2>3. \A j \in Ids \ Agents : life'[j] = "alive" => life[j] = "alive"
    BY <1>5, <1>6
  <2>4. \A j \in Ids \ Agents : life'[j] = "alive" => j \in doomed'
    BY <1>5, <1>6, <2>1, <2>3
  <2> QED BY <1>1, <1>2, <2>1, <2>2, <2>4 DEF ClosingIsCalm, IsLive
<1>12. ClosedIsDead'
  BY <1>1 DEF ClosedIsDead
<1>13. NamesLead'
  BY <1>1, <1>3, <1>5, <1>6 DEF RInv, NamesLead
<1> QED BY <1>7, <1>9, <1>10, <1>11, <1>12, <1>13 DEF RInv

\* The session begins to close, and is closed.
LEMMA CloseKeeps ==
  ASSUME RInv, CloseBegins \/ Close
  PROVE  RInv'
<1>1. /\ UNCHANGED <<tasks, turn, life, status, names>> /\ departs \subseteq departs'
      /\ present' \subseteq present
  BY DEF CloseBegins, Close, registry, Departs, Plain
<1>2. Ids' = Ids /\ Agents' = Agents
  BY <1>1, SameTasks
<1>3. CASE CloseBegins
  <2>1. /\ stage = "open" /\ stage' = "closing" /\ ~turn /\ doomed' = present /\ present' = present
        /\ "survivor" \notin departs' => \A i \in Agents : ~IsLive(i)
    BY <1>3 DEF CloseBegins, registry, Departs, When
  <2>2. Actors' = Actors
    BY <1>1, <1>2, <2>1 DEF Actors
  <2>3. Shapes' /\ OpenedByActors' /\ RunningIsKnown' /\ ClosedIsDead' /\ NamesLead'
    BY <1>1, <1>2, <2>1, <2>2 DEF RInv, Shapes, OpenedByActors, RunningIsKnown, ClosedIsDead, NamesLead
  <2>4. ClosingIsCalm'
    BY <1>1, <1>2, <2>1 DEF RInv, RunningIsKnown, ClosingIsCalm, IsLive
  <2> QED BY <2>3, <2>4 DEF RInv
<1>4. CASE Close
  <2>1. stage = "closing" /\ doomed = {} /\ stage' = "closed" /\ present' = {} /\ doomed' = doomed
    BY <1>4 DEF Close
  <2>2. Shapes'
    BY <1>1, <1>2, <2>1 DEF RInv, Shapes
  <2>3. ClosedIsDead'
    BY <1>1, <1>2, <2>1 DEF RInv, ClosingIsCalm, ClosedIsDead
  <2> QED BY <2>1, <2>2, <2>3 DEF RInv, OpenedByActors, RunningIsKnown, ClosingIsCalm, NamesLead
<1> QED BY <1>3, <1>4

\* Every step keeps the invariant.
LEMMA StepRInv == RInv /\ [Next]_vars => RInv'
<1> SUFFICES ASSUME RInv, [Next]_vars PROVE RInv'
  OBVIOUS
<1>1. CASE UNCHANGED vars
  <2>1. /\ UNCHANGED <<tasks, turn, life, status, names, present, doomed, stage, departs>>
        /\ Ids' = Ids /\ Agents' = Agents
    BY <1>1, SameTasks DEF vars, registry
  <2>2. Actors' = Actors
    BY <2>1 DEF Actors
  <2> QED BY <2>1, <2>2 DEF RInv, Shapes, OpenedByActors, RunningIsKnown, ClosingIsCalm,
                            ClosedIsDead, NamesLead, IsLive
<1>2. CASE \E a \in Actors, k \in Kinds, n \in Names \cup {NoName} : Open(a, k, n)
  <2>1. PICK a \in Actors, k \in Kinds, n \in Names \cup {NoName} : Open(a, k, n)
    BY <1>2
  <2> DEFINE task == [kind |-> k, owner |-> a, name |-> n, from |-> 0]
  <2>2. a \in Nat /\ stage # "closed"
    BY ActorsNumbered DEF RInv
  <2>3. task \in Tasks /\ task.owner = a /\ task.name = n
    BY <2>2 DEF Tasks
  <2>4. /\ Asks(task) /\ UNCHANGED <<turn, stage, doomed, present>> /\ departs \subseteq departs'
        /\ names' = [x \in Names |-> IF x = task.name THEN Len(tasks) + 1 ELSE names[x]]
    BY <2>1, <2>3 DEF Open, Plain
  <2> HIDE DEF task
  <2> QED BY <2>2, <2>3, <2>4, AsksKeeps
<1>3. CASE \E a \in Actors, i \in Followed : Resume(a, i)
  <2>1. PICK a \in Actors, i \in Ids : Resume(a, i)
    BY <1>3 DEF Followed
  <2> DEFINE task == [kind |-> "agent", owner |-> a, name |-> tasks[i].name, from |-> i]
  <2>2. a \in Nat /\ stage # "closed" /\ i \in Nat /\ tasks[i] \in Tasks
    BY ActorsNumbered, TasksNumbered DEF RInv
  <2>3. task \in Tasks /\ task.owner = a
    BY <2>2 DEF Tasks, Kinds
  <2>4. /\ Asks(task) /\ UNCHANGED <<turn, stage, doomed, present, names>> /\ departs \subseteq departs'
    BY <2>1 DEF Resume, Departs
  <2> HIDE DEF task
  <2> QED BY <2>2, <2>3, <2>4, AsksKeeps
<1>4. ASSUME NEW i \in Followed PROVE i \in Ids /\ stage # "closed"
  BY <1>4 DEF Followed
<1>5. ASSUME NEW a \in Actors PROVE stage # "closed"
  BY ActorsNumbered DEF RInv
<1>6. CASE StartTurn \/ EndTurn \/ \E i \in Followed : Begin(i) \/ AgentEnds(i) \/ AgentFails(i)
  <2>1. stage # "closed"
    BY <1>4, <1>5, <1>6 DEF StartTurn, EndTurn, Between
  <2> QED BY <1>4, <1>6, <2>1, AgentSteps
<1>7. CASE \E a \in Actors : ToolRound(a)
  BY <1>5, <1>7, RoundKeeps
<1>8. CASE \E i \in Followed : Register(i) \/ OpenFails(i)
  BY <1>4, <1>8, OpeningKeeps
<1>9. CASE \/ \E a \in Actors, i \in Followed : Stop(a, i)
           \/ \E i \in Followed : Exit(i) \/ Kill(i)
  BY <1>4, <1>9, ProcessKeeps
<1> QED BY <1>1, <1>2, <1>3, <1>6, <1>7, <1>8, <1>9, CloseKeeps DEF Next

-----------------------------------------------------------------------------
(* What is told of the tasks that end                                      *)

\* Of a notified task one notification waits at most, or it was told of once.
Counts ==
  /\ queue \in [Ids -> Nat] /\ notices \in [Ids -> Nat]
  /\ notified \subseteq Ids /\ reminders \subseteq Ids /\ told \subseteq Ids
  /\ \A i \in Ids : /\ queue[i] + notices[i] <= 1
                    /\ queue[i] + notices[i] > 0 => i \in notified

\* A task that has ended is notified, and what waits is of tasks that are there,
\* so that a reminder is made of it.
Kept ==
  "foreign" \notin departs /\ stage = "open" =>
    /\ Queued \subseteq present
    /\ notified \subseteq Queued \cup reminders \cup told
    /\ \A i \in Ids : status[i] \in Terminal => i \in notified

Telling == Counts /\ Kept

\* A step that notifies of nothing.
LEMMA SameTelling ==
  ASSUME Telling, UNCHANGED <<tasks, notified, queue, notices>>, departs \subseteq departs',
         reminders \cup told = reminders' \cup told', stage' = "open" => stage = "open",
         stage' = "open" => present \subseteq present',
         stage' = "open" => \A i \in Ids : status'[i] \in Terminal => status[i] \in Terminal
  PROVE  Telling'
<1>1. Ids' = Ids /\ Queued' = Queued
  BY DEF Ids, Queued
<1>2. Counts'
  BY <1>1 DEF Telling, Counts
<1>3. Kept'
  BY <1>1 DEF Telling, Kept
<1> QED BY <1>2, <1>3 DEF Telling

\* A step that takes notifications from the queue, and makes one of a task that
\* has ended.
LEMMA EnqueueTells ==
  ASSUME Telling, UNCHANGED <<tasks, present, stage, told>>, departs \subseteq departs',
         status \in [Ids -> States],
         NEW i \in Ids, NEW s \in Terminal, NEW q \in [Ids -> Nat],
         Update(i, s), Enqueue(i, q),
         reminders' \subseteq Ids, reminders \subseteq reminders', notices' \in [Ids -> Nat],
         \A j \in Ids : q[j] <= queue[j] /\ q[j] + notices'[j] <= queue[j] + notices[j],
         stage = "open" /\ Queued \subseteq present =>
           \A j \in Queued : q[j] > 0 \/ j \in reminders'
  PROVE  Telling'
<1>1. Ids' = Ids
  BY DEF Ids
<1>2. /\ queue' \in [Ids -> Nat] /\ \A j \in Ids \ {i} : queue'[j] = q[j]
      /\ queue'[i] = IF i \in present \ notified THEN q[i] + 1 ELSE q[i]
  BY DEF Enqueue
<1>3. notified' = notified \cup (present \cap {i})
  BY DEF Enqueue
<1>4. Counts'
  <2>1. ASSUME NEW j \in Ids
        PROVE  /\ queue'[j] + notices'[j] <= 1
               /\ queue'[j] + notices'[j] > 0 => j \in notified'
    <3>1. /\ queue[j] \in Nat /\ notices[j] \in Nat /\ q[j] \in Nat /\ notices'[j] \in Nat
          /\ queue[j] + notices[j] <= 1 /\ (queue[j] + notices[j] > 0 => j \in notified)
          /\ q[j] + notices'[j] <= queue[j] + notices[j]
      BY DEF Telling, Counts
    <3>2. CASE j = i /\ i \in present \ notified
      BY <1>2, <1>3, <3>1, <3>2
    <3>3. CASE ~(j = i /\ i \in present \ notified)
      BY <1>2, <1>3, <3>1, <3>3
    <3> QED BY <3>2, <3>3
  <2> QED BY <1>1, <1>2, <1>3, <2>1 DEF Telling, Counts
<1>5. Kept'
  <2> SUFFICES ASSUME "foreign" \notin departs, stage = "open" PROVE Kept'
    BY DEF Kept
  <2>1. /\ Queued \subseteq present /\ notified \subseteq Queued \cup reminders \cup told
        /\ \A j \in Ids : status[j] \in Terminal => j \in notified
    BY DEF Telling, Kept
  <2>2. ASSUME NEW j \in Ids, queue'[j] > 0 PROVE j \in present
    <3>1. CASE q[j] > 0
      <4>1. queue[j] > 0
        BY <3>1 DEF Telling, Counts
      <4> QED BY <2>1, <4>1 DEF Queued
    <3>2. CASE ~(q[j] > 0)
      BY <1>2, <2>2, <3>2
    <3> QED BY <3>1, <3>2
  <2>3. ASSUME NEW j \in notified' PROVE j \in Queued' \cup reminders' \cup told
    <3>1. j \in Ids /\ q[j] \in Nat /\ (q[j] > 0 => queue'[j] > 0)
      BY <1>2, <1>3, <2>3 DEF Telling, Counts
    <3>2. CASE j \in notified
      BY <1>1, <2>1, <3>1, <3>2 DEF Queued
    <3>3. CASE j \notin notified
      <4>1. queue'[j] > 0
        BY <1>2, <1>3, <2>3, <3>1, <3>3
      <4> QED BY <1>1, <3>1, <4>1 DEF Queued
    <3> QED BY <3>2, <3>3
  <2>4. \A j \in Ids : status'[j] \in Terminal => j \in notified'
    BY <1>3, <2>1 DEF Update
  <2>5. Queued' \subseteq present
    BY <1>1, <2>2 DEF Queued
  <2> QED BY <1>1, <2>3, <2>4, <2>5 DEF Kept
<1> QED BY <1>4, <1>5 DEF Telling

\* The notifications of an agent, and the reminders that are made of them.
LEMMA Drained ==
  ASSUME Telling, tasks' = tasks, NEW a, Remind(a)
  PROVE  /\ LeftFor(a) \in [Ids -> Nat] /\ notices' \in [Ids -> Nat]
         /\ reminders \subseteq reminders' /\ reminders' \subseteq Ids
         /\ \A j \in Ids : /\ LeftFor(a)[j] <= queue[j]
                           /\ LeftFor(a)[j] + notices'[j] <= queue[j] + notices[j]
                           /\ j \notin OwnedBy(a) => LeftFor(a)[j] = queue[j]
                           /\ j \in OwnedBy(a) => LeftFor(a)[j] = 0
         /\ stage = "open" => Queued \cap OwnedBy(a) \cap present \subseteq reminders'
<1>1. queue \in [Ids -> Nat] /\ notices \in [Ids -> Nat] /\ reminders \subseteq Ids
  BY DEF Telling, Counts
<1>2. LeftFor(a) \in [Ids -> Nat] /\ notices' \in [Ids -> Nat]
  BY <1>1 DEF LeftFor, Remind
<1>3. ASSUME NEW j \in Ids
      PROVE  /\ LeftFor(a)[j] <= queue[j]
             /\ LeftFor(a)[j] + notices'[j] <= queue[j] + notices[j]
             /\ j \notin OwnedBy(a) => LeftFor(a)[j] = queue[j]
             /\ j \in OwnedBy(a) => LeftFor(a)[j] = 0
  <2>1. CASE j \in OwnedBy(a)
    BY <1>1, <2>1 DEF LeftFor, Remind
  <2>2. CASE j \notin OwnedBy(a)
    BY <1>1, <2>2 DEF LeftFor, Remind
  <2> QED BY <2>1, <2>2
<1>4. /\ reminders \subseteq reminders' /\ reminders' \subseteq Ids
      /\ stage = "open" => Queued \cap OwnedBy(a) \cap present \subseteq reminders'
  BY <1>1 DEF Remind, OwnedBy
<1> QED BY <1>2, <1>3, <1>4

\* A round of tools reminds of what it takes, and evicts nothing that waits.
LEMMA RoundTells ==
  ASSUME Telling, NEW a, ToolRound(a)
  PROVE  Telling'
<1>1. /\ UNCHANGED <<tasks, stage, status, notified, told>> /\ departs \subseteq departs'
      /\ Remind(a) /\ queue' = LeftFor(a) /\ present' = present \ Evictable /\ Ids' = Ids
  BY DEF ToolRound, Departs, Ids
<1>2. Counts'
  BY <1>1, Drained DEF Telling, Counts
<1>3. Kept'
  <2> SUFFICES ASSUME "foreign" \notin departs', stage = "open" PROVE Kept'
    BY <1>1 DEF Kept
  <2>1. /\ Queued \subseteq present /\ notified \subseteq Queued \cup reminders \cup told
        /\ \A j \in Ids : status[j] \in Terminal => j \in notified
    BY <1>1 DEF Telling, Kept
  <2>2. Queued' = Queued \ OwnedBy(a)
    BY <1>1, Drained DEF Queued
  <2>3. \A i \in Evictable : i \notin Queued \ OwnedBy(a)
    BY DEF ToolRound, Departs, When
  <2>4. Queued \cap OwnedBy(a) \subseteq reminders' /\ reminders \subseteq reminders'
    BY <1>1, <2>1, Drained
  <2> QED BY <1>1, <2>1, <2>2, <2>3, <2>4 DEF Kept
<1> QED BY <1>2, <1>3 DEF Telling

\* A task that is asked for is told of by nobody.
LEMMA AsksTells ==
  ASSUME Shapes, Telling, NEW task, Asks(task),
         UNCHANGED <<stage, present, notified, reminders, told>>, departs \subseteq departs'
  PROVE  Telling'
<1> DEFINE m == Len(tasks)
<1>1. m \in Nat /\ Ids = 1..m
  BY TasksNumbered
<1>2. Ids' = 1..(m + 1)
  BY AppendProperties, LenProperties DEF Asks, Shapes, Ids
<1>3. /\ queue \in [1..m -> Nat] /\ notices \in [1..m -> Nat] /\ status \in [1..m -> States]
      /\ 0 \in Nat /\ "none" \in States /\ "none" \notin Terminal
  BY <1>1 DEF Telling, Counts, Shapes, States, Terminal
<1>4. queue' = Append(queue, 0) /\ notices' = Append(notices, 0) /\ status' = Append(status, "none")
  BY DEF Asks
<1> HIDE DEF m
<1>5. /\ queue' \in [1..(m + 1) -> Nat] /\ queue'[m + 1] = 0
      /\ \A i \in 1..m : queue'[i] = queue[i]
  <2>1. queue \in [1..m -> Nat] /\ 0 \in Nat /\ queue' = Append(queue, 0)
    BY <1>3, <1>4
  <2>2. Append(queue, 0) \in [1..(m + 1) -> Nat]
    BY <1>1, <2>1, Appended
  <2>3. Append(queue, 0)[m + 1] = 0
    BY <1>1, <2>1, Appended
  <2>4. \A i \in 1..m : Append(queue, 0)[i] = queue[i]
    BY <1>1, <2>1, Appended
  <2> QED BY <2>1, <2>2, <2>3, <2>4
<1>6. /\ notices' \in [1..(m + 1) -> Nat] /\ notices'[m + 1] = 0
      /\ \A i \in 1..m : notices'[i] = notices[i]
  <2>1. notices \in [1..m -> Nat] /\ 0 \in Nat /\ notices' = Append(notices, 0)
    BY <1>3, <1>4
  <2>2. Append(notices, 0) \in [1..(m + 1) -> Nat]
    BY <1>1, <2>1, Appended
  <2>3. Append(notices, 0)[m + 1] = 0
    BY <1>1, <2>1, Appended
  <2>4. \A i \in 1..m : Append(notices, 0)[i] = notices[i]
    BY <1>1, <2>1, Appended
  <2> QED BY <2>1, <2>2, <2>3, <2>4
<1>7. status'[m + 1] = "none" /\ \A i \in 1..m : status'[i] = status[i]
  BY <1>1, <1>3, <1>4, Appended
<1>8. \A i \in 1..(m + 1) : i \in 1..m \/ i = m + 1
  BY <1>1
<1>9. 1..m \subseteq 1..(m + 1)
  BY <1>1
<1>10. Counts'
  <2>1. /\ notified \subseteq 1..m /\ reminders \subseteq 1..m /\ told \subseteq 1..m
        /\ \A i \in 1..m : /\ queue[i] + notices[i] <= 1
                           /\ queue[i] + notices[i] > 0 => i \in notified
    BY <1>1 DEF Telling, Counts
  <2>2. \A i \in 1..(m + 1) : /\ queue'[i] + notices'[i] <= 1
                              /\ queue'[i] + notices'[i] > 0 => i \in notified
    BY <1>5, <1>6, <1>8, <2>1
  <2> QED BY <1>2, <1>5, <1>6, <1>9, <2>1, <2>2 DEF Counts
<1>11. Queued' = Queued
  BY <1>1, <1>2, <1>5, <1>8, <1>9 DEF Queued
<1>12. Kept'
  BY <1>1, <1>2, <1>3, <1>7, <1>8, <1>11 DEF Telling, Kept
<1> QED BY <1>10, <1>12 DEF Telling

\* Every step tells what it must.
LEMMA StepTelling == Shapes /\ Telling /\ [Next]_vars => Telling'
<1> SUFFICES ASSUME Shapes, Telling, [Next]_vars PROVE Telling'
  OBVIOUS
<1>1. status \in [Ids -> States] /\ "ended" \in Terminal /\ "killed" \in Terminal
  BY DEF Shapes, Terminal
<1>2. CASE UNCHANGED vars
  BY <1>2, SameTelling DEF vars, registry, telling
<1>3. CASE StartTurn \/ EndTurn \/ CloseBegins \/ Close
  <2>1. /\ UNCHANGED <<tasks, notified, queue, notices, status>> /\ departs \subseteq departs'
        /\ reminders \cup told = reminders' \cup told' /\ (stage' = "open" => stage = "open")
        /\ stage' = "open" => present \subseteq present'
    BY <1>3 DEF StartTurn, EndTurn, CloseBegins, Close, Read, Plain, Departs, registry, telling
  <2> QED BY <2>1, SameTelling
<1>4. CASE \E i \in Followed : Begin(i) \/ OpenFails(i) \/ Kill(i)
  <2>1. PICK i \in Followed : Begin(i) \/ OpenFails(i) \/ Kill(i)
    BY <1>4
  <2>2. /\ UNCHANGED <<tasks, notified, queue, notices, present, stage>> /\ departs \subseteq departs'
        /\ reminders \cup told = reminders' \cup told' /\ (stage = "open" => status' = status)
    BY <2>1 DEF Begin, OpenFails, Kill, Read, Plain, Departs, registry, telling
  <2> QED BY <2>2, SameTelling
<1>5. CASE \E i \in Followed : Register(i)
  <2>1. PICK i \in Ids : Register(i)
    BY <1>5 DEF Followed
  <2>2. /\ UNCHANGED <<tasks, notified, queue, notices, stage, reminders, told>>
        /\ departs \subseteq departs' /\ present \subseteq present'
    BY <2>1 DEF Register, Departs, telling
  <2>3. \A j \in Ids : status'[j] \in Terminal => status[j] \in Terminal
    BY <1>1, <2>1 DEF Register, Terminal
  <2> QED BY <2>2, <2>3, SameTelling
<1>6. CASE \E a \in Actors, k \in Kinds, n \in Names \cup {NoName} : Open(a, k, n)
  BY <1>6, AsksTells DEF Open, Plain
<1>7. CASE \E a \in Actors, i \in Followed : Resume(a, i)
  BY <1>7, AsksTells DEF Resume, Departs
<1>8. CASE \E a \in Actors : ToolRound(a)
  BY <1>8, RoundTells
<1>9. ASSUME NEW i \in Ids, NEW s \in Terminal, Update(i, s), Enqueue(i, queue),
             UNCHANGED <<tasks, present, stage, telling>>, departs \subseteq departs'
      PROVE  Telling'
  <2>1. queue \in [Ids -> Nat] /\ notices \in [Ids -> Nat] /\ reminders \subseteq Ids
    BY DEF Telling, Counts
  <2>2. UNCHANGED <<told, reminders, notices>>
    BY <1>9 DEF telling
  <2>3. \A j \in Ids : queue[j] <= queue[j] /\ queue[j] + notices'[j] <= queue[j] + notices[j]
    BY <2>1, <2>2
  <2>4. \A j \in Queued : queue[j] > 0 \/ j \in reminders'
    BY DEF Queued
  <2> QED BY <1>1, <1>9, <2>1, <2>2, <2>3, <2>4, EnqueueTells
<1>10. CASE \/ \E a \in Actors, i \in Followed : Stop(a, i)
            \/ \E i \in Followed : AgentFails(i)
  <2>1. PICK i \in Ids, s \in Terminal :
          /\ Update(i, s) /\ Enqueue(i, queue)
          /\ UNCHANGED <<tasks, present, stage, telling>> /\ departs \subseteq departs'
    BY <1>1, <1>10 DEF Stop, AgentFails, Departs, Followed
  <2> QED BY <1>9, <2>1
<1>11. CASE \E i \in Followed : Exit(i)
  <2>1. PICK i \in Ids : Exit(i)
    BY <1>11 DEF Followed
  <2>2. UNCHANGED <<tasks, present, stage, telling>> /\ departs \subseteq departs'
    BY <2>1 DEF Exit, Plain
  <2>3. CASE UNCHANGED <<status, notified, queue>>
    BY <2>2, <2>3, SameTelling DEF telling
  <2>4. CASE Update(i, "ended") /\ Enqueue(i, queue)
    BY <1>1, <1>9, <2>2, <2>4
  <2> QED BY <2>1, <2>3, <2>4 DEF Exit
<1>12. CASE \E i \in Followed : AgentEnds(i)
  <2>1. PICK i \in Ids : AgentEnds(i)
    BY <1>12 DEF Followed
  <2>2. /\ UNCHANGED <<tasks, present, stage, told>> /\ departs \subseteq departs'
        /\ Remind(i) /\ Update(i, "ended") /\ Enqueue(i, LeftFor(i))
    BY <2>1 DEF AgentEnds, Departs
  <2>3. ASSUME stage = "open", Queued \subseteq present, NEW j \in Queued
        PROVE  LeftFor(i)[j] > 0 \/ j \in reminders'
    <3>1. j \in Ids /\ queue[j] > 0
      BY <2>3 DEF Queued
    <3> QED BY <2>2, <2>3, <3>1, Drained
  <2> DEFINE q == LeftFor(i)
  <2>4. /\ q \in [Ids -> Nat] /\ notices' \in [Ids -> Nat]
        /\ reminders \subseteq reminders' /\ reminders' \subseteq Ids
        /\ \A j \in Ids : q[j] <= queue[j] /\ q[j] + notices'[j] <= queue[j] + notices[j]
    BY <2>2, Drained
  <2>5. Enqueue(i, q) /\ (stage = "open" /\ Queued \subseteq present =>
                            \A j \in Queued : q[j] > 0 \/ j \in reminders')
    BY <2>2, <2>3
  <2> HIDE DEF q
  <2> QED BY <1>1, <2>2, <2>4, <2>5, EnqueueTells
<1> QED BY <1>2, <1>3, <1>4, <1>5, <1>6, <1>7, <1>8, <1>10, <1>11, <1>12 DEF Next

\* There is nothing to tell at first.
LEMMA InitTelling == Init => Telling
<1> SUFFICES ASSUME Init PROVE Telling
  OBVIOUS
<1>1. Ids = {} /\ queue = <<>> /\ notices = <<>>
  BY DEF Init, Ids
<1>2. queue \in [Ids -> Nat] /\ notices \in [Ids -> Nat]
  BY <1>1, EmptySeq, LenProperties
<1> QED BY <1>1, <1>2 DEF Init, Telling, Counts, Kept, Queued

-----------------------------------------------------------------------------
\* The tasks, the registry, the names and what is told keep their domains.
THEOREM TasksTyped == Spec => []TypeOK
<1>1. RInv /\ Telling => TypeOK
  BY DEF RInv, Shapes, Telling, Counts, TypeOK, Tasks, Lives, States
<1>2. RInv => Shapes
  BY DEF RInv
<1> QED BY <1>1, <1>2, InitRInv, StepRInv, InitTelling, StepTelling, PTL DEF Spec

\* A session that was closed without running agents leaves no process behind,
\* however many tasks there were, exited, were stopped or were evicted.
THEOREM ClosedLeavesNoProcess == Spec => []NoProcessLeft
<1>1. RInv => NoProcessLeft
  BY DEF RInv, ClosedIsDead, NoProcessLeft, Tolerates, AllDepartures
<1> QED BY <1>1, InitRInv, StepRInv, PTL DEF Spec

\* A name leads to a task that is there or is being opened, unless a call that
\* took it raised.
THEOREM NamesLeadToTasks == Spec => []NameLeads
<1>1. RInv => NameLeads
  BY DEF RInv, NamesLead, NameLeads, Tolerates, AllDepartures
<1> QED BY <1>1, InitRInv, StepRInv, PTL DEF Spec

\* The end of a task is told once, though stops, exits, rounds and the agents'
\* own ends all report it, for any number of tasks and any departures.
THEOREM EndsAreToldOnce == Spec => []ToldOnce
<1>1. Telling => ToldOnce
  BY DEF Telling, Counts, ToldOnce
<1>2. RInv => Shapes
  BY DEF RInv
<1> QED BY <1>1, <1>2, InitRInv, StepRInv, InitTelling, StepTelling, PTL DEF Spec

\* And it is not forgotten while the session is open, unless a round evicts a
\* task another agent is not yet told of.
THEOREM EndsAreKept == Spec => []NoneForgotten
<1>1. Telling => NoneForgotten
  BY DEF Telling, Kept, NoneForgotten, Tolerates, AllDepartures
<1>2. RInv => Shapes
  BY DEF RInv
<1> QED BY <1>1, <1>2, InitRInv, StepRInv, InitTelling, StepTelling, PTL DEF Spec

=============================================================================
