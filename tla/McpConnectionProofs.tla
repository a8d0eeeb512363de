-------------------------- MODULE McpConnectionProofs --------------------------
(***************************************************************************)
(* A client has one reconnect loop, a call that waits is read, and a       *)
(* client that nobody wants any more leaves nothing behind, for every      *)
(* number of clients, connections, attempts, calls and departures.         *)
(***************************************************************************)
EXTENDS McpConnection, FiniteSetTheorems, TLAPS

Counted == departs \subseteq Departures /\ spent \in 0..MaxDepartures

\* The manager's variables, and that a task that closes or makes has a client.
Managed ==
  /\ configured \in BOOLEAN
  /\ entry \in {"none", "connected"} \cup Verdicts /\ client \in 0..MaxClients
  /\ pc \in [Builders -> {"idle", "looked", "closing", "connecting", "shaking",
                          "announcing", "undoing"}]
  /\ mine \in [Builders -> 0..MaxClients] /\ verdict \in [Builders -> Verdicts]
  /\ \A b \in Builders :
       pc[b] \in {"closing", "shaking", "announcing", "undoing"} => mine[b] \in Clients

\* The clients' variables, and that loops and readers are somebody's.
Wired ==
  /\ transport \in [Clients -> 0..MaxLinks] /\ connected \subseteq Clients
  /\ closing \in [Clients -> {"no", "begun", "waiting"}]
  /\ readTask \in [Clients -> 0..MaxLinks] /\ loopTask \in [Clients -> 0..MaxLinks]
  /\ owner \in [Links -> 0..MaxClients] /\ up \subseteq Links
  /\ reader \in [Links -> {"on", "deaf", "off"}]
  /\ loop \in [Links -> {"none", "sleeping", "connecting", "shaking"}]
  /\ attempt \in [Links -> 0..MaxAttempts] /\ shaken \in [Links -> 0..MaxLinks]
  /\ sent \in [Calls -> 0..MaxLinks]
  /\ \A k \in Links : reader[k] # "off" \/ loop[k] # "none" => owner[k] \in Clients
  /\ \A c \in Clients : readTask[c] # 0 =>
       reader[readTask[c]] # "off" /\ owner[readTask[c]] = c

Books == Counted /\ Managed /\ Wired

\* A client knows its loop and its reader, so close() stops them all.
Known   == \A l \in Links : loop[l] # "none" => loopTask[owner[l]] = l
Read    == \A k \in Links : reader[k] # "off" => readTask[owner[k]] = k
\* A client with a loop has no reader but on the link that shakes hands.
Alone   == \A l, k \in Links :
             loop[l] # "none" /\ reader[k] # "off" /\ owner[k] = owner[l] =>
               loop[l] = "shaking" /\ shaken[l] = k
\* That link is up, and its reader will not end.
Shaking == \A l \in Links : loop[l] = "shaking" =>
             /\ shaken[l] \in up
             /\ owner[shaken[l]] = owner[l] /\ owner[l] \in connected
\* A client that is being closed has none of them.
Quiet   == \A l \in Links : loop[l] # "none" \/ reader[l] # "off" => closing[owner[l]] = "no"
\* What a client closes is its own.
Held    == \A c \in Clients : transport[c] # 0 => owner[transport[c]] = c

Sole == Known /\ Read /\ Alone /\ Shaking /\ Quiet /\ Held

\* A link that is up is read, or about to be closed.
Heeded  == \A k \in up : /\ owner[k] \in Clients
                         /\ closing[owner[k]] = "begun" \/ reader[k] # "off"
\* It is its client's transport.
Latest  == \A k \in up : transport[owner[k]] = k
\* A reader ends only when its link is down.
Fresh   == \A k \in Links : reader[k] # "off" => owner[k] \in connected
\* A loop opens a link where there is none.
Bare    == \A l \in Links : loop[l] = "connecting" => transport[owner[l]] = 0
Answerable == \A q \in Calls : sent[q] # 0 => reader[sent[q]] # "off"

Tended == Heeded /\ Latest /\ Fresh /\ Bare /\ Answerable

Calm    == Tolerates(AllDepartures \ {"flaky"})
Careful == Tolerates({"exhausted", "expired", "unannounced", "twins", "removed"})

MInv == Books /\ (Calm => Sole) /\ (Careful => Tended)

-----------------------------------------------------------------------------
(* Departures                                                              *)

\* Departures are counted within their bound.
LEMMA DepartsTyped ==
  ASSUME Counted, NEW ds, IsFiniteSet(ds), Departs(ds)
  PROVE  Counted'
<1>1. Cardinality(ds) \in Nat
  BY FS_CardinalityType
<1> QED BY <1>1, McpAssumption DEF Departs, Counted

\* The departures the actions take are finite sets.
LEMMA DeparturesFinite ==
  /\ \A d : IsFiniteSet({d})
  /\ \A c, d : IsFiniteSet(When(c, d))
  /\ \A c, d, e : IsFiniteSet({e} \cup When(c, d))
  /\ \A b, c, d, e : IsFiniteSet(When(b, d) \cup When(c, e))
<1>1. \A d : IsFiniteSet({d})
  BY FS_Singleton
<1>2. IsFiniteSet({})
  BY FS_EmptySet
<1>3. \A c, d : IsFiniteSet(When(c, d))
  BY <1>1, <1>2 DEF When
<1>4. \A c, d, e : IsFiniteSet({e} \cup When(c, d))
  BY <1>1, <1>3, FS_Union
<1>5. \A b, c, d, e : IsFiniteSet(When(b, d) \cup When(c, e))
  BY <1>3, FS_Union
<1> QED BY <1>1, <1>3, <1>4, <1>5

-----------------------------------------------------------------------------
(* The types                                                               *)

\* Numbers of clients, links and attempts, and the number that is none of
\* them.
LEMMA BoundsTyped ==
  /\ 0 \in 0..MaxClients /\ Clients \subseteq 0..MaxClients
  /\ 0 \in 0..MaxLinks /\ Links \subseteq 0..MaxLinks
  /\ 0 \in 0..MaxAttempts /\ 1 \in 0..MaxAttempts
  /\ \A i \in 0..MaxClients : i # 0 => i \in Clients
  /\ \A i \in 0..MaxLinks : i # 0 => i \in Links
  /\ 0 \notin Clients /\ 0 \notin Links
BY McpAssumption DEF Clients, Links

\* There is no client at first.
LEMMA InitBooks == Init => Books /\ Sole /\ Tended
<1> SUFFICES ASSUME Init PROVE Books /\ Sole /\ Tended
  OBVIOUS
<1>1. Counted
  BY McpAssumption DEF Init, Counted
<1>2. Managed
  BY BoundsTyped DEF Init, Managed, Verdicts
<1>3. Wired
  BY BoundsTyped DEF Init, Wired
<1>4. Sole
  BY DEF Init, Sole, Known, Read, Alone, Shaking, Quiet, Held
<1>5. Tended
  BY DEF Init, Tended, Heeded, Latest, Fresh, Bare, Answerable
<1> QED BY <1>1, <1>2, <1>3, <1>4, <1>5 DEF Books

\* close() leaves the variables typed, whatever the client.
LEMMA CloseTyped ==
  ASSUME Wired, NEW c \in Clients, BeginClose(c)
  PROVE  Wired'
<1>1. sent' \in [Calls -> 0..MaxLinks]
  BY BoundsTyped DEF BeginClose, Released, Wired
<1>2. attempt' \in [Links -> 0..MaxAttempts] /\ shaken' \in [Links -> 0..MaxLinks]
  BY BoundsTyped DEF BeginClose, Wired
<1>3. readTask' \in [Clients -> 0..MaxLinks] /\ loopTask' \in [Clients -> 0..MaxLinks]
  BY BoundsTyped DEF BeginClose, Wired
<1>4. \A d \in Clients : readTask'[d] # 0 =>
        reader'[readTask'[d]] # "off" /\ owner'[readTask'[d]] = d
  <2> SUFFICES ASSUME NEW d \in Clients, readTask'[d] # 0
               PROVE  reader'[readTask'[d]] # "off" /\ owner'[readTask'[d]] = d
    OBVIOUS
  <2>1. d # c /\ readTask'[d] = readTask[d] /\ readTask[d] \in Links
    BY BoundsTyped DEF BeginClose, Wired
  <2>2. readTask[c] # readTask[d]
    BY <2>1, BoundsTyped DEF Wired
  <2> QED BY <2>1, <2>2 DEF BeginClose, Wired
<1> QED BY <1>1, <1>2, <1>3, <1>4 DEF BeginClose, Wired

\* So does a new link.
LEMMA OpenTyped ==
  ASSUME Wired, NEW c \in Clients, NEW k \in Links, OpenLink(c, k),
         UNCHANGED <<closing, loopTask, attempt, sent>>,
         loop' \in [Links -> {"none", "sleeping", "connecting", "shaking"}],
         \A m \in Links : loop'[m] # "none" => loop[m] # "none",
         shaken' \in [Links -> 0..MaxLinks]
  PROVE  Wired'
<1>1. IsFree(k)
  BY DEF OpenLink, NewLink
<1>2. /\ transport' \in [Clients -> 0..MaxLinks] /\ connected' \subseteq Clients
      /\ readTask' \in [Clients -> 0..MaxLinks]
      /\ owner' \in [Links -> 0..MaxClients] /\ up' \subseteq Links
      /\ reader' \in [Links -> {"on", "deaf", "off"}]
  BY BoundsTyped DEF OpenLink, Wired
<1>3. \A m \in Links : reader'[m] # "off" \/ loop'[m] # "none" => owner'[m] \in Clients
  BY DEF OpenLink, Wired
<1>4. \A d \in Clients : readTask'[d] # 0 =>
        reader'[readTask'[d]] # "off" /\ owner'[readTask'[d]] = d
  <2> SUFFICES ASSUME NEW d \in Clients, readTask'[d] # 0
               PROVE  reader'[readTask'[d]] # "off" /\ owner'[readTask'[d]] = d
    OBVIOUS
  <2>1. CASE d = c
    BY <2>1 DEF OpenLink, Wired
  <2>2. CASE d # c
    <3>1. readTask'[d] = readTask[d] /\ readTask[d] \in Links
      BY <2>2, BoundsTyped DEF OpenLink, Wired
    <3>2. readTask[d] # k
      BY <1>1, <3>1 DEF IsFree, Wired
    <3> QED BY <3>1, <3>2 DEF OpenLink, Wired
  <2> QED BY <2>1, <2>2
<1> QED BY <1>2, <1>3, <1>4 DEF Wired

\* And the end of a reader.
LEMMA EndTyped ==
  ASSUME Wired, NEW k \in Links, reader[k] # "off", EndReader(k)
  PROVE  Wired'
<1> DEFINE c == owner[k]
<1>1. c \in Clients
  BY DEF Wired
<1>2. /\ sent' \in [Calls -> 0..MaxLinks]
      /\ attempt' \in [Links -> 0..MaxAttempts]
      /\ loop' \in [Links -> {"none", "sleeping", "connecting", "shaking"}]
      /\ loopTask' \in [Clients -> 0..MaxLinks] /\ connected' \subseteq Clients
  <2>1. CASE closing[c] = "no"
    <3>1. sent' = Released(Waiting(c)) /\ connected' = connected \ {c}
      BY <2>1 DEF EndReader
    <3>2. sent' \in [Calls -> 0..MaxLinks]
      BY <3>1, BoundsTyped DEF Released, Wired
    <3>3. /\ attempt' = [attempt EXCEPT ![k] = 1] /\ loopTask' = [loopTask EXCEPT ![c] = k]
          /\ loop' = [loop EXCEPT ![k] = "sleeping"]
      BY <2>1 DEF EndReader
    <3> QED BY <3>1, <3>2, <3>3, BoundsTyped DEF Wired
  <2>2. CASE closing[c] # "no"
    BY <2>2 DEF EndReader, Wired
  <2> QED BY <2>1, <2>2
<1>3. /\ readTask' \in [Clients -> 0..MaxLinks]
      /\ reader' \in [Links -> {"on", "deaf", "off"}]
  BY BoundsTyped DEF EndReader, Wired
<1>4. \A m \in Links : reader'[m] # "off" \/ loop'[m] # "none" => owner'[m] \in Clients
  BY <1>1 DEF EndReader, Wired
<1>5. \A d \in Clients : readTask'[d] # 0 =>
        reader'[readTask'[d]] # "off" /\ owner'[readTask'[d]] = d
  <2> SUFFICES ASSUME NEW d \in Clients, readTask'[d] # 0
               PROVE  reader'[readTask'[d]] # "off" /\ owner'[readTask'[d]] = d
    OBVIOUS
  <2>1. readTask'[d] = readTask[d] /\ readTask[d] # k /\ readTask[d] \in Links
    BY <1>1, BoundsTyped DEF EndReader, Wired
  <2> QED BY <2>1 DEF EndReader, Wired
<1> QED BY <1>2, <1>3, <1>4, <1>5 DEF EndReader, Wired

\* And the end of a loop, or its next attempt.
LEMMA LoopTyped ==
  ASSUME Wired, NEW l \in Links, loop[l] # "none", LoopEnds(l) \/ Retry(l)
  PROVE  /\ loopTask' \in [Clients -> 0..MaxLinks]
         /\ loop' \in [Links -> {"none", "sleeping", "connecting", "shaking"}]
         /\ attempt' \in [Links -> 0..MaxAttempts] /\ shaken' \in [Links -> 0..MaxLinks]
         /\ \A m \in Links : loop'[m] # "none" => loop[m] # "none"
<1>1. CASE LoopEnds(l)
  BY <1>1, BoundsTyped DEF LoopEnds, Wired
<1>2. CASE Retry(l) /\ ~LoopEnds(l)
  <2>1. attempt[l] \in 0..MaxAttempts /\ attempt[l] < MaxAttempts
    BY <1>2 DEF Retry, Wired
  <2>2. attempt[l] + 1 \in 0..MaxAttempts
    BY <2>1, McpAssumption
  <2> QED BY <1>2, <2>2, BoundsTyped DEF Retry, Wired
<1> QED BY <1>1, <1>2

-----------------------------------------------------------------------------
(* The kinds of step                                                       *)

Still == UNCHANGED <<objects, wires, loops, sent>>

\* What a step does to the clients and their links.
Kind ==
  \/ Still
  \/ \E c \in Clients : BeginClose(c) \/ CloseTransport(c) \/ CloseEnds(c)
  \/ \E b \in Builders, c \in Clients, k \in Links : Opens(b, c, k)
  \/ \E k \in Links : ReaderStep(k) \/ LinkDies(k) \/ SessionExpires(k)
  \/ \E l \in Links : LoopStep(l)
  \/ \E q \in Calls : Call(q) \/ Answered(q)

\* The step of a task that connects, or of those that start one.
LEMMA ManagerKind ==
  ASSUME Books,
         \/ \E b \in Builders : Connects(b)
         \/ SweepLooks \/ AuthorizationStarts \/ AuthorizationTimesOut
         \/ CallRefused \/ RefreshFails \/ Remove \/ Add
  PROVE  Kind
<1>1. ASSUME NEW b \in Builders, Connects(b)
      PROVE  Kind
  <2>1. CASE Reconnect(b)
    <3>1. client # 0 => client \in Clients
      BY BoundsTyped DEF Books, Managed
    <3> QED BY <2>1, <3>1 DEF Reconnect, Kind, Still
  <2>2. CASE \E v \in Verdicts : ShakeFails(b, v)
    <3>1. mine[b] \in Clients /\ BeginClose(mine[b])
      BY <2>2 DEF ShakeFails, Books, Managed
    <3> QED BY <3>1 DEF Kind
  <2>3. CASE \E c \in Clients, k \in Links : Opens(b, c, k)
    BY <2>3 DEF Kind
  <2>4. CASE \/ OldIsClosed(b) \/ OpenFails(b) \/ Shakes(b) \/ Undone(b) \/ Announces(b)
             \/ \E v \in Verdicts : AnnounceFails(b, v)
    BY <2>4 DEF OldIsClosed, OpenFails, Shakes, Undone, Announces, AnnounceFails, Kind, Still
  <2> QED BY <1>1, <2>1, <2>2, <2>3, <2>4 DEF Connects
<1>2. CASE Remove
  <2>1. client # 0 => client \in Clients
    BY BoundsTyped DEF Books, Managed
  <2> QED BY <1>2, <2>1 DEF Remove, Kind, Still
<1>3. CASE \/ SweepLooks \/ AuthorizationStarts \/ AuthorizationTimesOut
           \/ CallRefused \/ RefreshFails \/ Add
  BY <1>3 DEF SweepLooks, AuthorizationStarts, AuthorizationTimesOut, CallRefused,
              RefreshFails, Add, Kind, Still
<1> QED BY <1>1, <1>2, <1>3

\* The entry is written, and the task is done.
LEMMA OutcomeManaged ==
  ASSUME Managed, NEW b \in Builders, NEW e \in {"connected"} \cup Verdicts,
         Outcome(b, e), UNCHANGED configured
  PROVE  Managed'
<1>1. entry' \in {"none", "connected"} \cup Verdicts
  BY DEF Outcome, Verdicts
<1>2. client' \in 0..MaxClients /\ mine' \in [Builders -> 0..MaxClients]
  BY BoundsTyped DEF Outcome, Managed
<1>3. verdict' \in [Builders -> Verdicts]
  BY DEF Outcome, Managed, Verdicts
<1> QED BY <1>1, <1>2, <1>3 DEF Outcome, Managed

\* The manager's variables stay typed.
LEMMA StepManaged ==
  ASSUME Books, Next
  PROVE  Managed'
<1>1. Managed
  BY DEF Books
<1>2. ASSUME NEW b \in Builders, Connects(b)
      PROVE  Managed'
  <2>1. CASE Reconnect(b)
    <3>1. CASE ~configured
      <4>1. /\ pc' = [pc EXCEPT ![b] = "idle"] /\ UNCHANGED <<configured, mine, verdict>>
            /\ entry' \in {"auth", entry} /\ client' \in {0, client}
        BY <2>1, <3>1 DEF Reconnect, served
      <4> QED BY <1>1, <4>1, BoundsTyped DEF Managed, Verdicts
    <3>2. CASE configured /\ client # 0 /\ closing[client] = "no"
      <4>1. client \in Clients
        BY <1>1, <3>2, BoundsTyped DEF Managed
      <4>2. /\ pc' = [pc EXCEPT ![b] = "closing"] /\ mine' = [mine EXCEPT ![b] = client]
            /\ UNCHANGED <<configured, entry, client, verdict>>
        BY <2>1, <3>2 DEF Reconnect, served
      <4> QED BY <1>1, <4>1, <4>2 DEF Managed
    <3>3. CASE configured /\ ~(client # 0 /\ closing[client] = "no")
      <4>1. /\ pc' = [pc EXCEPT ![b] = "connecting"]
            /\ UNCHANGED <<configured, entry, client, verdict, mine>>
        BY <2>1, <3>3 DEF Reconnect, served
      <4> QED BY <1>1, <4>1 DEF Managed
    <3> QED BY <3>1, <3>2, <3>3
  <2>2. CASE OldIsClosed(b)
    BY <1>1, <2>2, BoundsTyped DEF OldIsClosed, Managed, served
  <2>3. CASE OpenFails(b)
    BY <1>1, <2>3, OutcomeManaged DEF OpenFails, Verdicts
  <2>4. CASE Shakes(b)
    BY <1>1, <2>4 DEF Shakes, Managed, served
  <2>5. CASE Undone(b)
    <3>1. verdict[b] \in {"connected"} \cup Verdicts
      BY <1>1 DEF Managed
    <3> QED BY <1>1, <2>5, <3>1, OutcomeManaged DEF Undone
  <2>6. CASE Announces(b)
    BY <1>1, <2>6, OutcomeManaged DEF Announces
  <2>7. CASE \E c \in Clients, k \in Links : Opens(b, c, k)
    <3>1. PICK c \in Clients, k \in Links : Opens(b, c, k)
      BY <2>7
    <3> QED BY <1>1, <3>1, BoundsTyped DEF Opens, Managed, served
  <2>8. CASE \E v \in Verdicts : ShakeFails(b, v)
    BY <1>1, <2>8 DEF ShakeFails, Managed, served
  <2>9. CASE \E v \in Verdicts : AnnounceFails(b, v)
    BY <1>1, <2>9, OutcomeManaged DEF AnnounceFails
  <2> QED BY <1>2, <2>1, <2>2, <2>3, <2>4, <2>5, <2>6, <2>7, <2>8, <2>9 DEF Connects
<1>3. CASE SweepLooks \/ AuthorizationStarts \/ AuthorizationTimesOut \/ CallRefused
  BY <1>1, <1>3 DEF SweepLooks, AuthorizationStarts, AuthorizationTimesOut, CallRefused,
                    Managed, served, Builders
<1>4. CASE RefreshFails
  BY <1>1, <1>4, OutcomeManaged DEF RefreshFails, Builders, Verdicts
<1>5. CASE Remove
  <2>1. CASE client # 0 /\ closing[client] = "no"
    <3>1. client \in Clients
      BY <1>1, <2>1, BoundsTyped DEF Managed
    <3>2. /\ pc' = [pc EXCEPT !["config"] = "closing"]
          /\ mine' = [mine EXCEPT !["config"] = client]
          /\ configured' = FALSE /\ entry' = "none" /\ client' = 0 /\ verdict' = verdict
      BY <1>5, <2>1 DEF Remove
    <3> QED BY <1>1, <3>1, <3>2, BoundsTyped DEF Managed, Builders
  <2>2. CASE ~(client # 0 /\ closing[client] = "no")
    <3>1. /\ configured' = FALSE /\ entry' = "none" /\ client' = 0
          /\ UNCHANGED <<pc, mine, verdict>>
      BY <1>5, <2>2 DEF Remove
    <3> QED BY <1>1, <3>1, BoundsTyped DEF Managed
  <2> QED BY <2>1, <2>2
<1>6. CASE Add
  BY <1>1, <1>6 DEF Add, Managed, served, Builders
<1>7. CASE UNCHANGED manager
  BY <1>1, <1>7 DEF Managed, manager, served
<1>8. ASSUME NEW l \in Links, LoopStep(l)
      PROVE  Managed'
  <2>1. CASE LoopRefused(l)
    BY <1>1, <2>1, BoundsTyped DEF LoopRefused, Managed, Verdicts
  <2>2. CASE ~LoopRefused(l)
    BY <1>7, <1>8, <2>2 DEF LoopStep, LoopWakes, LoopOpens, LoopOpenFails, LoopShakes,
                            LoopShakeFails, manager
  <2> QED BY <2>1, <2>2
<1>9. CASE (\E c \in Clients : CloseStep(c)) \/ (\E q \in Calls : Call(q) \/ Answered(q))
  BY <1>7, <1>9 DEF CloseStep, CloseTransport, CloseEnds, Call, Answered
<1>10. CASE \E k \in Links : ReaderStep(k) \/ LinkDies(k) \/ SessionExpires(k)
  BY <1>7, <1>10 DEF ReaderStep, ReaderEnds, ReaderCrashes, EndReader, LinkDies,
                     SessionExpires
<1> QED BY <1>2, <1>3, <1>4, <1>5, <1>6, <1>8, <1>9, <1>10 DEF Next

\* Departures are counted, and none is taken back.
LEMMA StepCounted ==
  ASSUME Books, Next
  PROVE  Counted' /\ departs \subseteq departs'
<1>1. CASE Plain
  BY <1>1 DEF Plain, Books, Counted
<1>2. CASE \E ds : IsFiniteSet(ds) /\ Departs(ds)
  <2>1. PICK ds : IsFiniteSet(ds) /\ Departs(ds)
    BY <1>2
  <2> QED BY <2>1, DepartsTyped DEF Departs, Books
<1>3. ASSUME NEW b \in Builders, Connects(b)
      PROVE  Plain \/ \E ds : IsFiniteSet(ds) /\ Departs(ds)
  <2>1. CASE Reconnect(b)
    BY <2>1, DeparturesFinite DEF Reconnect
  <2>2. CASE \E v \in Verdicts : AnnounceFails(b, v)
    BY <2>2, DeparturesFinite DEF AnnounceFails
  <2>3. CASE ~Reconnect(b) /\ ~\E v \in Verdicts : AnnounceFails(b, v)
    BY <1>3, <2>3 DEF Connects, OldIsClosed, OpenFails, Shakes, Undone, Announces, Opens,
                      ShakeFails
  <2> QED BY <2>1, <2>2, <2>3
<1>4. ASSUME NEW l \in Links, LoopStep(l)
      PROVE  Plain \/ \E ds : IsFiniteSet(ds) /\ Departs(ds)
  <2>1. CASE LoopOpenFails(l)
    BY <2>1, DeparturesFinite DEF LoopOpenFails
  <2>2. CASE LoopShakeFails(l)
    BY <2>2, DeparturesFinite DEF LoopShakeFails
  <2>3. CASE LoopRefused(l)
    BY <2>3, DeparturesFinite DEF LoopRefused
  <2>4. CASE LoopWakes(l) \/ (\E k \in Links : LoopOpens(l, k)) \/ LoopShakes(l)
    BY <2>4 DEF LoopWakes, LoopOpens, LoopShakes
  <2> QED BY <1>4, <2>1, <2>2, <2>3, <2>4 DEF LoopStep
<1>5. ASSUME NEW k \in Links, ReaderStep(k) \/ LinkDies(k) \/ SessionExpires(k)
      PROVE  Plain \/ \E ds : IsFiniteSet(ds) /\ Departs(ds)
  <2>1. CASE ReaderEnds(k)
    BY <2>1 DEF ReaderEnds
  <2>2. CASE ReaderCrashes(k)
    BY <2>2, DeparturesFinite DEF ReaderCrashes
  <2>3. CASE LinkDies(k)
    BY <2>3, DeparturesFinite DEF LinkDies
  <2>4. CASE SessionExpires(k)
    BY <2>4, DeparturesFinite DEF SessionExpires
  <2> QED BY <1>5, <2>1, <2>2, <2>3, <2>4 DEF ReaderStep
<1>6. CASE RefreshFails \/ Remove \/ Add \/ \E q \in Calls : Call(q)
  BY <1>2, <1>6, DeparturesFinite DEF RefreshFails, Remove, Add, Call
<1>7. CASE \/ SweepLooks \/ AuthorizationStarts \/ AuthorizationTimesOut \/ CallRefused
           \/ (\E c \in Clients : CloseStep(c)) \/ (\E q \in Calls : Answered(q))
  BY <1>1, <1>7 DEF SweepLooks, AuthorizationStarts, AuthorizationTimesOut, CallRefused,
                    CloseStep, CloseTransport, CloseEnds, Answered
<1> QED BY <1>1, <1>2, <1>3, <1>4, <1>5, <1>6, <1>7 DEF Next

\* The clients' variables stay typed.
LEMMA KindWired ==
  ASSUME Wired, Kind
  PROVE  Wired'
<1>1. CASE Still
  BY <1>1 DEF Still, objects, wires, loops, Wired
<1>2. CASE \E c \in Clients : BeginClose(c)
  BY <1>2, CloseTyped
<1>3. ASSUME NEW c \in Clients, CloseTransport(c)
      PROVE  Wired'
  BY <1>3, BoundsTyped DEF CloseTransport, loops, Wired
<1>4. ASSUME NEW c \in Clients, CloseEnds(c)
      PROVE  Wired'
  BY <1>4 DEF CloseEnds, wires, loops, Wired
<1>5. CASE \E b \in Builders, c \in Clients, k \in Links : Opens(b, c, k)
  <2>1. PICK c \in Clients, k \in Links :
          OpenLink(c, k) /\ UNCHANGED <<closing, loopTask, attempt, sent, loop, shaken>>
    BY <1>5 DEF Opens, loops
  <2> QED BY <2>1, OpenTyped DEF Wired
<1>6. ASSUME NEW k \in Links, ReaderStep(k)
      PROVE  Wired'
  <2>1. reader[k] = "on" /\ EndReader(k)
    BY <1>6 DEF ReaderStep, ReaderEnds, ReaderCrashes
  <2> QED BY <2>1, EndTyped
<1>7. ASSUME NEW k \in Links, LinkDies(k) \/ SessionExpires(k)
      PROVE  Wired'
  <2>1. \/ reader' = reader
        \/ reader[k] = "on" /\ reader' = [reader EXCEPT ![k] = "deaf"]
    BY <1>7 DEF LinkDies, SessionExpires
  <2>2. up' \subseteq up /\ UNCHANGED <<objects, owner, loops, sent>>
    BY <1>7 DEF LinkDies, SessionExpires
  <2>3. reader' \in [Links -> {"on", "deaf", "off"}]
        /\ \A j \in Links : reader'[j] # "off" <=> reader[j] # "off"
    BY <2>1 DEF Wired
  <2>4. \A c \in Clients : readTask[c] # 0 => readTask[c] \in Links
    BY BoundsTyped DEF Wired
  <2> QED BY <2>2, <2>3, <2>4 DEF objects, loops, Wired
<1>8. ASSUME NEW l \in Links, LoopStep(l)
      PROVE  Wired'
  <2>1. loop[l] # "none"
    BY <1>8 DEF LoopStep, LoopWakes, LoopOpens, LoopOpenFails, LoopShakes, LoopShakeFails,
                LoopRefused
  <2>2. CASE LoopWakes(l)
    <3>1. /\ loopTask' \in [Clients -> 0..MaxLinks]
          /\ loop' \in [Links -> {"none", "sleeping", "connecting", "shaking"}]
          /\ attempt' \in [Links -> 0..MaxAttempts] /\ shaken' \in [Links -> 0..MaxLinks]
          /\ \A m \in Links : loop'[m] # "none" => loop[m] # "none"
      <4>1. CASE closing[owner[l]] = "no"
        BY <2>1, <2>2, <4>1 DEF LoopWakes, Wired
      <4>2. CASE closing[owner[l]] # "no"
        <5>1. LoopEnds(l)
          BY <2>2, <4>2 DEF LoopWakes
        <5> QED BY <2>1, <5>1, LoopTyped
      <4> QED BY <4>1, <4>2
    <3>2. /\ up' \subseteq Links /\ transport' \in [Clients -> 0..MaxLinks]
      <4>1. up' \subseteq up
        BY <2>2 DEF LoopWakes
      <4>2. transport' = transport \/ transport' = [transport EXCEPT ![owner[l]] = 0]
        BY <2>2 DEF LoopWakes
      <4> QED BY <4>1, <4>2, BoundsTyped DEF Wired
    <3>3. UNCHANGED <<connected, closing, readTask, owner, reader, sent>>
      BY <2>2 DEF LoopWakes
    <3> QED BY <3>1, <3>2, <3>3 DEF Wired
  <2>3. CASE \E k \in Links : LoopOpens(l, k)
    <3>1. PICK k \in Links : LoopOpens(l, k)
      BY <2>3
    <3>2. owner[l] \in Clients /\ OpenLink(owner[l], k)
      BY <2>1, <3>1 DEF LoopOpens, Wired
    <3>3. /\ loop' \in [Links -> {"none", "sleeping", "connecting", "shaking"}]
          /\ shaken' \in [Links -> 0..MaxLinks]
          /\ \A m \in Links : loop'[m] # "none" => loop[m] # "none"
      BY <2>1, <3>1, BoundsTyped DEF LoopOpens, Wired
    <3> QED BY <3>1, <3>2, <3>3, OpenTyped DEF LoopOpens
  <2>4. CASE LoopOpenFails(l) \/ LoopShakes(l) \/ LoopShakeFails(l) \/ LoopRefused(l)
    <3>1. LoopEnds(l) \/ Retry(l)
      BY <2>4 DEF LoopOpenFails, LoopShakes, LoopShakeFails, LoopRefused
    <3>2. /\ loopTask' \in [Clients -> 0..MaxLinks]
          /\ loop' \in [Links -> {"none", "sleeping", "connecting", "shaking"}]
          /\ attempt' \in [Links -> 0..MaxAttempts] /\ shaken' \in [Links -> 0..MaxLinks]
          /\ \A m \in Links : loop'[m] # "none" => loop[m] # "none"
      BY <2>1, <3>1, LoopTyped
    <3>3. connected' \subseteq connected /\ UNCHANGED <<transport, closing, readTask, wires, sent>>
      BY <2>4 DEF LoopOpenFails, LoopShakes, LoopShakeFails, LoopRefused, Retry
    <3> QED BY <3>2, <3>3 DEF wires, Wired
  <2> QED BY <1>8, <2>2, <2>3, <2>4 DEF LoopStep
<1>9. ASSUME NEW q \in Calls, Call(q) \/ Answered(q)
      PROVE  Wired'
  <2>1. sent' \in [Calls -> 0..MaxLinks]
    <3>1. CASE Call(q)
      <4>1. transport[client] \in up /\ up \subseteq Links
        BY <3>1 DEF Call, Wired
      <4> QED BY <3>1, <4>1, BoundsTyped DEF Call, Wired
    <3>2. CASE Answered(q)
      BY <3>2, BoundsTyped DEF Answered, Wired
    <3> QED BY <1>9, <3>1, <3>2
  <2>2. UNCHANGED <<objects, wires, loops>>
    BY <1>9 DEF Call, Answered
  <2> QED BY <2>1, <2>2 DEF objects, wires, loops, Wired
<1> QED BY <1>1, <1>2, <1>3, <1>4, <1>5, <1>6, <1>7, <1>8, <1>9 DEF Kind

-----------------------------------------------------------------------------
(* One loop for each client                                                *)

\* close() finds the loop and the reader, as the client has no others.
LEMMA CloseSole ==
  ASSUME Wired, Sole, NEW c \in Clients, BeginClose(c)
  PROVE  /\ Sole'
         /\ \A k \in Links : owner[k] = c => loop'[k] = "none" /\ reader'[k] = "off"
<1>1. \A k \in Links : owner[k] = c => loop'[k] = "none" /\ reader'[k] = "off"
  BY DEF BeginClose, Wired, Sole, Known, Read
<1>2. /\ UNCHANGED <<transport, owner, up>>
      /\ \A k \in Links : /\ loop'[k] \in {loop[k], "none"} /\ reader'[k] \in {reader[k], "off"}
                          /\ loop'[k] # "none" => shaken'[k] = shaken[k]
  BY DEF BeginClose, Wired
<1>3. \A d \in Clients : d # c =>
        /\ readTask'[d] = readTask[d] /\ loopTask'[d] = loopTask[d]
        /\ closing'[d] = closing[d] /\ (d \in connected <=> d \in connected')
  BY DEF BeginClose, Wired
<1>4. \A k \in Links : loop'[k] # "none" \/ reader'[k] # "off" =>
        owner[k] \in Clients /\ owner[k] # c
  BY <1>1, <1>2 DEF Wired
<1>5. Known' /\ Read' /\ Alone'
  BY <1>2, <1>3, <1>4 DEF Sole, Known, Read, Alone
<1>6. Shaking' /\ Quiet' /\ Held'
  BY <1>2, <1>3, <1>4 DEF Sole, Shaking, Quiet, Held
<1> QED BY <1>1, <1>5, <1>6 DEF Sole

\* A new link is the only one that its client reads, when it read none.
LEMMA OpenSole ==
  ASSUME Wired, Sole, NEW c \in Clients, NEW k \in Links, OpenLink(c, k),
         UNCHANGED <<closing, loopTask>>, closing[c] = "no", Readers(c) = {},
         \/ LoopsOf(c) = {} /\ UNCHANGED <<loop, shaken>>
         \/ \E l \in LoopsOf(c) : /\ loop' = [loop EXCEPT ![l] = "shaking"]
                                  /\ shaken' = [shaken EXCEPT ![l] = k]
  PROVE  Sole'
<1>1. /\ IsFree(k) /\ owner' = [owner EXCEPT ![k] = c]
      /\ up' = up \cup {k} /\ reader' = [reader EXCEPT ![k] = "on"]
      /\ transport' = [transport EXCEPT ![c] = k]
      /\ readTask' = [readTask EXCEPT ![c] = k] /\ connected' = connected \cup {c}
  BY DEF OpenLink, NewLink
<1>2. /\ k \notin up /\ reader[k] = "off" /\ loop[k] = "none"
      /\ \A d \in Clients : transport[d] # k
      /\ \A l \in Links : shaken[l] # k
  BY <1>1 DEF IsFree
<1>3. \A l \in Links : l # k => owner'[l] = owner[l] /\ reader'[l] = reader[l]
  BY <1>1 DEF Wired
<1>4. owner'[k] = c /\ reader'[k] = "on" /\ readTask'[c] = k /\ transport'[c] = k
  BY <1>1 DEF Wired
<1>5. \A l \in Links : loop'[l] # "none" => l # k /\ loop[l] # "none"
  BY <1>2 DEF LoopsOf, Wired
<1>6. \A d \in Clients : d # c => readTask'[d] = readTask[d] /\ transport'[d] = transport[d]
  BY <1>1 DEF Wired
<1>7. \A j \in Links : reader[j] # "off" => owner[j] # c
  BY DEF Readers
<1>8. \A l \in Links : loop'[l] # "none" =>
        \/ owner[l] = c /\ loop'[l] = "shaking" /\ shaken'[l] = k
        \/ owner[l] # c /\ loop'[l] = loop[l] /\ shaken'[l] = shaken[l]
  <2>1. CASE LoopsOf(c) = {} /\ UNCHANGED <<loop, shaken>>
    BY <2>1 DEF LoopsOf
  <2>2. CASE \E l \in LoopsOf(c) : /\ loop' = [loop EXCEPT ![l] = "shaking"]
                                   /\ shaken' = [shaken EXCEPT ![l] = k]
    <3>1. PICK l \in LoopsOf(c) : /\ loop' = [loop EXCEPT ![l] = "shaking"]
                                  /\ shaken' = [shaken EXCEPT ![l] = k]
      BY <2>2
    <3>2. l \in Links /\ owner[l] = c /\ loop[l] # "none"
      BY <3>1 DEF LoopsOf
    <3>3. \A m \in Links : m # l /\ loop[m] # "none" => owner[m] # c
      BY <3>2 DEF Sole, Known
    <3> QED BY <3>1, <3>2, <3>3 DEF Wired
  <2> QED BY <2>1, <2>2
<1>9. Known'
  BY <1>3, <1>5 DEF Sole, Known
<1>10. Read'
  BY <1>3, <1>4, <1>6, <1>7 DEF Sole, Read, Wired
<1>11. Alone'
  BY <1>3, <1>4, <1>5, <1>7, <1>8 DEF Sole, Alone
<1>12. Shaking'
  BY <1>1, <1>2, <1>3, <1>4, <1>5, <1>8 DEF Sole, Shaking, Wired
<1>13. Quiet'
  BY <1>3, <1>4, <1>5 DEF Sole, Quiet
<1>14. Held'
  <2> SUFFICES ASSUME NEW d \in Clients, transport'[d] # 0
               PROVE  owner'[transport'[d]] = d
    BY DEF Held
  <2>1. CASE d = c
    BY <1>4, <2>1
  <2>2. CASE d # c
    <3>1. transport'[d] = transport[d] /\ transport[d] \in Links /\ transport[d] # k
      BY <1>2, <1>6, <2>2, BoundsTyped DEF Wired
    <3> QED BY <1>3, <3>1 DEF Sole, Held
  <2> QED BY <2>1, <2>2
<1> QED BY <1>9, <1>10, <1>11, <1>12, <1>13, <1>14 DEF Sole

\* A reader that ends while no loop shakes hands on its link leaves its client
\* with the loop that it starts, and no reader.
LEMMA EndSole ==
  ASSUME Wired, Sole, NEW k \in Links, reader[k] # "off", EndReader(k),
         \A l \in Links : loop[l] = "shaking" => shaken[l] # k
  PROVE  /\ Sole'
         /\ closing[owner[k]] = "no"
         /\ \A j \in Links : owner[j] = owner[k] => reader'[j] = "off" /\ (j # k => loop[j] = "none")
<1> DEFINE c == owner[k]
<1>1. c \in Clients /\ closing[c] = "no"
  BY DEF Wired, Sole, Quiet
<1>2. /\ reader' = [reader EXCEPT ![k] = "off"]
      /\ readTask' = [readTask EXCEPT ![c] = IF @ = k THEN 0 ELSE @]
      /\ connected' = connected \ {c}
      /\ loop' = [loop EXCEPT ![k] = "sleeping"]
      /\ loopTask' = [loopTask EXCEPT ![c] = k]
      /\ UNCHANGED <<transport, closing, owner, up, shaken>>
  BY <1>1 DEF EndReader
<1>3. \A j \in Links : j # k /\ reader[j] # "off" => owner[j] # c
  BY DEF Sole, Read
<1>4. \A l \in Links : loop[l] # "none" => owner[l] # c
  BY DEF Sole, Alone
<1>5. \A j \in Links : owner[j] = c => reader'[j] = "off" /\ (j # k => loop[j] = "none")
  BY <1>2, <1>3, <1>4 DEF Wired
<1>6. \A j \in Links : reader'[j] # "off" => reader[j] # "off" /\ owner[j] \in Clients /\ owner[j] # c
  BY <1>2, <1>3 DEF Wired
<1>7. \A l \in Links : loop'[l] # "none" =>
        \/ l = k /\ loop'[l] = "sleeping"
        \/ loop[l] # "none" /\ loop'[l] = loop[l] /\ owner[l] \in Clients /\ owner[l] # c
  BY <1>2, <1>4 DEF Wired
<1>8. \A d \in Clients : d # c => readTask'[d] = readTask[d] /\ loopTask'[d] = loopTask[d]
  BY <1>1, <1>2 DEF Wired
<1>9. loopTask'[c] = k
  BY <1>1, <1>2 DEF Wired
<1> HIDE DEF c
<1>10. Known'
  BY <1>2, <1>7, <1>8, <1>9 DEF Sole, Known, c
<1>11. Read'
  BY <1>2, <1>6, <1>8 DEF Sole, Read
<1>12. Alone'
  BY <1>2, <1>6, <1>7 DEF Sole, Alone, c
<1>13. Shaking'
  BY <1>2, <1>7 DEF Sole, Shaking
<1>14. Quiet'
  BY <1>1, <1>2, <1>6, <1>7 DEF Sole, Quiet, c
<1>15. Held'
  BY <1>2 DEF Sole, Held
<1> QED BY <1>1, <1>5, <1>10, <1>11, <1>12, <1>13, <1>14, <1>15 DEF Sole, c

\* A loop that ends, or sleeps, leaves its client without it, or alone.
LEMMA RetrySole ==
  ASSUME Wired, Sole, NEW l \in Links, loop[l] # "none",
         UNCHANGED <<transport, closing, readTask, wires>>,
         connected' \in {connected, connected \ {owner[l]}},
         LoopEnds(l) \/ (Retry(l) /\ loop[l] = "connecting")
  PROVE  Sole'
<1>1. owner[l] \in Clients /\ closing[owner[l]] = "no"
  BY DEF Wired, Sole, Quiet
<1>2. \A m \in Links : m # l /\ loop[m] # "none" => owner[m] # owner[l]
  BY DEF Sole, Known
<1>3. UNCHANGED <<owner, up, reader>>
  BY DEF wires
<1>4. \A m \in Links : m # l => loop'[m] = loop[m] /\ shaken'[m] = shaken[m]
  BY DEF LoopEnds, Retry, Wired
<1>5. \/ loop'[l] = "none"
      \/ loop'[l] = "sleeping" /\ loop[l] = "connecting" /\ loopTask' = loopTask
  BY DEF LoopEnds, Retry, Wired
<1>6. \A d \in Clients : d # owner[l] => loopTask'[d] = loopTask[d]
  BY DEF LoopEnds, Retry, Wired
<1>7. \A m \in Links : m # l /\ loop'[m] # "none" =>
        /\ loop[m] # "none" /\ owner[m] \in Clients /\ owner[m] # owner[l]
        /\ owner[m] \in connected => owner[m] \in connected'
  BY <1>2, <1>4 DEF Wired
<1>8. Known' /\ Read'
  BY <1>3, <1>4, <1>5, <1>6, <1>7 DEF Sole, Known, Read
<1>9. Alone'
  BY <1>3, <1>4, <1>5, <1>7 DEF Sole, Alone
<1>10. Shaking'
  BY <1>3, <1>4, <1>5, <1>7 DEF Sole, Shaking
<1>11. Quiet' /\ Held'
  BY <1>1, <1>3, <1>7 DEF Sole, Quiet, Held
<1> QED BY <1>8, <1>9, <1>10, <1>11 DEF Sole

\* A loop that wakes closes its own client's link.
LEMMA WakeSole ==
  ASSUME Wired, Sole, NEW l \in Links, LoopWakes(l)
  PROVE  Sole'
<1> DEFINE c == owner[l]
<1>1. loop[l] = "sleeping" /\ c \in Clients /\ closing[c] = "no"
  BY DEF LoopWakes, Wired, Sole, Quiet
<1>2. /\ loop' = [loop EXCEPT ![l] = "connecting"]
      /\ up' = up \ {transport[c]} /\ transport' = [transport EXCEPT ![c] = 0]
      /\ UNCHANGED <<connected, closing, readTask, loopTask, owner, reader, shaken>>
  BY <1>1 DEF LoopWakes
<1>3. \A m \in Links : m # l /\ loop[m] # "none" => owner[m] # c
  BY <1>1 DEF Sole, Known
<1>4. loop'[l] = "connecting" /\ \A m \in Links : m # l => loop'[m] = loop[m]
  BY <1>2 DEF Wired
<1>5. Known' /\ Read' /\ Quiet'
  BY <1>1, <1>2, <1>4 DEF Sole, Known, Read, Quiet
<1>6. Alone'
  BY <1>1, <1>2, <1>4 DEF Sole, Alone
<1>7. Shaking'
  <2> SUFFICES ASSUME NEW m \in Links, loop'[m] = "shaking"
               PROVE  /\ shaken'[m] \in up'
                      /\ owner'[shaken'[m]] = owner'[m] /\ owner'[m] \in connected'
    BY DEF Shaking
  <2>1. m # l /\ loop[m] = "shaking"
    BY <1>4
  <2>2. /\ shaken[m] \in up /\ owner[shaken[m]] = owner[m] /\ owner[m] \in connected
    BY <2>1 DEF Sole, Shaking
  <2>3. shaken[m] # 0
    BY <2>2, BoundsTyped DEF Wired
  <2>4. shaken[m] # transport[c]
    BY <1>1, <1>3, <2>1, <2>2, <2>3 DEF Sole, Held
  <2> QED BY <1>2, <2>2, <2>4
<1>8. Held'
  BY <1>1, <1>2 DEF Sole, Held, Wired
<1> QED BY <1>5, <1>6, <1>7, <1>8 DEF Sole

\* A client that is closed has no loop that needs its link.
LEMMA CloseTransportSole ==
  ASSUME Wired, Sole, NEW c \in Clients, CloseTransport(c)
  PROVE  Sole'
<1>1. /\ closing[c] = "begun" /\ closing' = [closing EXCEPT ![c] = "waiting"]
      /\ up' = up \ {transport[c]} /\ transport' = [transport EXCEPT ![c] = 0]
      /\ UNCHANGED <<connected, readTask, loopTask, owner, reader, loop, shaken>>
  BY DEF CloseTransport, loops
<1>2. \A l \in Links : loop[l] # "none" \/ reader[l] # "off" =>
        owner[l] \in Clients /\ owner[l] # c
  BY <1>1 DEF Wired, Sole, Quiet
<1>3. Known' /\ Read' /\ Alone'
  BY <1>1 DEF Sole, Known, Read, Alone
<1>4. Shaking'
  <2> SUFFICES ASSUME NEW m \in Links, loop[m] = "shaking"
               PROVE  shaken[m] \in up'
    BY <1>1 DEF Sole, Shaking
  <2>1. shaken[m] \in up /\ owner[shaken[m]] = owner[m]
    BY DEF Sole, Shaking
  <2>2. shaken[m] # 0
    BY <2>1, BoundsTyped DEF Wired
  <2>3. shaken[m] # transport[c]
    BY <1>2, <2>1, <2>2 DEF Sole, Held
  <2> QED BY <1>1, <2>1, <2>3
<1>5. Quiet' /\ Held'
  BY <1>1, <1>2 DEF Sole, Quiet, Held, Wired
<1> QED BY <1>3, <1>4, <1>5 DEF Sole

\* Without a flaky departure every kind of step leaves one loop to a client.
LEMMA KindSole ==
  ASSUME Wired, Sole, Kind, "flaky" \notin departs'
  PROVE  Sole'
<1>1. \A k \in Links : ~ShakenOn(k) => \A l \in Links : loop[l] = "shaking" => shaken[l] # k
  BY DEF ShakenOn
<1>2. ASSUME NEW k \in Links, NEW d, Departs(d \cup When(ShakenOn(k), "flaky"))
      PROVE  ~ShakenOn(k)
  BY <1>2 DEF Departs, When
<1>3. CASE Still
  BY <1>3 DEF Still, objects, wires, loops, Sole, Known, Read, Alone, Shaking, Quiet, Held
<1>4. ASSUME NEW c \in Clients, BeginClose(c) \/ CloseTransport(c) \/ CloseEnds(c)
      PROVE  Sole'
  <2>1. CASE CloseEnds(c)
    <3>1. /\ closing' = [closing EXCEPT ![c] = "no"]
          /\ UNCHANGED <<transport, connected, readTask, loopTask, owner, up, reader, loop, shaken>>
      BY <2>1 DEF CloseEnds, wires, loops
    <3> QED BY <3>1 DEF Sole, Known, Read, Alone, Shaking, Quiet, Held, Wired
  <2> QED BY <1>4, <2>1, CloseSole, CloseTransportSole
<1>5. CASE \E b \in Builders, c \in Clients, k \in Links : Opens(b, c, k)
  <2>1. PICK b \in Builders, c \in Clients, k \in Links : Opens(b, c, k)
    BY <1>5
  <2>2. closing[c] = "no" /\ Readers(c) = {} /\ LoopsOf(c) = {}
    BY <2>1 DEF Opens, NewClient, IsGone
  <2>3. OpenLink(c, k) /\ UNCHANGED <<closing, loopTask, loop, shaken>>
    BY <2>1 DEF Opens, loops
  <2> QED BY <2>2, <2>3, OpenSole
<1>6. ASSUME NEW k \in Links, ReaderStep(k)
      PROVE  Sole'
  <2>1. reader[k] # "off" /\ EndReader(k)
    BY <1>6 DEF ReaderStep, ReaderEnds, ReaderCrashes
  <2>2. \A l \in Links : loop[l] = "shaking" => shaken[l] # k
    <3>1. CASE ReaderEnds(k)
      BY <3>1 DEF ReaderEnds, Sole, Shaking
    <3>2. CASE ReaderCrashes(k)
      BY <1>1, <1>2, <3>2 DEF ReaderCrashes
    <3> QED BY <1>6, <3>1, <3>2 DEF ReaderStep
  <2> QED BY <2>1, <2>2, EndSole
<1>7. ASSUME NEW k \in Links, LinkDies(k) \/ SessionExpires(k)
      PROVE  Sole'
  <2>1. ~ShakenOn(k)
    <3>1. CASE LinkDies(k)
      BY <3>1 DEF LinkDies, Departs, When
    <3> QED BY <1>2, <1>7, <3>1 DEF SessionExpires
  <2>2. /\ up' = up \ {k}
        /\ UNCHANGED <<transport, connected, closing, readTask, loopTask, owner, loop, shaken>>
    BY <1>7 DEF LinkDies, SessionExpires, objects, loops
  <2>3. \A j \in Links : reader'[j] # "off" => reader[j] # "off"
    BY <1>7 DEF LinkDies, SessionExpires, Wired
  <2>4. Known' /\ Read' /\ Alone' /\ Quiet' /\ Held'
    BY <2>2, <2>3 DEF Sole, Known, Read, Alone, Quiet, Held
  <2>5. Shaking'
    BY <1>1, <2>1, <2>2 DEF Sole, Shaking
  <2> QED BY <2>4, <2>5 DEF Sole
<1>8. ASSUME NEW l \in Links, LoopStep(l)
      PROVE  Sole'
  <2>1. loop[l] # "none"
    BY <1>8 DEF LoopStep, LoopWakes, LoopOpens, LoopOpenFails, LoopShakes, LoopShakeFails,
                LoopRefused
  <2>2. CASE LoopWakes(l)
    BY <2>2, WakeSole
  <2>3. CASE \E k \in Links : LoopOpens(l, k)
    <3>1. PICK k \in Links : LoopOpens(l, k)
      BY <2>3
    <3>2. /\ loop[l] = "connecting" /\ OpenLink(owner[l], k)
          /\ loop' = [loop EXCEPT ![l] = "shaking"] /\ shaken' = [shaken EXCEPT ![l] = k]
          /\ UNCHANGED <<closing, loopTask>>
      BY <3>1 DEF LoopOpens
    <3>3. owner[l] \in Clients /\ closing[owner[l]] = "no" /\ l \in LoopsOf(owner[l])
      BY <2>1 DEF Wired, Sole, Quiet, LoopsOf
    <3>4. Readers(owner[l]) = {}
      BY <3>2 DEF Sole, Alone, Readers
    <3> QED BY <3>2, <3>3, <3>4, OpenSole
  <2>4. CASE LoopShakeFails(l)
    <3>1. shaken[l] \in up
      BY <2>4 DEF LoopShakeFails, Sole, Shaking
    <3> QED BY <2>4, <3>1 DEF LoopShakeFails, Departs, When
  <2>5. CASE LoopOpenFails(l)
    <3>1. /\ UNCHANGED <<transport, closing, readTask, wires>>
          /\ Retry(l) /\ loop[l] = "connecting" /\ connected' = connected \ {owner[l]}
      BY <2>5 DEF LoopOpenFails, Retry
    <3> QED BY <2>1, <3>1, RetrySole
  <2>6. CASE LoopShakes(l) \/ LoopRefused(l)
    <3>1. /\ UNCHANGED <<transport, closing, readTask, wires>>
          /\ LoopEnds(l) /\ connected' \in {connected, connected \ {owner[l]}}
      BY <2>6 DEF LoopShakes, LoopRefused
    <3> QED BY <2>1, <3>1, RetrySole
  <2> QED BY <1>8, <2>2, <2>3, <2>4, <2>5, <2>6 DEF LoopStep
<1>9. CASE \E q \in Calls : Call(q) \/ Answered(q)
  <2>1. UNCHANGED <<objects, wires, loops>>
    BY <1>9 DEF Call, Answered
  <2> QED BY <2>1 DEF objects, wires, loops, Sole, Known, Read, Alone, Shaking, Quiet, Held
<1> QED BY <1>3, <1>4, <1>5, <1>6, <1>7, <1>8, <1>9 DEF Kind

-----------------------------------------------------------------------------
(* What waits is read                                                      *)

\* close() answers the calls whose reader it stops.
LEMMA CloseTended ==
  ASSUME Wired, Sole, Tended, NEW c \in Clients, BeginClose(c)
  PROVE  Tended'
<1>1. /\ closing' = [closing EXCEPT ![c] = "begun"] /\ connected' = connected \ {c}
      /\ sent' = Released(Waiting(c)) /\ UNCHANGED <<transport, owner, up>>
      /\ reader' = [k \in Links |-> IF k = readTask[c] THEN "off" ELSE reader[k]]
      /\ loop' = [k \in Links |-> IF k = loopTask[c] THEN "none" ELSE loop[k]]
  BY DEF BeginClose
<1>2. \A k \in Links : owner[k] # c => reader'[k] = reader[k]
  <2> SUFFICES ASSUME NEW k \in Links, owner[k] # c
               PROVE  k # readTask[c]
    BY <1>1
  <2> QED BY BoundsTyped DEF Wired
<1>3. \A k \in Links : owner[k] = c => reader'[k] = "off"
  BY CloseSole
<1>4. Heeded'
  BY <1>1, <1>2 DEF Tended, Heeded, Wired
<1>5. Latest' /\ Bare'
  BY <1>1 DEF Tended, Latest, Bare
<1>6. Fresh'
  BY <1>1, <1>3 DEF Tended, Fresh
<1>7. Answerable'
  <2> SUFFICES ASSUME NEW q \in Calls, sent'[q] # 0
               PROVE  reader'[sent'[q]] # "off"
    BY DEF Answerable
  <2>1. sent'[q] = sent[q] /\ q \notin Waiting(c)
    BY <1>1 DEF Released
  <2>2. owner[sent[q]] # c /\ sent[q] \in Links
    BY <2>1, BoundsTyped DEF Waiting, Wired
  <2> QED BY <1>2, <2>1, <2>2 DEF Tended, Answerable
<1> QED BY <1>4, <1>5, <1>6, <1>7 DEF Tended

\* A client opens a link when it has none.
LEMMA OpenTended ==
  ASSUME Wired, Sole, Tended, NEW c \in Clients, NEW k \in Links, OpenLink(c, k),
         UNCHANGED <<closing, sent>>, Open(c) = {},
         \A l \in Links : loop'[l] = "connecting" =>
           loop[l] = "connecting" /\ owner[l] # c
  PROVE  Tended'
<1>1. /\ owner' = [owner EXCEPT ![k] = c]
      /\ up' = up \cup {k} /\ reader' = [reader EXCEPT ![k] = "on"]
      /\ transport' = [transport EXCEPT ![c] = k] /\ connected' = connected \cup {c}
  BY DEF OpenLink
<1>2. k \notin up /\ reader[k] = "off" /\ loop[k] = "none"
  BY DEF OpenLink, NewLink, IsFree
<1>3. owner'[k] = c /\ reader'[k] = "on" /\ transport'[c] = k
  BY <1>1 DEF Wired
<1>4. \A j \in Links : j # k => owner'[j] = owner[j] /\ reader'[j] = reader[j]
  BY <1>1 DEF Wired
<1>5. Heeded'
  BY <1>1, <1>3, <1>4 DEF Tended, Heeded, Wired
<1>6. Latest'
  <2> SUFFICES ASSUME NEW j \in up, j # k
               PROVE  transport'[owner'[j]] = j
    BY <1>1, <1>3 DEF Latest
  <2>1. j \in Links /\ owner[j] \in Clients /\ owner[j] # c
    BY DEF Open, Tended, Heeded, Wired
  <2> QED BY <1>1, <1>4, <2>1 DEF Tended, Latest, Wired
<1>7. Fresh'
  BY <1>1, <1>3, <1>4 DEF Tended, Fresh
<1>8. Bare'
  <2> SUFFICES ASSUME NEW l \in Links, loop'[l] = "connecting"
               PROVE  transport'[owner'[l]] = 0
    BY DEF Bare
  <2>1. loop[l] = "connecting" /\ l # k /\ owner'[l] = owner[l]
    BY <1>2, <1>4
  <2>2. owner[l] \in Clients /\ owner[l] # c
    BY <2>1 DEF Wired
  <2> QED BY <1>1, <2>1, <2>2 DEF Tended, Bare, Wired
<1>9. Answerable'
  BY <1>2, <1>3, <1>4, BoundsTyped DEF Tended, Answerable, Wired
<1> QED BY <1>5, <1>6, <1>7, <1>8, <1>9 DEF Tended

\* A reader that ends when its link is down answers the calls that wait on it.
LEMMA EndTended ==
  ASSUME Wired, Sole, Tended, NEW k \in Links, reader[k] # "off", EndReader(k), k \notin up,
         \A l \in Links : loop[l] = "shaking" => shaken[l] # k
  PROVE  Tended'
<1> DEFINE c == owner[k]
<1>1. /\ closing[c] = "no"
      /\ \A j \in Links : owner[j] = c => reader'[j] = "off" /\ (j # k => loop[j] = "none")
  BY EndSole
<1>2. /\ reader' = [reader EXCEPT ![k] = "off"]
      /\ connected' = connected \ {c} /\ sent' = Released(Waiting(c))
      /\ loop' = [loop EXCEPT ![k] = "sleeping"]
      /\ UNCHANGED <<transport, closing, owner, up>>
  BY <1>1 DEF EndReader
<1>3. Heeded' /\ Latest'
  BY <1>2 DEF Tended, Heeded, Latest, Wired
<1>4. Fresh'
  BY <1>1, <1>2 DEF Tended, Fresh, Wired
<1>5. Bare'
  BY <1>2 DEF Tended, Bare, Wired
<1>6. Answerable'
  <2> SUFFICES ASSUME NEW q \in Calls, sent'[q] # 0
               PROVE  reader'[sent'[q]] # "off"
    BY DEF Answerable
  <2>1. sent'[q] = sent[q] /\ q \notin Waiting(c)
    BY <1>2 DEF Released
  <2>2. sent[q] # k /\ sent[q] \in Links
    BY <2>1, BoundsTyped DEF Waiting, Wired
  <2> QED BY <1>2, <2>1, <2>2 DEF Tended, Answerable, Wired
<1> QED BY <1>3, <1>4, <1>5, <1>6 DEF Tended

\* A client that closes its transport closes the only link it has.
LEMMA ClosedTended ==
  ASSUME Wired, Sole, Tended, NEW c \in Clients,
         up' = up \ {transport[c]}, transport' = [transport EXCEPT ![c] = 0],
         UNCHANGED <<connected, owner, reader, sent>>,
         \A d \in Clients \ {c} : closing'[d] = closing[d],
         \A l \in Links : loop'[l] = "connecting" => loop[l] = "connecting" \/ owner[l] = c
  PROVE  Tended'
<1>1. \A j \in up' : j \in up /\ owner[j] \in Clients /\ owner[j] # c
  BY DEF Tended, Heeded, Latest
<1>2. Heeded'
  BY <1>1 DEF Tended, Heeded
<1>3. Latest'
  BY <1>1 DEF Tended, Latest, Wired
<1>4. Bare'
  <2> SUFFICES ASSUME NEW l \in Links, loop'[l] = "connecting"
               PROVE  transport'[owner'[l]] = 0
    BY DEF Bare
  <2>1. CASE owner[l] = c
    BY <2>1 DEF Wired
  <2>2. CASE owner[l] # c
    <3>1. loop[l] = "connecting" /\ owner[l] \in Clients
      BY <2>2 DEF Wired
    <3> QED BY <2>2, <3>1 DEF Tended, Bare, Wired
  <2> QED BY <2>1, <2>2
<1>5. Fresh' /\ Answerable'
  BY DEF Tended, Fresh, Answerable
<1> QED BY <1>2, <1>3, <1>4, <1>5 DEF Tended

\* A step that leaves the links as they are.
LEMMA SameTended ==
  ASSUME Wired, Tended, UNCHANGED <<transport, closing, owner, reader, sent>>,
         up' \subseteq up,
         \A l \in Links : loop'[l] = "connecting" => loop[l] = "connecting",
         \A k \in Links : reader[k] # "off" /\ owner[k] \in connected => owner[k] \in connected'
  PROVE  Tended'
BY DEF Tended, Heeded, Latest, Fresh, Bare, Answerable

\* A careful step leaves every call that waits to a reader.
LEMMA StepTended ==
  ASSUME Books, Sole, Tended, Kind, Next,
         departs' \cap {"flaky", "garbled", "unauthorized", "late"} = {}
  PROVE  Tended'
<1>1. Wired /\ Managed
  BY DEF Books
<1>2. CASE Still
  BY <1>1, <1>2, SameTended DEF Still, objects, wires, loops
<1>3. ASSUME NEW c \in Clients, BeginClose(c) \/ CloseTransport(c) \/ CloseEnds(c)
      PROVE  Tended'
  <2>1. CASE CloseEnds(c)
    <3>1. /\ closing[c] = "waiting" /\ closing' = [closing EXCEPT ![c] = "no"]
          /\ UNCHANGED <<transport, connected, owner, up, reader, loop, sent>>
      BY <2>1 DEF CloseEnds, wires, loops
    <3> QED BY <1>1, <3>1 DEF Tended, Heeded, Latest, Fresh, Bare, Answerable, Wired
  <2>2. CASE CloseTransport(c)
    <3>1. /\ closing' = [closing EXCEPT ![c] = "waiting"]
          /\ up' = up \ {transport[c]} /\ transport' = [transport EXCEPT ![c] = 0]
          /\ UNCHANGED <<connected, owner, reader, loop, sent>>
      BY <2>2 DEF CloseTransport, loops
    <3>2. \A d \in Clients \ {c} : closing'[d] = closing[d]
      BY <1>1, <3>1 DEF Wired
    <3> QED BY <1>1, <3>1, <3>2, ClosedTended
  <2> QED BY <1>1, <1>3, <2>1, <2>2, CloseTended
<1>4. CASE \E b \in Builders, c \in Clients, k \in Links : Opens(b, c, k)
  <2>1. PICK b \in Builders, c \in Clients, k \in Links : Opens(b, c, k)
    BY <1>4
  <2>2. LoopsOf(c) = {} /\ Open(c) = {}
    BY <2>1 DEF Opens, NewClient, IsGone
  <2>3. OpenLink(c, k) /\ UNCHANGED <<closing, sent, loop>>
    BY <2>1 DEF Opens, loops
  <2>4. \A l \in Links : loop'[l] = "connecting" => loop[l] = "connecting" /\ owner[l] # c
    BY <2>2, <2>3 DEF LoopsOf
  <2> QED BY <1>1, <2>2, <2>3, <2>4, OpenTended
<1>5. ASSUME NEW k \in Links, ReaderStep(k) \/ LinkDies(k) \/ SessionExpires(k)
      PROVE  Tended'
  <2>1. CASE ReaderEnds(k)
    <3>1. reader[k] # "off" /\ EndReader(k)
      BY <2>1 DEF ReaderEnds
    <3>2. k \notin up
      BY <2>1 DEF ReaderEnds, Tended, Fresh
    <3>3. \A l \in Links : loop[l] = "shaking" => shaken[l] # k
      BY <3>2 DEF Sole, Shaking
    <3> QED BY <1>1, <3>1, <3>2, <3>3, EndTended
  <2>2. ~ReaderCrashes(k)
    BY DEF ReaderCrashes, Departs
  <2>3. CASE LinkDies(k)
    <3>1. up' \subseteq up
          /\ UNCHANGED <<transport, connected, closing, owner, reader, loop, sent>>
      BY <2>3 DEF LinkDies, objects, loops
    <3> QED BY <1>1, <3>1, SameTended
  <2>4. CASE SessionExpires(k)
    <3>1. /\ up' \subseteq up /\ reader' = [reader EXCEPT ![k] = "deaf"]
          /\ UNCHANGED <<transport, connected, closing, owner, loop, sent>>
          /\ reader[k] = "on"
      BY <2>4 DEF SessionExpires, objects, loops
    <3>2. \A j \in Links : reader'[j] # "off" <=> reader[j] # "off"
      BY <1>1, <3>1 DEF Wired
    <3>3. \A q \in Calls : sent[q] # 0 => sent[q] \in Links
      BY <1>1, BoundsTyped DEF Wired
    <3>4. up \subseteq Links
      BY <1>1 DEF Wired
    <3> QED BY <3>1, <3>2, <3>3, <3>4 DEF Tended, Heeded, Latest, Fresh, Bare, Answerable
  <2> QED BY <1>5, <2>1, <2>2, <2>3, <2>4 DEF ReaderStep
<1>6. ASSUME NEW l \in Links, LoopStep(l)
      PROVE  Tended'
  <2>1. loop[l] # "none"
    BY <1>6 DEF LoopStep, LoopWakes, LoopOpens, LoopOpenFails, LoopShakes, LoopShakeFails,
                LoopRefused
  <2>2. owner[l] \in Clients /\ closing[owner[l]] = "no"
    BY <1>1, <2>1 DEF Wired, Sole, Quiet
  <2>3. CASE LoopWakes(l)
    <3>1. /\ up' = up \ {transport[owner[l]]}
          /\ transport' = [transport EXCEPT ![owner[l]] = 0]
          /\ loop' = [loop EXCEPT ![l] = "connecting"]
          /\ UNCHANGED <<connected, closing, owner, reader, sent>>
      BY <2>2, <2>3 DEF LoopWakes
    <3>2. \A m \in Links : loop'[m] = "connecting" => loop[m] = "connecting" \/ owner[m] = owner[l]
      BY <1>1, <3>1 DEF Wired
    <3> QED BY <1>1, <2>2, <3>1, <3>2, ClosedTended
  <2>4. CASE \E k \in Links : LoopOpens(l, k)
    <3>1. PICK k \in Links : LoopOpens(l, k)
      BY <2>4
    <3>2. /\ loop[l] = "connecting" /\ OpenLink(owner[l], k)
          /\ loop' = [loop EXCEPT ![l] = "shaking"] /\ UNCHANGED <<closing, sent>>
      BY <3>1 DEF LoopOpens
    <3>3. Open(owner[l]) = {}
      <4> SUFFICES ASSUME NEW j \in up, owner[j] = owner[l]
                   PROVE  FALSE
        BY DEF Open
      <4>1. transport[owner[l]] = j /\ transport[owner[l]] = 0
        BY <3>2 DEF Tended, Latest, Bare
      <4>2. j # 0
        BY <1>1, BoundsTyped DEF Wired
      <4> QED BY <4>1, <4>2
    <3>4. \A m \in Links : loop'[m] = "connecting" => loop[m] = "connecting" /\ owner[m] # owner[l]
      <4>1. \A m \in Links : m # l /\ loop[m] # "none" => owner[m] # owner[l]
        BY <2>1 DEF Sole, Known
      <4>2. loop'[l] = "shaking" /\ \A m \in Links : m # l => loop'[m] = loop[m]
        BY <1>1, <3>2 DEF Wired
      <4> QED BY <4>1, <4>2
    <3> QED BY <1>1, <2>2, <3>2, <3>3, <3>4, OpenTended
  <2>5. CASE LoopOpenFails(l)
    <3>1. /\ UNCHANGED <<transport, closing, wires, sent>> /\ loop[l] = "connecting"
          /\ Retry(l) /\ connected' = connected \ {owner[l]}
      BY <2>5 DEF LoopOpenFails, Retry
    <3>2. \A k \in Links : reader[k] # "off" => owner[k] # owner[l]
      BY <3>1 DEF Sole, Alone
    <3>3. \A m \in Links : loop'[m] = "connecting" => loop[m] = "connecting"
      BY <1>1, <3>1 DEF Retry, LoopEnds, Wired
    <3> QED BY <1>1, <3>1, <3>2, <3>3, SameTended DEF wires
  <2>6. CASE LoopShakes(l)
    <3>1. /\ UNCHANGED <<transport, connected, closing, wires, sent>>
          /\ loop' = [loop EXCEPT ![l] = "none"]
      BY <2>6 DEF LoopShakes, LoopEnds
    <3>2. \A m \in Links : loop'[m] = "connecting" => loop[m] = "connecting"
      BY <1>1, <3>1 DEF Wired
    <3> QED BY <1>1, <3>1, <3>2, SameTended DEF wires
  <2>7. ~LoopShakeFails(l)
    <3>1. loop[l] = "shaking" => shaken[l] \in up
      BY DEF Sole, Shaking
    <3> QED BY <3>1 DEF LoopShakeFails, Departs, When
  <2>8. ~LoopRefused(l)
    BY DEF LoopRefused, Departs
  <2> QED BY <1>6, <2>3, <2>4, <2>5, <2>6, <2>7, <2>8 DEF LoopStep
<1>7. ASSUME NEW q \in Calls, Call(q) \/ Answered(q)
      PROVE  Tended'
  <2>1. /\ UNCHANGED <<transport, connected, closing, owner, up, reader, loop>>
    BY <1>7 DEF Call, Answered, objects, wires, loops
  <2>2. Answerable'
    <3>1. CASE Answered(q)
      BY <2>1, <3>1 DEF Answered, Tended, Answerable, Wired
    <3>2. CASE Call(q)
      <4>1. client # 0 /\ transport[client] \in up /\ sent' = [sent EXCEPT ![q] = transport[client]]
        BY <3>2 DEF Call
      <4>2. closing[client] = "no"
        BY <3>2 DEF Call, Departs, When
      <4>3. client \in Clients /\ transport[client] # 0
        BY <1>1, <4>1, BoundsTyped DEF Managed, Wired
      <4>4. owner[transport[client]] = client
        BY <4>3 DEF Sole, Held
      <4>5. reader[transport[client]] # "off"
        BY <4>1, <4>2, <4>4 DEF Tended, Heeded
      <4> QED BY <1>1, <2>1, <4>1, <4>5 DEF Tended, Answerable, Wired
    <3> QED BY <1>7, <3>1, <3>2
  <2> QED BY <2>1, <2>2 DEF Tended, Heeded, Latest, Fresh, Bare
<1> QED BY <1>2, <1>3, <1>4, <1>5, <1>6, <1>7 DEF Kind

-----------------------------------------------------------------------------
(* The invariant                                                           *)

\* Every step is of one kind.
LEMMA NextKind ==
  ASSUME Books, Next
  PROVE  Kind
<1>1. CASE \/ \E b \in Builders : Connects(b)
           \/ SweepLooks \/ AuthorizationStarts \/ AuthorizationTimesOut
           \/ CallRefused \/ RefreshFails \/ Remove \/ Add
  BY <1>1, ManagerKind
<1>2. CASE \/ \E k \in Links : ReaderStep(k) \/ LinkDies(k) \/ SessionExpires(k)
           \/ \E l \in Links : LoopStep(l)
           \/ \E c \in Clients : CloseStep(c)
           \/ \E q \in Calls : Call(q) \/ Answered(q)
  BY <1>2 DEF Kind, CloseStep
<1> QED BY <1>1, <1>2 DEF Next

\* The invariant holds at first.
LEMMA InitInv == Init => MInv
BY InitBooks DEF MInv

\* Every step keeps the invariant.
LEMMA StepInv == MInv /\ [Next]_vars => MInv'
<1> SUFFICES ASSUME MInv, [Next]_vars PROVE MInv'
  OBVIOUS
<1>1. CASE Next
  <2>1. Kind /\ Wired /\ Books
    BY <1>1, NextKind DEF MInv, Books
  <2>2. Books' /\ departs \subseteq departs'
    BY <1>1, <2>1, StepManaged, StepCounted, KindWired DEF Books
  <2>3. Calm' => Sole /\ "flaky" \notin departs'
    BY <2>2 DEF MInv, Calm, Tolerates
  <2>4. Calm' => Sole'
    BY <2>1, <2>3, KindSole
  <2>5. Careful' => /\ Sole /\ Tended
                    /\ departs' \cap {"flaky", "garbled", "unauthorized", "late"} = {}
    BY <2>2 DEF MInv, Calm, Careful, Tolerates, AllDepartures
  <2>6. Careful' => Tended'
    BY <1>1, <2>1, <2>5, StepTended
  <2> QED BY <2>2, <2>4, <2>6 DEF MInv
<1>2. CASE UNCHANGED vars
  <2>1. UNCHANGED <<departs, spent, configured, entry, client, pc, mine, verdict>>
        /\ UNCHANGED <<objects, wires, loops, sent>>
    BY <1>2 DEF vars, manager, served
  <2>2. Kind
    BY <2>1 DEF Kind, Still
  <2>3. Books'
    BY <2>1, <2>2, KindWired DEF MInv, Books, Counted, Managed
  <2>4. Sole => Sole'
    BY <2>1 DEF objects, wires, loops, Sole, Known, Read, Alone, Shaking, Quiet, Held
  <2>5. Tended => Tended'
    BY <2>1 DEF objects, wires, loops, Tended, Heeded, Latest, Fresh, Bare, Answerable
  <2> QED BY <2>1, <2>3, <2>4, <2>5 DEF MInv, Calm, Careful, Tolerates
<1> QED BY <1>1, <1>2

\* The variables stay in their domains.
THEOREM McpTyped == Spec => []TypeOK
<1>1. MInv => TypeOK
  BY DEF MInv, Books, Counted, Managed, Wired, TypeOK
<1> QED BY <1>1, InitInv, StepInv, PTL DEF Spec

\* But for connections that fail under a handshake, a client has one reconnect
\* loop at most, and that has no connection of its own to tear down.
THEOREM LoopsAreSingle == Spec => []OneLoop
<1>1. MInv => OneLoop
  <2> SUFFICES ASSUME MInv, Calm PROVE
        \A c \in Clients :
          /\ \A l, m \in LoopsOf(c) : l = m
          /\ \A l \in LoopsOf(c) : loop[l] # "shaking" => Readers(c) = {}
    BY DEF OneLoop, Calm
  <2>1. Sole
    BY DEF MInv
  <2>2. \A c \in Clients : \A l, m \in LoopsOf(c) : l = m
    BY <2>1 DEF Sole, Known, LoopsOf
  <2>3. \A c \in Clients : \A l \in LoopsOf(c) : loop[l] # "shaking" => Readers(c) = {}
    BY <2>1 DEF Sole, Alone, LoopsOf, Readers
  <2> QED BY <2>2, <2>3
<1> QED BY <1>1, InitInv, StepInv, PTL DEF Spec

\* A call that waits can be answered, or is failed when its connection ends.
THEOREM WaitingCallsAreRead == Spec => []CallsAreRead
<1>1. MInv => CallsAreRead
  BY DEF MInv, Careful, Tended, Answerable, CallsAreRead
<1> QED BY <1>1, InitInv, StepInv, PTL DEF Spec

-----------------------------------------------------------------------------
(* What a client leaves behind                                             *)

\* The clients without a link that is up, a reader or a loop.
Empty == {c \in Clients : Open(c) \cup Readers(c) \cup LoopsOf(c) = {}}

\* A link that is up is its client's transport, and a loop opens the only one.
Attached ==
  /\ \A k \in up : owner[k] \in Clients /\ transport[owner[k]] = k
  /\ Bare

\* One task at a time connects the server.
OneBusy == \A a, b \in Builders : Busy(a) /\ Busy(b) => a = b
\* A client that is being closed is closed by a task that has it in hand.
Closers == \A c \in Clients : closing[c] # "no" =>
             \E b \in Builders : pc[b] \in {"closing", "undoing"} /\ mine[b] = c
\* A client whose transport was closed is empty, and stays so.
Emptied ==
  /\ \A c \in Clients : closing[c] = "waiting" => c \in Empty
  /\ \A b \in Builders :
       pc[b] \in {"closing", "undoing"} /\ closing[mine[b]] = "no" => mine[b] \in Empty
\* Once the old client is closed, it is empty, and the task makes another one.
Past == \A b \in Builders :
  /\ pc[b] \in {"connecting", "shaking", "announcing", "undoing"} =>
       client = 0 \/ client \in Empty
  /\ pc[b] \in {"shaking", "announcing", "undoing"} => mine[b] # client
\* A server that was removed is not connected.
Removed ==
  /\ ~configured => client = 0 /\ \A b \in Builders : Busy(b) => pc[b] = "closing"
  /\ pc["config"] = "closing" => ~configured
  /\ \A b \in Builders : pc[b] = "looked" => b \in {"health", "oauth", "caller"}
\* Only the configuration closes a client that is not the entry's.
Replaced == \A b \in Builders \ {"config"} : pc[b] = "closing" => mine[b] = client
\* A task that has nothing in hand has no client.
Idle == \A b \in Builders : mine[b] # 0 => pc[b] \in {"closing", "shaking", "announcing", "undoing"}
\* What is not empty is wanted.
Clean == \A c \in Clients :
  \/ c \in Empty \/ (configured /\ client = c)
  \/ closing[c] # "no" \/ \E b \in Builders : mine[b] = c

Roles == OneBusy /\ Closers /\ Emptied /\ Past /\ Removed /\ Replaced /\ Idle /\ Clean

Single == Tolerates({"exhausted", "garbled", "expired", "late"})

SInv == Single => Attached /\ Roles

-----------------------------------------------------------------------------
(* What is empty stays empty                                               *)

\* A client is empty when no link is left of it.
LEMMA EmptyMeans ==
  ASSUME Wired, NEW c \in Clients
  PROVE  c \in Empty <=> \A k \in Links : owner[k] = c =>
                           k \notin up /\ reader[k] = "off" /\ loop[k] = "none"
BY DEF Empty, Open, Readers, LoopsOf, Wired

\* Only a task that makes a client ends its emptiness.
LEMMA EmptyStays ==
  ASSUME Wired, Wired', Kind, NEW d \in Empty
  PROVE  d \in Empty' \/ \E b \in Builders, k \in Links : Opens(b, d, k)
<1> DEFINE Off(k) == k \notin up /\ reader[k] = "off" /\ loop[k] = "none"
           OffNow(k) == k \notin up' /\ reader'[k] = "off" /\ loop'[k] = "none"
<1>1. d \in Clients /\ \A k \in Links : owner[k] = d => Off(k)
  <2>1. d \in Clients
    BY DEF Empty
  <2> QED BY <2>1, EmptyMeans
<1>2. SUFFICES ASSUME ~\E b \in Builders, k \in Links : Opens(b, d, k)
               PROVE  \A k \in Links : owner'[k] = d => OffNow(k)
  <2>1. (\A k \in Links : owner'[k] = d => OffNow(k)) => d \in Empty'
    BY <1>1 DEF Empty, Open, Readers, LoopsOf, Wired
  <2> QED BY <2>1
<1>3. CASE Still
  BY <1>1, <1>3 DEF Still, wires, loops
<1>4. ASSUME NEW c \in Clients, BeginClose(c) \/ CloseTransport(c) \/ CloseEnds(c)
      PROVE  \A k \in Links : owner'[k] = d => OffNow(k)
  <2>1. owner' = owner /\ up' \subseteq up
    BY <1>4 DEF BeginClose, CloseTransport, CloseEnds, wires
  <2>2. \A k \in Links : reader'[k] \in {reader[k], "off"} /\ loop'[k] \in {loop[k], "none"}
    BY <1>4 DEF BeginClose, CloseTransport, CloseEnds, wires, loops
  <2> QED BY <1>1, <2>1, <2>2
<1>5. ASSUME NEW c \in Clients, NEW k \in Links, c # d, OpenLink(c, k),
             \A l \in Links : loop'[l] = "none" \/ owner[l] # d,
             \A l \in Links : loop'[l] # "none" => loop[l] # "none"
      PROVE  \A j \in Links : owner'[j] = d => OffNow(j)
  <2>1. /\ owner' = [owner EXCEPT ![k] = c] /\ up' = up \cup {k}
        /\ reader' = [reader EXCEPT ![k] = "on"] /\ loop[k] = "none"
    BY <1>5 DEF OpenLink, NewLink, IsFree
  <2>2. owner'[k] = c /\ \A j \in Links : j # k => owner'[j] = owner[j] /\ reader'[j] = reader[j]
    BY <2>1 DEF Wired
  <2> QED BY <1>1, <1>5, <2>1, <2>2
<1>6. CASE \E b \in Builders, c \in Clients, k \in Links : Opens(b, c, k)
  <2>1. PICK b \in Builders, c \in Clients, k \in Links : Opens(b, c, k)
    BY <1>6
  <2>2. c # d
    BY <1>2, <2>1
  <2>3. OpenLink(c, k) /\ loop' = loop
    BY <2>1 DEF Opens, loops
  <2>4. \A l \in Links : loop'[l] = "none" \/ owner[l] # d
    BY <1>1, <2>3
  <2> QED BY <1>5, <2>2, <2>3, <2>4
<1>7. ASSUME NEW k \in Links, ReaderStep(k) \/ LinkDies(k) \/ SessionExpires(k)
      PROVE  \A j \in Links : owner'[j] = d => OffNow(j)
  <2>1. owner[k] # d
    BY <1>1, <1>7 DEF ReaderStep, ReaderEnds, ReaderCrashes, LinkDies, SessionExpires
  <2>2. owner' = owner /\ up' \subseteq up
    BY <1>7 DEF ReaderStep, ReaderEnds, ReaderCrashes, EndReader, LinkDies, SessionExpires
  <2>3. \A j \in Links : j # k => reader'[j] = reader[j] /\ loop'[j] = loop[j]
    <3>1. CASE ReaderStep(k)
      <4>1. EndReader(k)
        BY <3>1 DEF ReaderStep, ReaderEnds, ReaderCrashes
      <4> QED BY <4>1 DEF EndReader, Wired
    <3>2. CASE LinkDies(k) \/ SessionExpires(k)
      BY <3>2 DEF LinkDies, SessionExpires, loops, Wired
    <3> QED BY <1>7, <3>1, <3>2
  <2> QED BY <1>1, <2>1, <2>2, <2>3
<1>8. ASSUME NEW l \in Links, LoopStep(l)
      PROVE  \A j \in Links : owner'[j] = d => OffNow(j)
  <2>1. loop[l] # "none"
    BY <1>8 DEF LoopStep, LoopWakes, LoopOpens, LoopOpenFails, LoopShakes, LoopShakeFails,
                LoopRefused
  <2>2. owner[l] \in Clients /\ owner[l] # d
    BY <1>1, <2>1 DEF Wired
  <2>3. \A m \in Links : m # l => loop'[m] = loop[m]
    BY <1>8 DEF LoopStep, LoopWakes, LoopOpens, LoopOpenFails, LoopShakes, LoopShakeFails,
                LoopRefused, LoopEnds, Retry, Wired
  <2>4. CASE \E k \in Links : LoopOpens(l, k)
    <3>1. PICK k \in Links : LoopOpens(l, k)
      BY <2>4
    <3>2. OpenLink(owner[l], k)
      BY <3>1 DEF LoopOpens
    <3>3. \A m \in Links : loop'[m] = "none" \/ owner[m] # d
      BY <1>1, <2>2, <2>3
    <3>4. \A m \in Links : loop'[m] # "none" => loop[m] # "none"
      BY <2>1, <2>3
    <3> QED BY <1>5, <2>2, <3>2, <3>3, <3>4
  <2>5. CASE ~\E k \in Links : LoopOpens(l, k)
    <3>1. owner' = owner /\ reader' = reader /\ up' \subseteq up
      BY <1>8, <2>5 DEF LoopStep, LoopWakes, LoopOpenFails, LoopShakes, LoopShakeFails,
                        LoopRefused, wires
    <3> QED BY <1>1, <2>2, <2>3, <3>1
  <2> QED BY <2>4, <2>5
<1>9. CASE \E q \in Calls : Call(q) \/ Answered(q)
  BY <1>1, <1>9 DEF Call, Answered, wires, loops
<1> QED BY <1>3, <1>4, <1>6, <1>7, <1>8, <1>9 DEF Kind

\* close() leaves its client empty when the transport is closed.
LEMMA ClosedIsEmpty ==
  ASSUME Wired, Sole, Attached, NEW c \in Clients, CloseTransport(c)
  PROVE  c \in Empty'
<1>1. /\ closing[c] = "begun" /\ up' = up \ {transport[c]}
      /\ UNCHANGED <<owner, reader, loop>>
  BY DEF CloseTransport, loops
<1>2. \A k \in Links : owner[k] = c => reader[k] = "off" /\ loop[k] = "none"
  BY <1>1 DEF Sole, Quiet
<1>3. \A k \in up : owner[k] = c => k = transport[c]
  BY DEF Attached
<1> QED BY <1>1, <1>2, <1>3 DEF Empty, Open, Readers, LoopsOf

-----------------------------------------------------------------------------
(* A client has one link                                                   *)

\* A client opens a link when it has none.
LEMMA OpenAttached ==
  ASSUME Wired, Attached, NEW c \in Clients, NEW k \in Links, OpenLink(c, k), Open(c) = {},
         \A l \in Links : loop'[l] = "connecting" => loop[l] = "connecting" /\ owner[l] # c
  PROVE  Attached'
<1>1. /\ owner' = [owner EXCEPT ![k] = c] /\ up' = up \cup {k}
      /\ transport' = [transport EXCEPT ![c] = k] /\ loop[k] = "none" /\ k \notin up
  BY DEF OpenLink, NewLink, IsFree
<1>2. owner'[k] = c /\ transport'[c] = k /\ \A j \in Links : j # k => owner'[j] = owner[j]
  BY <1>1 DEF Wired
<1>3. \A d \in Clients : d # c => transport'[d] = transport[d]
  BY <1>1 DEF Wired
<1>4. \A j \in up : j \in Links /\ owner[j] \in Clients /\ owner[j] # c /\ transport[owner[j]] = j
  BY DEF Open, Attached, Wired
<1>5. \A j \in up' : owner'[j] \in Clients /\ transport'[owner'[j]] = j
  BY <1>1, <1>2, <1>3, <1>4
<1>6. Bare'
  <2> SUFFICES ASSUME NEW l \in Links, loop'[l] = "connecting"
               PROVE  transport'[owner'[l]] = 0
    BY DEF Bare
  <2>1. loop[l] = "connecting" /\ l # k /\ owner[l] \in Clients /\ owner[l] # c
    BY <1>1 DEF Wired
  <2> QED BY <1>2, <1>3, <2>1 DEF Attached, Bare
<1> QED BY <1>5, <1>6 DEF Attached

\* A client that is closed needs nobody to hold it.
LEMMA ClosedAttached ==
  ASSUME Wired, Attached, NEW c \in Clients,
         up' = up \ {transport[c]}, transport' = [transport EXCEPT ![c] = 0], owner' = owner,
         \A l \in Links : loop'[l] = "connecting" => loop[l] = "connecting" \/ owner[l] = c
  PROVE  Attached'
<1>1. \A j \in up' : j \in up /\ owner[j] \in Clients /\ owner[j] # c
  BY DEF Attached
<1>2. \A d \in Clients : transport'[d] = IF d = c THEN 0 ELSE transport[d]
  BY DEF Wired
<1>3. \A j \in up' : owner'[j] \in Clients /\ transport'[owner'[j]] = j
  BY <1>1, <1>2 DEF Attached
<1>4. Bare'
  BY <1>2 DEF Attached, Bare, Wired
<1> QED BY <1>3, <1>4 DEF Attached

\* Every kind of step leaves a client with a link to somebody.
LEMMA KindAttached ==
  ASSUME Wired, Sole, Attached, Kind
  PROVE  Attached'
<1>1. ASSUME UNCHANGED <<owner, transport>>, up' \subseteq up,
             \A l \in Links : loop'[l] = "connecting" => loop[l] = "connecting"
      PROVE  Attached'
  BY <1>1 DEF Attached, Bare
<1>2. CASE Still
  BY <1>1, <1>2 DEF Still, objects, wires, loops
<1>3. ASSUME NEW c \in Clients, BeginClose(c) \/ CloseTransport(c) \/ CloseEnds(c)
      PROVE  Attached'
  <2>1. CASE BeginClose(c)
    <3>1. UNCHANGED <<owner, transport, up>>
      BY <2>1 DEF BeginClose
    <3>2. \A l \in Links : loop'[l] = "connecting" => loop[l] = "connecting"
      BY <2>1 DEF BeginClose
    <3> QED BY <1>1, <3>1, <3>2
  <2>2. CASE CloseTransport(c)
    BY <2>2, ClosedAttached DEF CloseTransport, loops
  <2>3. CASE CloseEnds(c)
    BY <1>1, <2>3 DEF CloseEnds, wires, loops
  <2> QED BY <1>3, <2>1, <2>2, <2>3
<1>4. CASE \E b \in Builders, c \in Clients, k \in Links : Opens(b, c, k)
  <2>1. PICK b \in Builders, c \in Clients, k \in Links : Opens(b, c, k)
    BY <1>4
  <2>2. LoopsOf(c) = {} /\ Open(c) = {} /\ OpenLink(c, k) /\ loop' = loop
    BY <2>1 DEF Opens, NewClient, IsGone, loops
  <2>3. \A l \in Links : loop'[l] = "connecting" => loop[l] = "connecting" /\ owner[l] # c
    BY <2>2 DEF LoopsOf
  <2> QED BY <2>2, <2>3, OpenAttached
<1>5. ASSUME NEW k \in Links, ReaderStep(k) \/ LinkDies(k) \/ SessionExpires(k)
      PROVE  Attached'
  <2>1. CASE ReaderStep(k)
    <3>1. EndReader(k)
      BY <2>1 DEF ReaderStep, ReaderEnds, ReaderCrashes
    <3>2. loop' = loop \/ loop' = [loop EXCEPT ![k] = "sleeping"]
      BY <3>1 DEF EndReader
    <3>3. \A l \in Links : loop'[l] = "connecting" => loop[l] = "connecting"
      BY <3>2 DEF Wired
    <3> QED BY <1>1, <3>1, <3>3 DEF EndReader
  <2>2. CASE LinkDies(k) \/ SessionExpires(k)
    BY <1>1, <2>2 DEF LinkDies, SessionExpires, objects, loops
  <2> QED BY <1>5, <2>1, <2>2
<1>6. ASSUME NEW l \in Links, LoopStep(l)
      PROVE  Attached'
  <2>1. loop[l] # "none"
    BY <1>6 DEF LoopStep, LoopWakes, LoopOpens, LoopOpenFails, LoopShakes, LoopShakeFails,
                LoopRefused
  <2>2. owner[l] \in Clients /\ closing[owner[l]] = "no"
    BY <2>1 DEF Wired, Sole, Quiet
  <2>3. CASE LoopWakes(l)
    <3>1. /\ up' = up \ {transport[owner[l]]} /\ owner' = owner
          /\ transport' = [transport EXCEPT ![owner[l]] = 0]
          /\ loop' = [loop EXCEPT ![l] = "connecting"]
      BY <2>2, <2>3 DEF LoopWakes
    <3>2. \A m \in Links : loop'[m] = "connecting" => loop[m] = "connecting" \/ owner[m] = owner[l]
      BY <3>1 DEF Wired
    <3> QED BY <2>2, <3>1, <3>2, ClosedAttached
  <2>4. CASE \E k \in Links : LoopOpens(l, k)
    <3>1. PICK k \in Links : LoopOpens(l, k)
      BY <2>4
    <3>2. /\ loop[l] = "connecting" /\ OpenLink(owner[l], k)
          /\ loop' = [loop EXCEPT ![l] = "shaking"]
      BY <3>1 DEF LoopOpens
    <3>3. Open(owner[l]) = {}
      <4> SUFFICES ASSUME NEW j \in up, owner[j] = owner[l]
                   PROVE  FALSE
        BY DEF Open
      <4>1. transport[owner[l]] = j /\ transport[owner[l]] = 0
        BY <3>2 DEF Attached, Bare
      <4>2. j # 0
        BY BoundsTyped DEF Wired
      <4> QED BY <4>1, <4>2
    <3>4. \A m \in Links : loop'[m] = "connecting" => loop[m] = "connecting" /\ owner[m] # owner[l]
      <4>1. \A m \in Links : m # l /\ loop[m] # "none" => owner[m] # owner[l]
        BY <2>1 DEF Sole, Known
      <4>2. loop'[l] = "shaking" /\ \A m \in Links : m # l => loop'[m] = loop[m]
        BY <3>2 DEF Wired
      <4> QED BY <4>1, <4>2
    <3> QED BY <2>2, <3>2, <3>3, <3>4, OpenAttached
  <2>5. CASE LoopOpenFails(l) \/ LoopShakes(l) \/ LoopShakeFails(l) \/ LoopRefused(l)
    <3>1. UNCHANGED <<owner, transport, up>> /\ (Retry(l) \/ LoopEnds(l))
      BY <2>5 DEF LoopOpenFails, LoopShakes, LoopShakeFails, LoopRefused, wires
    <3>2. \A m \in Links : loop'[m] = "connecting" => loop[m] = "connecting"
      BY <3>1 DEF Retry, LoopEnds, Wired
    <3> QED BY <1>1, <3>1, <3>2
  <2> QED BY <1>6, <2>3, <2>4, <2>5 DEF LoopStep
<1>7. CASE \E q \in Calls : Call(q) \/ Answered(q)
  BY <1>1, <1>7 DEF Call, Answered, objects, wires, loops
<1> QED BY <1>2, <1>3, <1>4, <1>5, <1>6, <1>7 DEF Kind

-----------------------------------------------------------------------------
(* Who has a client in hand                                                *)

\* A step that leaves the tasks, the entry and close() alone.
LEMMA SameRoles ==
  ASSUME Roles, UNCHANGED <<configured, client, pc, mine, closing>>, Empty \subseteq Empty'
  PROVE  Roles'
<1>1. \A b \in Builders : Busy(b)' <=> Busy(b)
  BY DEF Busy
<1>2. OneBusy' /\ Removed' /\ Replaced' /\ Idle' /\ Closers'
  BY <1>1 DEF Roles, OneBusy, Removed, Replaced, Idle, Closers, Busy
<1>3. Emptied' /\ Past' /\ Clean'
  BY DEF Roles, Emptied, Past, Clean
<1> QED BY <1>2, <1>3 DEF Roles

\* close() goes on.
LEMMA CloseRoles ==
  ASSUME Wired, Managed, Roles, NEW c \in Clients, CloseTransport(c) \/ CloseEnds(c),
         Empty \subseteq Empty', CloseTransport(c) => c \in Empty'
  PROVE  Roles'
<1>1. UNCHANGED <<configured, client, pc, mine>> /\ closing[c] # "no"
  BY DEF CloseTransport, CloseEnds, manager, served
<1>2. \A d \in Clients : d # c => closing'[d] = closing[d]
  BY DEF CloseTransport, CloseEnds, Wired
<1>3. \/ closing' = [closing EXCEPT ![c] = "waiting"] /\ c \in Empty'
      \/ closing' = [closing EXCEPT ![c] = "no"] /\ c \in Empty'
  BY DEF CloseTransport, CloseEnds, Roles, Emptied
<1>4. PICK b \in Builders : pc[b] \in {"closing", "undoing"} /\ mine[b] = c
  BY <1>1 DEF Roles, Closers
<1>5. OneBusy' /\ Removed' /\ Replaced' /\ Idle' /\ Past'
  BY <1>1 DEF Roles, OneBusy, Removed, Replaced, Idle, Past, Busy
<1>6. Closers'
  BY <1>1, <1>2, <1>4 DEF Roles, Closers
<1>7. Emptied'
  <2>1. \A d \in Clients : closing'[d] = "waiting" => d \in Empty'
    BY <1>2, <1>3 DEF Roles, Emptied
  <2>2. ASSUME NEW a \in Builders, pc'[a] \in {"closing", "undoing"}, closing'[mine'[a]] = "no"
        PROVE  mine'[a] \in Empty'
    <3>1. CASE mine[a] = c
      BY <1>1, <1>3, <3>1
    <3>2. CASE mine[a] # c
      <4>1. closing'[mine[a]] = closing[mine[a]]
        BY <1>1, <1>2, <2>2, <3>2 DEF Managed
      <4> QED BY <1>1, <2>2, <4>1 DEF Roles, Emptied
    <3> QED BY <3>1, <3>2
  <2> QED BY <2>1, <2>2 DEF Emptied
<1>8. Clean'
  BY <1>1, <1>2, <1>4 DEF Roles, Clean
<1> QED BY <1>5, <1>6, <1>7, <1>8 DEF Roles

\* What the manager's tasks do to the clients.
LEMMA TaskFacts ==
  ASSUME Managed, Roles, NEW b \in Builders
  PROVE  /\ pc[b] \in {"closing", "shaking", "announcing", "undoing"} =>
              mine[b] \in Clients /\ mine[b] # 0
         /\ pc[b] \notin {"closing", "shaking", "announcing", "undoing"} => mine[b] = 0
         /\ Busy(b) => \A a \in Builders : Busy(a) => a = b
         /\ client # 0 => client \in Clients
<1>1. pc[b] \in {"closing", "shaking", "announcing", "undoing"} => mine[b] \in Clients
  BY DEF Managed
<1>2. \A c \in Clients : c # 0
  BY BoundsTyped
<1>3. client # 0 => client \in Clients
  BY BoundsTyped DEF Managed
<1> QED BY <1>1, <1>2, <1>3 DEF Roles, Idle, OneBusy

\* A task moves on, with the client it had, or none.
LEMMA MoveRoles ==
  ASSUME Wired, Managed, Roles, NEW b \in Builders, NEW p \in {"idle", "looked", "connecting",
                                                          "announcing"},
         pc' = [pc EXCEPT ![b] = p], UNCHANGED <<configured, client, closing>>, Empty' = Empty,
         p = "announcing" => pc[b] = "shaking" /\ mine' = mine,
         p # "announcing" => /\ mine' = [mine EXCEPT ![b] = 0]
                             /\ pc[b] \notin {"shaking", "announcing", "undoing"}
                             /\ pc[b] = "closing" => closing[mine[b]] = "no",
         p = "looked" => b \in {"health", "oauth", "caller"},
         p = "connecting" => /\ configured
                             /\ \A a \in Builders \ {b} : ~Busy(a)
                             /\ client = 0 \/ client \in Empty
  PROVE  Roles'
<1>1. \A a \in Builders : a # b => pc'[a] = pc[a] /\ mine'[a] = mine[a]
  BY DEF Managed
<1>2. pc'[b] = p
  BY DEF Managed
<1>3. /\ p = "announcing" => mine'[b] = mine[b]
      /\ p # "announcing" => mine'[b] = 0
  BY DEF Managed
<1>5. OneBusy'
  BY <1>1, <1>2 DEF Roles, OneBusy, Busy
<1>6. Closers'
  BY <1>1, <1>2 DEF Roles, Closers
<1>7. Emptied'
  BY <1>1, <1>2 DEF Roles, Emptied
<1>8. Past'
  BY <1>1, <1>2, <1>3 DEF Roles, Past
<1>9. Removed'
  <2>1. ~configured => \A a \in Builders : Busy(a)' => pc'[a] = "closing"
    BY <1>1, <1>2 DEF Roles, Removed, Busy
  <2> QED BY <1>1, <1>2, <2>1 DEF Roles, Removed, Builders
<1>10. Idle' /\ Replaced'
  BY <1>1, <1>2, <1>3 DEF Roles, Idle, Replaced
<1>11. Clean'
  <2> SUFFICES ASSUME NEW c \in Clients, c \notin Empty, ~(configured /\ client = c),
                      closing[c] = "no"
               PROVE  \E a \in Builders : mine'[a] = c
    BY DEF Clean
  <2>1. PICK a \in Builders : mine[a] = c
    BY DEF Roles, Clean
  <2>2. CASE a # b
    BY <1>1, <2>1, <2>2
  <2>3. CASE a = b
    <3>1. pc[b] \in {"closing", "shaking", "announcing", "undoing"}
      BY <2>1, <2>3, BoundsTyped DEF Roles, Idle
    <3>2. CASE p = "announcing"
      BY <1>3, <2>1, <2>3, <3>2
    <3>3. CASE p # "announcing"
      <4>1. pc[b] = "closing" /\ closing[mine[b]] = "no"
        BY <3>1, <3>3
      <4> QED BY <2>1, <2>3, <4>1 DEF Roles, Emptied
    <3> QED BY <3>2, <3>3
  <2> QED BY <2>2, <2>3
<1> QED BY <1>5, <1>6, <1>7, <1>8, <1>9, <1>10, <1>11 DEF Roles

\* A client is taken to be closed.
LEMMA TakeRoles ==
  ASSUME Wired, Managed, Roles, NEW b \in Builders, NEW c \in Clients,
         NEW p \in {"closing", "undoing"}, BeginClose(c), Empty \subseteq Empty',
         pc' = [pc EXCEPT ![b] = p], mine' = [mine EXCEPT ![b] = c],
         \A a \in Builders \ {b} : ~Busy(a),
         p = "undoing" => pc[b] = "shaking" /\ mine[b] = c /\ UNCHANGED <<configured, client>>,
         p = "closing" => /\ ~Busy(b) /\ c = client
                          /\ \/ UNCHANGED <<configured, client>> /\ configured /\ b # "config"
                             \/ configured' = FALSE /\ client' = 0 /\ b = "config"
  PROVE  Roles'
<1>1. \A a \in Builders : a # b => pc'[a] = pc[a] /\ mine'[a] = mine[a] /\ ~Busy(a)
  BY DEF Managed
<1>2. pc'[b] = p /\ mine'[b] = c /\ c # 0
  BY BoundsTyped DEF Managed
<1>3. /\ closing'[c] = "begun"
      /\ \A d \in Clients : d # c => closing'[d] = closing[d]
  BY DEF BeginClose, Wired
<1>4. \A a \in Builders : a # b => ~Busy(a)'
  BY <1>1 DEF Busy
<1>5. OneBusy' /\ Idle'
  BY <1>1, <1>2, <1>4 DEF OneBusy, Roles, Idle
<1>6. Closers'
  <2> SUFFICES ASSUME NEW d \in Clients, closing'[d] # "no", d # c
               PROVE  FALSE
    BY <1>2 DEF Closers
  <2>1. PICK a \in Builders : pc[a] \in {"closing", "undoing"} /\ mine[a] = d
    BY <1>3 DEF Roles, Closers
  <2> QED BY <1>1, <2>1 DEF Busy
<1>7. Emptied'
  <2>1. \A d \in Clients : closing'[d] = "waiting" => d \in Empty'
    BY <1>3 DEF Roles, Emptied
  <2>2. \A a \in Builders : pc'[a] \in {"closing", "undoing"} => a = b
    BY <1>1 DEF Busy
  <2> QED BY <1>2, <1>3, <2>1, <2>2 DEF Emptied
<1>8. Past'
  <2>1. \A a \in Builders \ {b} : pc'[a] \in {"idle", "looked"}
    BY <1>1 DEF Busy
  <2> QED BY <1>2, <2>1 DEF Roles, Past
<1>9. Removed' /\ Replaced'
  BY <1>1, <1>2, <1>4 DEF Roles, Removed, Replaced, Busy
<1>10. Clean'
  <2> SUFFICES ASSUME NEW d \in Clients, d \notin Empty', d # c
               PROVE  (configured' /\ client' = d) \/ closing'[d] # "no"
    BY <1>2 DEF Clean
  <2>1. ~\E a \in Builders : mine[a] = d
    <3> SUFFICES ASSUME NEW a \in Builders, mine[a] = d
                 PROVE  FALSE
      OBVIOUS
    <3>1. Busy(a)
      BY BoundsTyped DEF Roles, Idle, Busy
    <3> QED BY <1>1, <3>1
  <2> QED BY <1>3, <2>1 DEF Roles, Clean
<1> QED BY <1>5, <1>6, <1>7, <1>8, <1>9, <1>10 DEF Roles


\* A task writes the entry.
LEMMA OutcomeRoles ==
  ASSUME Wired, Managed, Roles, NEW b \in Builders, NEW e, Outcome(b, e),
         UNCHANGED <<configured, closing>>, Empty' = Empty,
         client = 0 \/ client \in Empty,
         \/ pc[b] \in {"connecting", "looked"} /\ e # "connected" /\ (Busy(b) \/ client = 0)
         \/ pc[b] = "announcing" /\ e = "connected" /\ configured
         \/ pc[b] = "undoing" /\ e # "connected" /\ closing[mine[b]] = "no"
  PROVE  Roles'
<1>1. /\ \A a \in Builders : a # b => pc'[a] = pc[a] /\ mine'[a] = mine[a]
      /\ pc'[b] = "idle" /\ mine'[b] = 0
      /\ client' = IF e = "connected" THEN mine[b] ELSE 0
  BY DEF Outcome, Managed
<1>2. OneBusy' /\ Idle' /\ Replaced'
  <2>1. Replaced'
    <3>1. CASE Busy(b)
      <4>1. \A a \in Builders : pc'[a] # "closing"
        BY <1>1, <3>1, TaskFacts DEF Busy
      <4> QED BY <4>1 DEF Replaced
    <3>2. CASE ~Busy(b)
      BY <1>1, <3>2 DEF Roles, Replaced, Busy
    <3> QED BY <3>1, <3>2
  <2> QED BY <1>1, <2>1 DEF Roles, OneBusy, Idle, Busy
<1>3. Closers'
  BY <1>1 DEF Roles, Closers
<1>4. Emptied'
  BY <1>1 DEF Roles, Emptied
<1>5. Past'
  <2>1. CASE e = "connected"
    <3>1. \A a \in Builders : pc'[a] \in {"idle", "looked"}
      BY <1>1, <2>1, TaskFacts DEF Busy
    <3> QED BY <3>1 DEF Past
  <2>2. CASE e # "connected"
    <3>1. client' = 0
      BY <1>1, <2>2
    <3>2. \A a \in Builders : pc'[a] \in {"shaking", "announcing", "undoing"} =>
            pc[a] \in {"shaking", "announcing", "undoing"} /\ mine'[a] = mine[a]
      BY <1>1
    <3>3. \A a \in Builders : pc'[a] \in {"shaking", "announcing", "undoing"} => mine'[a] # 0
      BY <3>2, TaskFacts
    <3> QED BY <3>1, <3>3 DEF Past
  <2> QED BY <2>1, <2>2
<1>6. Removed'
  <2>1. ~configured => client' = 0
    BY <1>1
  <2>2. \A a \in Builders : Busy(a)' => Busy(a) /\ pc'[a] = pc[a]
    BY <1>1 DEF Busy
  <2>3. \A a \in Builders : pc'[a] = "looked" \/ pc'[a] = "closing" => pc'[a] = pc[a]
    BY <1>1
  <2> QED BY <2>1, <2>2, <2>3 DEF Roles, Removed, Builders
<1>7. Clean'
  <2> SUFFICES ASSUME NEW c \in Clients, c \notin Empty, closing[c] = "no",
                      ~(configured /\ client' = c)
               PROVE  \E a \in Builders : mine'[a] = c
    BY DEF Clean
  <2>1. client # c
    BY BoundsTyped
  <2>2. PICK a \in Builders : mine[a] = c
    BY <2>1 DEF Roles, Clean
  <2>3. a # b
    <3> SUFFICES ASSUME a = b PROVE FALSE
      OBVIOUS
    <3>1. mine[b] # 0 /\ mine[b] \notin Empty
      BY <2>2, BoundsTyped
    <3>2. pc[b] \in {"announcing", "undoing"}
      BY <3>1, TaskFacts
    <3>3. pc[b] # "undoing"
      BY <3>1 DEF Roles, Emptied
    <3> QED BY <1>1, <2>2, <3>2, <3>3
  <2> QED BY <1>1, <2>2, <2>3
<1> QED BY <1>2, <1>3, <1>4, <1>5, <1>6, <1>7 DEF Roles

\* A task makes a client.
LEMMA OpensRoles ==
  ASSUME Wired, Managed, Roles, NEW b \in Builders, NEW c \in Clients, NEW k \in Links,
         Opens(b, c, k), \A d \in Empty : d # c => d \in Empty'
  PROVE  Roles'
<1>1. /\ pc[b] = "connecting" /\ pc' = [pc EXCEPT ![b] = "shaking"]
      /\ mine' = [mine EXCEPT ![b] = c] /\ UNCHANGED <<configured, client, closing>>
      /\ client # c /\ closing[c] = "no"
  BY DEF Opens, NewClient, IsGone, served
<1>2. \A a \in Builders : a # b => pc'[a] = pc[a] /\ mine'[a] = mine[a] /\ ~Busy(a)
  BY <1>1, TaskFacts DEF Managed, Busy
<1>3. pc'[b] = "shaking" /\ mine'[b] = c /\ mine[b] = 0
  BY <1>1, TaskFacts DEF Managed
<1>4. \A a \in Builders : a # b => ~Busy(a)'
  BY <1>2 DEF Busy
<1>5. \A a \in Builders : a # b => pc'[a] \in {"idle", "looked"}
  BY <1>2 DEF Busy
<1>6. OneBusy' /\ Idle' /\ Replaced'
  BY <1>2, <1>3, <1>4, <1>5 DEF OneBusy, Roles, Idle, Replaced
<1>7. Closers'
  BY <1>1, <1>2 DEF Roles, Closers
<1>8. Emptied'
  <2>1. \A d \in Clients : closing'[d] = "waiting" => d \in Empty'
    BY <1>1 DEF Roles, Emptied
  <2> QED BY <1>3, <1>5, <2>1 DEF Emptied
<1>9. Past'
  <2>1. client = 0 \/ client \in Empty
    BY <1>1 DEF Roles, Past
  <2> QED BY <1>1, <1>3, <1>5, <2>1 DEF Past
<1>10. Removed'
  <2>1. configured
    BY <1>1 DEF Roles, Removed, Busy
  <2> QED BY <1>1, <1>2, <1>3, <2>1 DEF Roles, Removed, Builders
<1>11. Clean'
  BY <1>1, <1>2, <1>3, BoundsTyped DEF Roles, Clean
<1> QED BY <1>6, <1>7, <1>8, <1>9, <1>10, <1>11 DEF Roles

-----------------------------------------------------------------------------
(* The invariant                                                           *)

\* A step that makes no client leaves the empty ones empty.
LEMMA EmptyKept ==
  ASSUME Wired, Wired', Managed, Kind, UNCHANGED pc \/ up' \subseteq up
  PROVE  Empty \subseteq Empty'
<1>1. \A b \in Builders, d \in Clients, k \in Links : ~Opens(b, d, k)
  <2> SUFFICES ASSUME NEW b \in Builders, NEW d \in Clients, NEW k \in Links, Opens(b, d, k)
               PROVE  FALSE
    OBVIOUS
  <2>1. pc[b] = "connecting" /\ pc'[b] = "shaking"
    BY DEF Opens, Managed
  <2>2. k \notin up /\ k \in up'
    BY DEF Opens, OpenLink, NewLink, IsFree
  <2> QED BY <2>1, <2>2
<1>2. Empty \subseteq Clients
  BY DEF Empty
<1> QED BY <1>1, <1>2, EmptyStays

\* And so does a step that leaves the clients alone.
LEMMA EmptySame ==
  ASSUME Still PROVE Empty' = Empty
BY DEF Still, wires, loops, Empty, Open, Readers, LoopsOf

\* The tasks that connect the server.
LEMMA ConnectsRoles ==
  ASSUME Books, Wired', Kind, Roles, NEW b \in Builders, Connects(b),
         departs' \cap {"flaky", "unannounced", "unauthorized", "twins", "removed"} = {}
  PROVE  Roles'
<1>1. Wired /\ Managed
  BY DEF Books
<1>2. CASE Reconnect(b)
  <2>1. pc[b] = "looked" /\ b \in {"health", "oauth", "caller"} /\ mine[b] = 0 /\ ~Busy(b)
    BY <1>1, <1>2, TaskFacts DEF Reconnect, Roles, Removed, Busy
  <2>2. CASE ~configured
    <3>1. client = 0
      BY <2>2 DEF Roles, Removed
    <3>2. /\ pc' = [pc EXCEPT ![b] = "idle"] /\ UNCHANGED <<configured, client, mine>> /\ Still
      BY <1>2, <2>2, <3>1 DEF Reconnect, served, Still
    <3>3. mine' = [mine EXCEPT ![b] = 0] /\ closing' = closing
      BY <1>1, <2>1, <3>2 DEF Managed, Still, objects
    <3> QED BY <1>1, <2>1, <3>2, <3>3, EmptySame, MoveRoles
  <2>3. CASE configured
    <3>1. Departs(When(OthersBusy(b), "twins")) /\ UNCHANGED <<configured, client>>
      BY <1>2, <2>3 DEF Reconnect, served
    <3>2. \A a \in Builders \ {b} : ~Busy(a)
      BY <3>1 DEF Departs, When, OthersBusy
    <3>3. CASE client # 0 /\ closing[client] = "no"
      <4>1. /\ pc' = [pc EXCEPT ![b] = "closing"] /\ mine' = [mine EXCEPT ![b] = client]
            /\ BeginClose(client)
        BY <1>2, <2>3, <3>3 DEF Reconnect
      <4>2. client \in Clients /\ Empty \subseteq Empty'
        BY <1>1, <3>3, <4>1, TaskFacts, EmptyKept DEF BeginClose
      <4> QED BY <1>1, <2>1, <2>3, <3>1, <3>2, <4>1, <4>2, TakeRoles
    <3>4. CASE ~(client # 0 /\ closing[client] = "no")
      <4>1. pc' = [pc EXCEPT ![b] = "connecting"] /\ UNCHANGED mine /\ Still
        BY <1>2, <2>3, <3>4 DEF Reconnect, Still
      <4>2. mine' = [mine EXCEPT ![b] = 0] /\ closing' = closing
        BY <1>1, <2>1, <4>1 DEF Managed, Still, objects
      <4>3. client = 0
        <5> SUFFICES ASSUME client # 0 PROVE FALSE
          OBVIOUS
        <5>1. client \in Clients /\ closing[client] # "no"
          BY <1>1, <3>4, TaskFacts
        <5>2. PICK a \in Builders : pc[a] \in {"closing", "undoing"}
          BY <5>1 DEF Roles, Closers
        <5> QED BY <2>1, <3>2, <5>2 DEF Busy
      <4> QED BY <1>1, <2>1, <2>3, <3>1, <3>2, <4>1, <4>2, <4>3, EmptySame, MoveRoles
    <3> QED BY <3>3, <3>4
  <2> QED BY <2>2, <2>3
<1>3. CASE OldIsClosed(b)
  <2>1. /\ pc[b] = "closing" /\ closing[mine[b]] = "no"
        /\ pc' = [pc EXCEPT ![b] = IF b = "config" THEN "idle" ELSE "connecting"]
        /\ mine' = [mine EXCEPT ![b] = 0]
        /\ UNCHANGED <<configured, client>> /\ Still
    BY <1>3 DEF OldIsClosed, served, Still
  <2>2. closing' = closing
    BY <2>1 DEF Still, objects
  <2>3. \A a \in Builders \ {b} : ~Busy(a)
    BY <1>1, <2>1, TaskFacts DEF Busy
  <2>4. b # "config" => configured /\ (client = 0 \/ client \in Empty)
    BY <1>1, <2>1, TaskFacts DEF Roles, Emptied, Replaced, Removed
  <2> QED BY <1>1, <2>1, <2>2, <2>3, <2>4, EmptySame, MoveRoles
<1>4. CASE OpenFails(b) \/ Announces(b) \/ Undone(b)
  <2>1. PICK e :
          /\ Outcome(b, e)
          /\ \/ pc[b] = "connecting" /\ e = "failed"
             \/ pc[b] = "announcing" /\ e = "connected"
             \/ pc[b] = "undoing" /\ closing[mine[b]] = "no" /\ e = verdict[b]
    <3>1. CASE OpenFails(b)
      BY <3>1 DEF OpenFails
    <3>2. CASE Announces(b)
      BY <3>2 DEF Announces
    <3>3. CASE Undone(b)
      BY <3>3 DEF Undone
    <3> QED BY <1>4, <3>1, <3>2, <3>3
  <2>2. verdict[b] # "connected"
    BY <1>1 DEF Managed, Verdicts
  <2>3. configured' = configured /\ Still
    BY <1>4 DEF OpenFails, Announces, Undone, Still
  <2>4. configured
    BY <2>1 DEF Roles, Removed, Busy
  <2>5. client = 0 \/ client \in Empty
    BY <2>1 DEF Roles, Past
  <2>6. closing' = closing /\ Empty' = Empty
    BY <2>3, EmptySame DEF Still, objects
  <2>7. Busy(b)
    BY <2>1 DEF Busy
  <2> QED BY <1>1, <2>1, <2>2, <2>3, <2>4, <2>5, <2>6, <2>7, OutcomeRoles
<1>5. CASE Shakes(b)
  <2>1. /\ pc[b] = "shaking" /\ pc' = [pc EXCEPT ![b] = "announcing"]
        /\ UNCHANGED <<configured, client, mine>> /\ Still
    BY <1>5 DEF Shakes, served, Still
  <2>2. closing' = closing
    BY <2>1 DEF Still, objects
  <2> QED BY <1>1, <2>1, <2>2, EmptySame, MoveRoles
<1>6. CASE \E c \in Clients, k \in Links : Opens(b, c, k)
  <2>1. PICK c \in Clients, k \in Links : Opens(b, c, k)
    BY <1>6
  <2>2. ASSUME NEW d \in Empty, d # c
        PROVE  d \in Empty'
    <3>1. transport'[c] = k /\ transport[c] = 0 /\ k # 0
      BY <1>1, <2>1, BoundsTyped DEF Opens, OpenLink, NewClient, IsGone, Wired
    <3>2. ~\E a \in Builders, j \in Links : Opens(a, d, j)
      BY <1>1, <2>2, <3>1 DEF Opens, OpenLink, Wired
    <3> QED BY <1>1, <3>2, EmptyStays
  <2> QED BY <1>1, <2>1, <2>2, OpensRoles
<1>7. CASE \E v \in Verdicts : ShakeFails(b, v)
  <2>1. /\ pc[b] = "shaking" /\ pc' = [pc EXCEPT ![b] = "undoing"] /\ BeginClose(mine[b])
        /\ UNCHANGED <<configured, client, mine>>
    BY <1>7 DEF ShakeFails, served
  <2>2. /\ mine[b] \in Clients /\ \A a \in Builders \ {b} : ~Busy(a)
    BY <1>1, <2>1, TaskFacts DEF Busy
  <2>3. mine' = [mine EXCEPT ![b] = mine[b]] /\ Empty \subseteq Empty'
    BY <1>1, <2>1, EmptyKept DEF Managed, BeginClose
  <2> QED BY <1>1, <2>1, <2>2, <2>3, TakeRoles
<1>8. ~\E v \in Verdicts : AnnounceFails(b, v)
  BY DEF AnnounceFails, Departs
<1> QED BY <1>2, <1>3, <1>4, <1>5, <1>6, <1>7, <1>8 DEF Connects

\* The tasks that start one, and the configuration.
LEMMA ManagerRoles ==
  ASSUME Books, Wired', Kind, Roles,
         \/ SweepLooks \/ AuthorizationStarts \/ AuthorizationTimesOut
         \/ CallRefused \/ RefreshFails \/ Remove \/ Add,
         departs' \cap {"flaky", "unannounced", "unauthorized", "twins", "removed"} = {}
  PROVE  Roles'
<1>1. Wired /\ Managed
  BY DEF Books
<1>2. ASSUME NEW b \in {"health", "oauth", "caller"}, NEW p \in {"looked", "idle"},
             pc[b] \in {"idle", "looked"}, pc' = [pc EXCEPT ![b] = p],
             UNCHANGED <<configured, client, mine>>, Still
      PROVE  Roles'
  <2>1. b \in Builders
    BY DEF Builders
  <2>2. mine[b] = 0
    BY <1>1, <1>2, <2>1, TaskFacts
  <2>3. mine' = [mine EXCEPT ![b] = 0] /\ closing' = closing
    BY <1>1, <1>2, <2>1, <2>2 DEF Managed, Still, objects
  <2> QED BY <1>1, <1>2, <2>1, <2>3, EmptySame, MoveRoles
<1>3. CASE SweepLooks \/ AuthorizationStarts \/ AuthorizationTimesOut \/ CallRefused
  <2>1. /\ UNCHANGED <<configured, client, mine>> /\ Still
        /\ \E b \in {"health", "oauth", "caller"}, p \in {"looked", "idle"} :
             pc[b] \in {"idle", "looked"} /\ pc' = [pc EXCEPT ![b] = p]
    BY <1>3 DEF SweepLooks, AuthorizationStarts, AuthorizationTimesOut, CallRefused,
                served, Still
  <2> QED BY <1>2, <2>1
<1>4. CASE RefreshFails
  <2>1. /\ pc["caller"] = "looked" /\ Outcome("caller", "auth") /\ client = 0
        /\ configured' = configured /\ Still /\ "caller" \in Builders
    BY <1>4 DEF RefreshFails, Departs, When, Still, Builders
  <2>2. closing' = closing /\ Empty' = Empty
    BY <2>1, EmptySame DEF Still, objects
  <2> QED BY <1>1, <2>1, <2>2, OutcomeRoles
<1>5. CASE Remove
  <2>1. /\ configured /\ configured' = FALSE /\ client' = 0 /\ pc["config"] = "idle"
        /\ Departs(When(OthersBusy("config"), "removed")) /\ "config" \in Builders
    BY <1>5 DEF Remove, Builders
  <2>2. \A a \in Builders : ~Busy(a)
    BY <2>1 DEF Departs, When, OthersBusy, Busy
  <2>3. CASE client # 0 /\ closing[client] = "no"
    <3>1. /\ pc' = [pc EXCEPT !["config"] = "closing"]
          /\ mine' = [mine EXCEPT !["config"] = client] /\ BeginClose(client)
      BY <1>5, <2>3 DEF Remove
    <3>2. client \in Clients /\ Empty \subseteq Empty'
      BY <1>1, <2>1, <2>3, <3>1, TaskFacts, EmptyKept DEF BeginClose
    <3> QED BY <1>1, <2>1, <2>2, <3>1, <3>2, TakeRoles
  <2>4. CASE ~(client # 0 /\ closing[client] = "no")
    <3>1. client = 0
      <4> SUFFICES ASSUME client # 0 PROVE FALSE
        OBVIOUS
      <4>1. client \in Clients /\ closing[client] # "no"
        BY <1>1, <2>1, <2>4, TaskFacts
      <4>2. PICK a \in Builders : pc[a] \in {"closing", "undoing"}
        BY <4>1 DEF Roles, Closers
      <4> QED BY <2>2, <4>2 DEF Busy
    <3>2. UNCHANGED <<pc, mine, client>> /\ Still
      BY <1>5, <2>1, <2>4, <3>1 DEF Remove, Still
    <3>3. closing' = closing /\ Empty' = Empty
      BY <3>2, EmptySame DEF Still, objects
    <3>4. OneBusy' /\ Closers' /\ Emptied' /\ Past' /\ Replaced' /\ Idle'
      BY <3>2, <3>3 DEF Roles, OneBusy, Closers, Emptied, Past, Replaced, Idle, Busy
    <3>5. Removed'
      BY <2>1, <2>2, <3>1, <3>2 DEF Roles, Removed, Busy
    <3>6. Clean'
      BY <3>1, <3>2, <3>3, BoundsTyped DEF Roles, Clean
    <3> QED BY <3>4, <3>5, <3>6 DEF Roles
  <2> QED BY <2>3, <2>4
<1>6. CASE Add
  <2>1. /\ ~configured /\ configured' = TRUE /\ pc["config"] = "idle"
        /\ pc' = [pc EXCEPT !["config"] = "connecting"]
        /\ Departs(When(OthersBusy("config"), "twins")) /\ "config" \in Builders
        /\ UNCHANGED <<client, mine>> /\ Still
    BY <1>6 DEF Add, Builders, served, Still
  <2>2. client = 0 /\ \A a \in Builders : ~Busy(a)
    BY <2>1 DEF Departs, When, OthersBusy, Busy, Roles, Removed
  <2>3. closing' = closing /\ Empty' = Empty
    BY <2>1, EmptySame DEF Still, objects
  <2>4. \A a \in Builders : a # "config" => pc'[a] = pc[a]
    BY <1>1, <2>1 DEF Managed
  <2>5. pc'["config"] = "connecting"
    BY <1>1, <2>1 DEF Managed
  <2>6. OneBusy' /\ Replaced' /\ Idle' /\ Closers' /\ Emptied'
    BY <2>1, <2>2, <2>3, <2>4, <2>5 DEF Roles, OneBusy, Replaced, Idle, Closers, Emptied, Busy
  <2>7. Past' /\ Removed' /\ Clean'
    BY <2>1, <2>2, <2>3, <2>4, <2>5, BoundsTyped DEF Roles, Past, Removed, Clean, Busy
  <2> QED BY <2>6, <2>7 DEF Roles
<1> QED BY <1>3, <1>4, <1>5, <1>6

\* Every step keeps what the builders have done to the entry.
LEMMA StepRoles ==
  ASSUME Books, Wired', Kind, Next, Sole, Attached, Roles,
         departs' \cap {"flaky", "unannounced", "unauthorized", "twins", "removed"} = {}
  PROVE  Roles'
<1>1. Wired /\ Managed
  BY DEF Books
<1>2. CASE \E b \in Builders : Connects(b)
  BY <1>2, ConnectsRoles
<1>3. CASE \/ SweepLooks \/ AuthorizationStarts \/ AuthorizationTimesOut
           \/ CallRefused \/ RefreshFails \/ Remove \/ Add
  BY <1>3, ManagerRoles
<1>4. ASSUME UNCHANGED <<configured, client, pc, mine, closing>>
      PROVE  Roles'
  BY <1>1, <1>4, EmptyKept, SameRoles
<1>5. ASSUME NEW c \in Clients, CloseStep(c)
      PROVE  Roles'
  <2>1. pc' = pc /\ (CloseTransport(c) \/ CloseEnds(c))
    BY <1>5 DEF CloseStep, CloseTransport, CloseEnds, manager
  <2>2. CloseTransport(c) => c \in Empty'
    BY <1>1, ClosedIsEmpty
  <2> QED BY <1>1, <2>1, <2>2, EmptyKept, CloseRoles
<1>6. ASSUME NEW k \in Links, ReaderStep(k) \/ LinkDies(k) \/ SessionExpires(k)
      PROVE  Roles'
  BY <1>4, <1>6 DEF ReaderStep, ReaderEnds, ReaderCrashes, EndReader, LinkDies,
                    SessionExpires, manager, served, objects
<1>7. ASSUME NEW l \in Links, LoopStep(l)
      PROVE  Roles'
  <2>1. ~LoopRefused(l)
    BY DEF LoopRefused, Departs
  <2> QED BY <1>4, <1>7, <2>1 DEF LoopStep, LoopWakes, LoopOpens, LoopOpenFails, LoopShakes,
                                  LoopShakeFails, manager, served
<1>8. ASSUME NEW q \in Calls, Call(q) \/ Answered(q)
      PROVE  Roles'
  BY <1>4, <1>8 DEF Call, Answered, manager, served, objects
<1> QED BY <1>2, <1>3, <1>5, <1>6, <1>7, <1>8 DEF Next

\* Nothing is stray at first.
LEMMA InitTidy == Init => MInv /\ SInv
<1> SUFFICES ASSUME Init PROVE MInv /\ SInv
  OBVIOUS
<1>1. Attached
  BY DEF Init, Attached, Bare
<1>2. OneBusy /\ Closers /\ Past /\ Removed /\ Replaced /\ Idle
  BY DEF Init, OneBusy, Closers, Past, Removed, Replaced, Idle, Busy, Builders
<1>3. Emptied /\ Clean
  BY DEF Init, Emptied, Clean, Empty, Open, Readers, LoopsOf
<1> QED BY <1>1, <1>2, <1>3, InitInv DEF SInv, Roles

\* Every step keeps strays from coming about.
LEMMA StepTidy == MInv /\ SInv /\ [Next]_vars => MInv' /\ SInv'
<1> SUFFICES ASSUME MInv, SInv, [Next]_vars PROVE MInv' /\ SInv'
  OBVIOUS
<1>1. MInv' /\ Wired'
  BY StepInv DEF MInv, Books
<1>2. CASE Next
  <2>1. Books /\ Wired /\ Kind /\ departs \subseteq departs'
    BY <1>2, NextKind, StepCounted DEF MInv, Books
  <2>2. SUFFICES ASSUME Single' PROVE Attached' /\ Roles'
    BY <1>1 DEF SInv
  <2>3. /\ departs' \cap {"flaky", "unannounced", "unauthorized", "twins", "removed"} = {}
        /\ Calm /\ Single
    BY <2>1, <2>2 DEF Single, Calm, Tolerates, AllDepartures
  <2>4. Sole /\ Attached /\ Roles
    BY <2>3 DEF MInv, SInv
  <2> QED BY <1>1, <1>2, <2>1, <2>3, <2>4, KindAttached, StepRoles
<1>3. CASE UNCHANGED vars
  <2>1. /\ UNCHANGED <<departs, configured, client, pc, mine>> /\ Still
    BY <1>3 DEF vars, manager, served, Still
  <2>2. Empty' = Empty /\ closing' = closing
    BY <2>1, EmptySame DEF Still, objects
  <2>3. Roles => Roles'
    BY <2>1, <2>2, SameRoles
  <2>4. Attached => Attached'
    BY <2>1 DEF Still, objects, wires, loops, Attached, Bare
  <2> QED BY <1>1, <2>1, <2>3, <2>4 DEF SInv, Single, Tolerates
<1> QED BY <1>2, <1>3

\* A client that was replaced or removed leaves no connection, no reader and no
\* loop, unless two tasks meet on the server, a handshake's connection fails, or
\* the server refuses a client that was connected or cannot be told "initialized".
THEOREM NothingStrays == Spec => []NoStray
<1>1. SInv => NoStray
  <2> SUFFICES ASSUME SInv, Single, NEW c \in Clients \ Wanted
               PROVE  Open(c) \cup Readers(c) \cup LoopsOf(c) = {}
    BY DEF NoStray, Single
  <2>1. c \in Empty
    BY DEF SInv, Roles, Clean, Wanted
  <2> QED BY <2>1 DEF Empty
<1> QED BY <1>1, InitTidy, StepTidy, PTL DEF Spec

=============================================================================
