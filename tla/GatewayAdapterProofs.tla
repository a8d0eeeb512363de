------------------------- MODULE GatewayAdapterProofs -------------------------
(***************************************************************************)
(* A conversation has one session, its prompts become turns in order, and  *)
(* its questions are decided by their own answers, for every number of     *)
(* conversations, messages and departures.                                 *)
(*                                                                         *)
(* GInv carries the one session; Base adds the domains and what hangs      *)
(* together; LInv adds the order; MInv adds the questions.                 *)
(***************************************************************************)
EXTENDS GatewayAdapter, SequenceTheorems, FiniteSetTheorems, TLAPS

\* Messages and questions.
Message == [key : Keys, is : {"prompt", "command", "reply"}, to : Nat]
Request == [turn : DOMAIN msgs, by : Nat,
            state : {"sending", "waiting", "answered", "cancelled", "over"}]

\* What the proof needs of the variables.
Shapes ==
  /\ msgs \in Seq(Message)
  /\ place \in Seq(Places) /\ Len(place) = Len(msgs)
  /\ sessions \in [Keys -> Nat]
  /\ saved \in [Keys -> Nat]
  /\ asks \in Seq(Request)

\* No mapping was lost.
Sound == Tolerates(AllDepartures \ {"unsaved", "orphaned"})

\* Every session is its key's, in memory and on disk.
Mapped ==
  /\ saved = sessions
  /\ owner \in Seq(Keys)
  /\ \A s \in DOMAIN owner : sessions[owner[s]] = s

\* One message of a key creates, and only where there is no session.
Creating ==
  \A m \in DOMAIN msgs : place[m] = "creating" =>
    /\ sessions[msgs[m].key] = 0
    /\ \A n \in DOMAIN msgs :
         place[n] = "creating" /\ msgs[n].key = msgs[m].key => n = m

GInv == Shapes /\ (Sound => Mapped /\ Creating)

-----------------------------------------------------------------------------
\* The members of what is sent and asked.
LEMMA MembersTyped ==
  ASSUME Shapes
  PROVE  /\ \A m \in DOMAIN msgs : m \in Nat /\ msgs[m].key \in Keys
         /\ \A a \in DOMAIN asks :
              /\ a \in Nat /\ asks[a] \in Request
              /\ \A st \in {"sending", "waiting", "answered", "cancelled", "over"} :
                   /\ [asks[a] EXCEPT !.state = st] \in Request
                   /\ \A m \in Nat : [asks[a] EXCEPT !.state = st, !.by = m] \in Request
<1>1. msgs \in Seq(Message) /\ asks \in Seq(Request)
  BY DEF Shapes
<1>2. \A m \in DOMAIN msgs : m \in Nat /\ msgs[m] \in Message
  BY <1>1
<1>3. \A a \in DOMAIN asks : a \in Nat /\ asks[a] \in Request
  BY <1>1
<1>4. \A msg \in Message : msg.key \in Keys
  BY DEF Message
<1>5. ASSUME NEW r \in Request,
             NEW st \in {"sending", "waiting", "answered", "cancelled", "over"}
      PROVE  /\ [r EXCEPT !.state = st] \in Request
             /\ \A m \in Nat : [r EXCEPT !.state = st, !.by = m] \in Request
  BY DEF Request
<1> QED
  BY <1>2, <1>3, <1>4, <1>5

\* What may be asked depends on what was sent.
LEMMA SameRequests ==
  ASSUME UNCHANGED msgs PROVE Request' = Request
BY DEF Request

\* A departure is never taken back.
LEMMA DepartsGrows ==
  ASSUME NEW ds, Departs(ds) \/ Plain
  PROVE  departs \subseteq departs'
BY DEF Departs, Plain

\* A step that maps nothing and after which no other message creates.
LEMMA Calm ==
  ASSUME GInv, departs \subseteq departs', UNCHANGED <<msgs, mapping>>,
         place' \in Seq(Places), Len(place') = Len(place), asks' \in Seq(Request),
         \A m \in DOMAIN msgs : place'[m] = "creating" => place[m] = "creating"
  PROVE  GInv'
<1>1. Shapes'
  BY SameRequests DEF GInv, Shapes, mapping
<1>2. ASSUME Sound' PROVE Mapped' /\ Creating'
  <2>1. Sound /\ Mapped /\ Creating
    BY <1>2 DEF GInv, Sound, Tolerates
  <2> QED
    BY <2>1 DEF Mapped, Creating, mapping
<1> QED
  BY <1>1, <1>2 DEF GInv

\* The place of one message, as EXCEPT changes it.
LEMMA PlaceTyped ==
  ASSUME Shapes, NEW m \in DOMAIN msgs, NEW p \in Places
  PROVE  /\ [place EXCEPT ![m] = p] \in Seq(Places)
         /\ Len([place EXCEPT ![m] = p]) = Len(place)
         /\ [place EXCEPT ![m] = p][m] = p
         /\ \A n \in DOMAIN msgs : n # m => [place EXCEPT ![m] = p][n] = place[n]
BY DEF Shapes

\* A message moves on, to another place than the creation.
LEMMA Moves ==
  ASSUME GInv, departs \subseteq departs', UNCHANGED <<msgs, mapping>>,
         asks' \in Seq(Request), NEW m \in DOMAIN msgs, NEW p \in Places \ {"creating"},
         place' = [place EXCEPT ![m] = p]
  PROVE  GInv'
<1>1. Shapes /\ p \in Places
  BY DEF GInv
<1>2. \A n \in DOMAIN msgs : place'[n] = "creating" => place[n] = "creating"
  BY <1>1, PlaceTyped
<1> QED
  BY <1>1, <1>2, PlaceTyped, Calm

\* A message begins to create, where nobody does and there is no session.
LEMMA Begins ==
  ASSUME GInv, Plain, UNCHANGED <<msgs, mapping, asks>>, NEW m \in DOMAIN msgs,
         ~Locked(msgs[m].key), sessions[msgs[m].key] = 0,
         place' = [place EXCEPT ![m] = "creating"]
  PROVE  GInv'
<1>0. Shapes /\ "creating" \in Places
  BY DEF GInv, Places
<1>1. Shapes'
  BY <1>0, PlaceTyped, SameRequests DEF Shapes, mapping
<1>2. \A n \in DOMAIN msgs : place[n] = "creating" => msgs[n].key # msgs[m].key
  BY DEF Locked, At, Of
<1>3. ASSUME Sound PROVE Mapped' /\ Creating'
  <2>1. Mapped /\ Creating
    BY <1>3 DEF GInv
  <2>2. Mapped'
    BY <2>1 DEF Mapped, mapping
  <2>3. place'[m] = "creating" /\ \A n \in DOMAIN msgs : n # m => place'[n] = place[n]
    BY <1>0, PlaceTyped
  <2>4. Creating'
    BY <2>1, <2>3, <1>2 DEF Creating, mapping
  <2> QED
    BY <2>2, <2>4
<1> QED
  BY <1>1, <1>3 DEF GInv, Sound, Tolerates, Plain

-----------------------------------------------------------------------------
\* There is no session at first.
LEMMA InitSound == Init => GInv
<1> SUFFICES ASSUME Init PROVE GInv
  OBVIOUS
<1>1. Shapes
  BY DEF Init, Shapes, Message, Request, Places
<1>2. Mapped /\ Creating
  BY DEF Init, Mapped, Creating
<1> QED
  BY <1>1, <1>2 DEF GInv

\* A new message changes no mapping.
LEMMA SendSound ==
  ASSUME GInv, departs \subseteq departs', NEW k \in Keys,
         NEW is \in {"prompt", "command", "reply"}, NEW to \in Nat, Send(k, is, to)
  PROVE  GInv'
<1>0. Shapes /\ "sent" \in Places
  BY DEF GInv, Places
<1>1. [key |-> k, is |-> is, to |-> to] \in Message
  BY DEF Message
<1>2. Shapes'
  <2>1. DOMAIN msgs \subseteq DOMAIN msgs'
    BY <1>0, <1>1 DEF Shapes, Send
  <2>2. asks' \in Seq(Request')
    <3>1. \A a \in DOMAIN asks : asks[a] \in Request'
      BY <1>0, <2>1, MembersTyped DEF Request
    <3> QED
      BY <1>0, <3>1 DEF Shapes, Send, requests
  <2> QED
    BY <1>0, <1>1, <2>2 DEF Shapes, Send, mapping
<1>3. /\ DOMAIN msgs' = DOMAIN msgs \cup {Len(msgs) + 1}
      /\ place'[Len(msgs) + 1] = "sent"
      /\ \A m \in DOMAIN msgs : msgs'[m] = msgs[m] /\ place'[m] = place[m]
  BY <1>0, <1>1 DEF Shapes, Send
<1>4. ASSUME Sound' PROVE Mapped' /\ Creating'
  <2>1. Mapped /\ Creating
    BY <1>4 DEF GInv, Sound, Tolerates
  <2>2. Mapped'
    BY <2>1 DEF Mapped, mapping, Send
  <2>3. \A m \in DOMAIN msgs' : place'[m] = "creating" =>
          m \in DOMAIN msgs /\ place[m] = "creating" /\ msgs'[m] = msgs[m]
    BY <1>3
  <2>4. sessions' = sessions
    BY DEF Send, mapping
  <2>5. ASSUME NEW m \in DOMAIN msgs', place'[m] = "creating"
        PROVE  /\ sessions'[msgs'[m].key] = 0
               /\ \A n \in DOMAIN msgs' :
                    place'[n] = "creating" /\ msgs'[n].key = msgs'[m].key => n = m
    BY <2>1, <2>3, <2>4, <2>5 DEF Creating
  <2>6. Creating'
    BY <2>5 DEF Creating
  <2> QED
    BY <2>2, <2>6
<1> QED
  BY <1>2, <1>4 DEF GInv

\* A message past the lock, with nobody else behind it.
LEMMA BehindSound ==
  ASSUME GInv, NEW m \in DOMAIN msgs, ~Locked(msgs[m].key), Behind(m),
         UNCHANGED <<msgs, mapping, requests>>
  PROVE  GInv'
<1>0. asks' \in Seq(Request) /\ {"over", "loading", "turn"} \subseteq Places \ {"creating"}
  BY DEF GInv, Shapes, requests, Places
<1>1. CASE sessions[msgs[m].key] = 0
  BY <1>1, Begins DEF Behind, requests
<1>2. CASE sessions[msgs[m].key] # 0
  <2>1. Dispatch(m, sessions[msgs[m].key])
    BY <1>2 DEF Behind
  <2>2. /\ \E ds : Departs(ds) \/ Plain
        /\ \E p \in {"over", "loading", "turn"} : place' = [place EXCEPT ![m] = p]
    BY <2>1 DEF Dispatch
  <2> QED
    BY <2>2, <1>0, DepartsGrows, Moves
<1> QED
  BY <1>1, <1>2

\* A message that finds no session is the only one to create it.
LEMMA HandleSound ==
  ASSUME GInv, NEW m \in DOMAIN msgs, Handle(m) PROVE GInv'
<1> DEFINE k == msgs[m].key
<1>0. Shapes /\ {"over", "lost", "waiting"} \subseteq Places \ {"creating"}
  BY DEF GInv, Places
<1>1. UNCHANGED <<msgs, mapping>>
  BY DEF Handle
<1>2. CASE pending[k] # 0
  <2>1. Answer(m, pending[k])
    BY <1>2 DEF Handle
  <2>2. departs \subseteq departs' /\ \E p \in {"over", "lost"} : place' = [place EXCEPT ![m] = p]
    BY <2>1 DEF Answer, Plain
  <2>3. asks' \in Seq(Request)
    <3>1. m \in Nat /\ asks \in Seq(Request)
      BY <1>0 DEF Shapes
    <3>2. CASE asks[pending[k]].state = "waiting" /\ pending[k] \in DOMAIN asks
      <4>1. [asks[pending[k]] EXCEPT !.state = "answered", !.by = m] \in Request
        BY <1>0, <3>1, <3>2, MembersTyped
      <4>2. asks' = [asks EXCEPT ![pending[k]] = [asks[pending[k]] EXCEPT !.state = "answered", !.by = m]]
        BY <2>1, <3>1, <3>2 DEF Answer, Request
      <4>3. pending[k] \in DOMAIN asks
        BY <3>2
      <4> DEFINE r == [asks[pending[k]] EXCEPT !.state = "answered", !.by = m]
      <4> HIDE DEF r
      <4>4. r \in Request /\ asks' = [asks EXCEPT ![pending[k]] = r]
        BY <4>1, <4>2 DEF r
      <4> QED
        BY <3>1, <4>3, <4>4
    <3>3. CASE asks[pending[k]].state # "waiting" \/ pending[k] \notin DOMAIN asks
      <4>1. asks' = asks
        BY <2>1, <3>1, <3>3 DEF Answer, Request
      <4> QED
        BY <3>1, <4>1
    <3> QED
      BY <3>2, <3>3
  <2> QED
    BY <1>0, <1>1, <2>2, <2>3, Moves
<1>3. CASE pending[k] = 0 /\ (Locked(k) \/ At(k, "waiting") # {})
  <2>1. place' = [place EXCEPT ![m] = "waiting"] /\ Plain /\ UNCHANGED requests
    BY <1>3 DEF Handle
  <2> QED
    BY <2>1, <1>0, <1>1, Moves DEF Plain, requests, Shapes
<1>4. CASE pending[k] = 0 /\ ~Locked(k) /\ Behind(m) /\ UNCHANGED requests
  BY <1>4, <1>1, BehindSound
<1> QED
  BY <1>2, <1>3, <1>4 DEF Handle

\* So is one that gets the lock.
LEMMA EnterSound ==
  ASSUME GInv, NEW m \in DOMAIN msgs, Enter(m) PROVE GInv'
BY BehindSound DEF Enter

\* A session is created and mapped, here and on disk.
LEMMA CreatedSound ==
  ASSUME GInv, NEW m \in DOMAIN msgs, Created(m) PROVE GInv'
<1> DEFINE k == msgs[m].key
           s == Len(owner) + 1
<1>0. Shapes /\ {"over", "turn"} \subseteq Places \ {"creating"}
  BY DEF GInv, Places
<1>1. place[m] = "creating" /\ k \in Keys /\ departs' = departs
  BY <1>0, MembersTyped DEF Created, Plain
<1>2. PICK p \in {"over", "turn"} : place' = [place EXCEPT ![m] = p]
  BY DEF Created
<1>3. /\ place' \in Seq(Places) /\ Len(place') = Len(place)
      /\ place'[m] # "creating" /\ \A n \in DOMAIN msgs : n # m => place'[n] = place[n]
  BY <1>0, <1>2, PlaceTyped
<1>4. ASSUME Sound PROVE Mapped' /\ Creating'
  <2>1. Mapped /\ Creating /\ sessions[k] = 0
    BY <1>4, <1>1 DEF GInv, Creating
  <2>2. owner \in Seq(Keys) /\ owner' = Append(owner, k)
    BY <2>1 DEF Mapped, Created
  <2>3. sessions' = [sessions EXCEPT ![k] = s] /\ saved' = sessions' /\ msgs' = msgs
    BY DEF Created
  <2>4. \A t \in DOMAIN owner : owner[t] # k
    BY <2>1, <2>2 DEF Mapped
  <2>5. Mapped'
    <3>1. owner' \in Seq(Keys) /\ saved' = sessions'
      BY <1>1, <2>2, <2>3
    <3>2. sessions'[owner'[s]] = s
      BY <1>0, <1>1, <2>2, <2>3 DEF Shapes
    <3>3. \A t \in DOMAIN owner : owner'[t] = owner[t] /\ owner[t] \in Keys \ {k}
      BY <2>2, <2>4
    <3>4. \A t \in DOMAIN owner : sessions'[owner'[t]] = t
      BY <1>0, <2>1, <2>3, <3>3 DEF Mapped, Shapes
    <3>5. DOMAIN owner' = DOMAIN owner \cup {s}
      BY <2>2
    <3> QED
      BY <3>1, <3>2, <3>4, <3>5 DEF Mapped
  <2>6. \A n \in DOMAIN msgs : place'[n] = "creating" => place[n] = "creating" /\ msgs[n].key # k
    BY <1>1, <1>3, <2>1 DEF Creating
  <2>7. \A n \in DOMAIN msgs : msgs[n].key \in Keys
    BY <1>0, MembersTyped
  <2>8. Creating'
    BY <1>0, <2>1, <2>3, <2>6, <2>7 DEF Creating, Shapes
  <2> QED
    BY <2>5, <2>8
<1>5. Shapes'
  <2>1. s \in Nat
    BY DEF s
  <2> QED
    BY <1>0, <1>1, <1>3, <2>1, SameRequests DEF Shapes, Created, requests
<1> QED
  BY <1>1, <1>4, <1>5 DEF GInv, Sound, Tolerates

\* The mapping is not written: the departure that is not tolerated.
LEMMA PersistFailsSound ==
  ASSUME GInv, NEW m \in DOMAIN msgs, PersistFails(m) PROVE GInv'
<1>0. Shapes /\ "lost" \in Places
  BY DEF GInv, Places
<1>1. msgs[m].key \in Keys
  BY <1>0, MembersTyped
<1>2. Shapes'
  BY <1>0, <1>1, PlaceTyped, SameRequests DEF Shapes, PersistFails, requests
<1>3. ~Sound'
  BY DEF PersistFails, Departs, Sound, Tolerates
<1> QED
  BY <1>2, <1>3 DEF GInv

\* The kernel is killed: what is mapped is what was saved.
LEMMA RestartSound ==
  ASSUME GInv, Restart PROVE GInv'
<1>0. Shapes
  BY DEF GInv
<1>1. /\ msgs' = msgs /\ sessions' = saved /\ saved' = saved
      /\ place' = [m \in DOMAIN place |-> IF place[m] = "over" THEN "over" ELSE "lost"]
      /\ asks' = [a \in DOMAIN asks |-> [asks[a] EXCEPT !.state = "over"]]
  BY DEF Restart
<1>2. Shapes'
  <2>1. \A a \in DOMAIN asks : [asks[a] EXCEPT !.state = "over"] \in Request
    BY <1>0, MembersTyped
  <2>2. asks' \in Seq(Request')
    BY <1>0, <1>1, <2>1, SameRequests DEF Shapes
  <2>3. place' \in Seq(Places) /\ Len(place') = Len(place)
    <3>1. {"over", "lost"} \subseteq Places /\ place \in Seq(Places)
      BY <1>0 DEF Shapes, Places
    <3>2. \A m \in DOMAIN place : place'[m] \in Places
      BY <1>1, <3>1
    <3> QED
      BY <1>1, <3>1, <3>2
  <2> QED
    BY <1>0, <1>1, <2>2, <2>3 DEF Shapes
<1>3. ASSUME Sound' PROVE Mapped' /\ Creating'
  <2>1. Departs({"crash"}) /\ owner' = owner
    BY <1>3 DEF Restart, Departs, Sound, Tolerates
  <2>2. Mapped
    BY <1>3, <2>1 DEF GInv, Departs, Sound, Tolerates
  <2>3. Mapped'
    BY <1>1, <2>1, <2>2 DEF Mapped
  <2>4. Creating'
    BY <1>0, <1>1 DEF Creating, Shapes
  <2> QED
    BY <2>3, <2>4
<1> QED
  BY <1>2, <1>3 DEF GInv

\* The requests stay well formed.
LEMMA AsksTyped ==
  ASSUME Shapes, NEW a \in DOMAIN asks,
         NEW st \in {"sending", "waiting", "answered", "cancelled", "over"}
  PROVE  [asks EXCEPT ![a].state = st] \in Seq(Request)
<1>1. asks \in Seq(Request)
  BY DEF Shapes
<1>2. [asks[a] EXCEPT !.state = st] \in Request
  BY MembersTyped
<1>3. [asks EXCEPT ![a].state = st] = [asks EXCEPT ![a] = [asks[a] EXCEPT !.state = st]]
  BY <1>1 DEF Request
<1> QED
  BY <1>1, <1>2, <1>3

\* The turns and their questions map nothing and create nothing.
LEMMA TurnsSound ==
  ASSUME GInv,
         \/ \E m \in DOMAIN msgs : Asks(m) \/ TurnEnds(m)
         \/ \E a \in DOMAIN asks : Registers(a) \/ Returns(a)
         \/ \E s \in DOMAIN live : Cancel(s) \/ Evict(s)
  PROVE  GInv'
<1>0. /\ Shapes /\ {"over", "ending", "stuck"} \subseteq Places \ {"creating"}
      /\ asks \in Seq(Request) /\ place \in Seq(Places)
  BY DEF GInv, Shapes, Places
<1>1. ASSUME NEW m \in DOMAIN msgs, Asks(m) PROVE GInv'
  <2>1. [turn |-> m, state |-> "sending", by |-> 0] \in Request
    BY <1>0 DEF Shapes, Request
  <2>2. asks' \in Seq(Request)
    BY <1>0, <1>1, <2>1 DEF Asks
  <2> QED
    BY <1>0, <1>1, <2>2, Calm, DepartsGrows DEF Asks, channel
<1>2. ASSUME NEW m \in DOMAIN msgs, TurnEnds(m) PROVE GInv'
  BY <1>0, <1>2, Moves DEF TurnEnds, Plain, requests
<1>3. ASSUME NEW a \in DOMAIN asks, Registers(a) PROVE GInv'
  BY <1>0, <1>3, AsksTyped, Calm DEF Registers, Plain, channel
<1>4. ASSUME NEW a \in DOMAIN asks, Returns(a) PROVE GInv'
  BY <1>0, <1>4, AsksTyped, Calm DEF Returns, Plain, channel
<1>5. ASSUME NEW s \in DOMAIN live, Cancel(s) PROVE GInv'
  <2>1. /\ DOMAIN place' = DOMAIN place
        /\ \A m \in DOMAIN place : place'[m] \in {"ending", "stuck", place[m]}
    BY <1>5 DEF Cancel
  <2>2. place' \in Seq(Places) /\ Len(place') = Len(place)
    <3>1. \A m \in DOMAIN place : place'[m] \in Places
      BY <1>0, <2>1
    <3>2. place' = [m \in 1..Len(place) |-> place'[m]]
      BY <1>0, <1>5 DEF Cancel
    <3> QED
      BY <1>0, <3>1, <3>2
  <2>3. \A m \in DOMAIN msgs : place'[m] = "creating" => place[m] = "creating"
    BY <1>0, <2>1 DEF Shapes
  <2>4. asks' \in Seq(Request)
    <3> DEFINE stops(a) == [asks[a] EXCEPT !.state = IF @ = "sending" THEN "over" ELSE "cancelled"]
    <3>1. \A a \in DOMAIN asks : stops(a) \in Request
      BY <1>0, MembersTyped
    <3>2. asks' = [a \in DOMAIN asks |-> IF asks[a].turn # Head(line[live[s]]) \/ asks[a].state = "over"
                                         THEN asks[a] ELSE stops(a)]
      BY <1>5 DEF Cancel
    <3> HIDE DEF stops
    <3> QED
      BY <1>0, <3>1, <3>2
  <2> QED
    BY <1>5, <2>2, <2>3, <2>4, Calm, DepartsGrows DEF Cancel
<1>6. ASSUME NEW s \in DOMAIN live, Evict(s) PROVE GInv'
  BY <1>0, <1>6, Calm DEF Evict, Plain, channel, requests
<1> QED
  BY <1>1, <1>2, <1>3, <1>4, <1>5, <1>6

\* Messages that go to other places than the creation.
LEMMA PlacesSound ==
  ASSUME GInv, NEW m \in DOMAIN msgs, CreateFails(m) \/ Loaded(m) \/ LoadFails(m)
  PROVE  GInv'
<1>0. asks \in Seq(Request) /\ {"lost", "turn", "over"} \subseteq Places \ {"creating"}
  BY DEF GInv, Shapes, Places
<1>1. CASE CreateFails(m)
  BY <1>0, <1>1, Moves, DepartsGrows DEF CreateFails, requests
<1>2. CASE Loaded(m)
  BY <1>0, <1>2, Moves DEF Loaded, Plain, requests
<1>3. CASE LoadFails(m)
  BY <1>0, <1>3, Moves, DepartsGrows DEF LoadFails, requests
<1> QED
  BY <1>1, <1>2, <1>3

\* What a user says changes no mapping.
LEMMA UserSound ==
  ASSUME GInv,
         \/ \E k \in Keys, is \in {"prompt", "command"} : Text(k, is)
         \/ \E a \in DOMAIN asks : Reply(a)
  PROVE  GInv'
<1>1. ASSUME NEW k \in Keys, NEW is \in {"prompt", "command"}, Text(k, is) PROVE GInv'
  BY <1>1, SendSound, DepartsGrows DEF Text
<1>2. ASSUME NEW a \in DOMAIN asks, Reply(a) PROVE GInv'
  <2>1. KeyOf(a) \in Keys /\ a \in Nat
    <3>1. Shapes /\ asks[a].turn \in DOMAIN msgs
      BY MembersTyped DEF GInv, Request
    <3> QED
      BY <3>1, MembersTyped DEF KeyOf
  <2> QED
    BY <1>2, <2>1, SendSound, DepartsGrows DEF Reply
<1> QED
  BY <1>1, <1>2

\* Every step keeps a key's one session.
LEMMA StepSound == GInv /\ [Next]_vars => GInv'
<1> SUFFICES ASSUME GInv, [Next]_vars PROVE GInv'
  OBVIOUS
<1>1. CASE UNCHANGED vars
  <2>1. /\ departs' = departs /\ UNCHANGED <<msgs, mapping>>
        /\ place' = place /\ asks' = asks
    BY <1>1 DEF vars, channel, requests
  <2> QED
    BY <2>1, Calm DEF GInv, Shapes
<1>2. CASE Next
  BY <1>2, UserSound, HandleSound, EnterSound, CreatedSound, PlacesSound,
     PersistFailsSound, TurnsSound, RestartSound DEF Next
<1> QED
  BY <1>1, <1>2

-----------------------------------------------------------------------------
(* A message that finds no session creates one behind the key's lock, and  *)
(* maps it, in memory and on disk, before it lets the next one in: a       *)
(* conversation never gets a second session, whatever is cancelled,        *)
(* evicted, killed or fails, but for a mapping that could not be written   *)
(* or a kill in the middle of a creation (GatewayAdapter._handle).         *)
THEOREM OneSessionEach == Spec => []OneSession
<1>1. Init => GInv
  BY InitSound
<1>2. GInv /\ [Next]_vars => GInv'
  BY StepSound
<1>3. GInv => OneSession
  BY DEF GInv, Sound, Tolerates, Mapped, OneSession
<1> QED
  BY <1>1, <1>2, <1>3, PTL DEF Spec

-----------------------------------------------------------------------------
(* The turns of the objects                                                *)

\* Lines of members of X, each in one place.
Lines(X) ==
  {L \in Seq(Seq(X)) : \A o, p \in 1..Len(L) : \A i \in 1..Len(L[o]), j \in 1..Len(L[p]) :
                         L[o][i] = L[p][j] => o = p /\ i = j}

\* The lines of the objects are sequences of messages, each in one place.
LEMMA LinesFacts ==
  ASSUME NEW X, NEW L \in Lines(X)
  PROVE  /\ L \in Seq(Seq(X)) /\ Len(L) \in Nat /\ DOMAIN L = 1..Len(L)
         /\ \A o \in 1..Len(L) : /\ L[o] \in Seq(X) /\ Len(L[o]) \in Nat
                                 /\ \A i \in 1..Len(L[o]) : L[o][i] \in X
BY DEF Lines

\* Each line of K is a stretch of the one of L, whose first d[o] members it skips.
Stretches(K, L, d) ==
  /\ Len(K) = Len(L)
  /\ \A o \in 1..Len(L) : /\ d[o] \in Nat
                          /\ \A i \in 1..Len(K[o]) :
                               i + d[o] \in 1..Len(L[o]) /\ K[o][i] = L[o][i + d[o]]

\* Stretches of the lines are lines.
LEMMA LinesPart ==
  ASSUME NEW X, NEW L \in Lines(X), NEW Y, NEW K \in Seq(Seq(Y)), NEW d, Stretches(K, L, d)
  PROVE  K \in Lines(Y)
<1>1. Len(L) \in Nat
  BY LinesFacts
<1>2. K \in Seq(Seq(Y)) /\ Len(K) = Len(L) /\ \A o \in 1..Len(K) : K[o] \in Seq(Y) /\ Len(K[o]) \in Nat
  BY DEF Stretches
<1>3. ASSUME NEW o \in 1..Len(K), NEW p \in 1..Len(K), NEW i \in 1..Len(K[o]), NEW j \in 1..Len(K[p]),
             K[o][i] = K[p][j]
      PROVE  o = p /\ i = j
  <2>0. i \in Nat /\ j \in Nat /\ d[o] \in Nat
    BY <1>2 DEF Stretches
  <2>1. L[o][i + d[o]] = L[p][j + d[p]] /\ i + d[o] \in 1..Len(L[o]) /\ j + d[p] \in 1..Len(L[p])
    BY <1>2, <1>3 DEF Stretches
  <2>2. PICK a, b : a = i + d[o] /\ b = j + d[p]
    OBVIOUS
  <2>3. a \in 1..Len(L[o]) /\ b \in 1..Len(L[p]) /\ L[o][a] = L[p][b]
        /\ o \in 1..Len(L) /\ p \in 1..Len(L)
    BY <1>2, <2>1, <2>2
  <2>4. o = p /\ a = b
    <3>1. \A q, r \in 1..Len(L) : \A x \in 1..Len(L[q]), y \in 1..Len(L[r]) :
            L[q][x] = L[r][y] => q = r /\ x = y
      BY DEF Lines
    <3>2. \A x \in 1..Len(L[o]), y \in 1..Len(L[p]) : L[o][x] = L[p][y] => o = p /\ x = y
      BY <2>3, <3>1
    <3> QED BY <2>3, <3>2
  <2>5. PICK c \in Nat : c = d[o]
    BY <2>0
  <2>6. a = i + c /\ b = j + c
    BY <2>2, <2>4, <2>5
  <2>7. \A x, y, z \in Nat : x + z = y + z => x = y
    OBVIOUS
  <2>8. i + c = j + c
    BY <2>4, <2>6
  <2>9. i = j
    BY <2>0, <2>5, <2>7, <2>8
  <2> QED BY <2>4, <2>9
<1> QED BY <1>2, <1>3 DEF Lines

\* A message that is in no line may join one.
LEMMA LinesJoin ==
  ASSUME NEW X, NEW L \in Lines(X), NEW o \in 1..Len(L), NEW m, m \notin X
  PROVE  [L EXCEPT ![o] = Append(@, m)] \in Lines(X \cup {m})
<1> DEFINE K == [L EXCEPT ![o] = Append(@, m)]
<1>1. Len(L) \in Nat /\ DOMAIN L = 1..Len(L) /\ L \in Seq(Seq(X)) /\ L[o] \in Seq(X) /\ Len(L[o]) \in Nat
  BY LinesFacts
<1>2. /\ K[o] = Append(L[o], m) /\ \A p \in 1..Len(L) : p # o => K[p] = L[p]
      /\ K = [p \in 1..Len(L) |-> K[p]]
  BY <1>1
<1> HIDE DEF K
<1>3. K[o] \in Seq(X \cup {m}) /\ Len(K[o]) = Len(L[o]) + 1 /\ K[o][Len(L[o]) + 1] = m
      /\ \A i \in 1..Len(L[o]) : K[o][i] = L[o][i]
  <2>1. L[o] \in Seq(X \cup {m})
    BY <1>1
  <2> QED BY <1>1, <1>2, <2>1
<1>4. ASSUME NEW p \in 1..Len(L), p # o PROVE K[p] \in Seq(X \cup {m})
  <2>1. L[p] \in Seq(X)
    BY LinesFacts
  <2>2. L[p] \in Seq(X \cup {m})
    BY <2>1
  <2> QED BY <1>2, <1>4, <2>2
<1>5. K \in Seq(Seq(X \cup {m})) /\ Len(K) = Len(L)
  <2>1. \A p \in 1..Len(L) : K[p] \in Seq(X \cup {m})
    BY <1>3, <1>4
  <2> QED BY <1>1, <1>2, <2>1, IsASeq
<1>6. ASSUME NEW p \in 1..Len(L), NEW i \in 1..Len(K[p])
      PROVE  \/ p = o /\ i = Len(L[o]) + 1 /\ K[p][i] = m
             \/ i \in 1..Len(L[p]) /\ K[p][i] = L[p][i] /\ K[p][i] # m
  <2>1. CASE p = o /\ i = Len(L[o]) + 1
    BY <1>3, <2>1
  <2>2. CASE p = o /\ i # Len(L[o]) + 1
    <3>1. i \in 1..Len(L[o])
      BY <1>1, <1>3, <2>2
    <3> QED BY <1>3, <2>2, <3>1, LinesFacts
  <2>3. CASE p # o
    BY <1>2, <2>3, LinesFacts
  <2> QED BY <2>1, <2>2, <2>3
<1>7. ASSUME NEW p \in 1..Len(K), NEW q \in 1..Len(K), NEW i \in 1..Len(K[p]), NEW j \in 1..Len(K[q]),
             K[p][i] = K[q][j]
      PROVE  p = q /\ i = j
  <2>0. p \in 1..Len(L) /\ q \in 1..Len(L)
    BY <1>5
  <2>1. CASE K[p][i] = m
    <3>1. p = o /\ i = Len(L[o]) + 1
      BY <1>6, <2>0, <2>1
    <3>2. q = o /\ j = Len(L[o]) + 1
      BY <1>6, <1>7, <2>0, <2>1
    <3> QED BY <3>1, <3>2
  <2>2. CASE K[p][i] # m
    <3>1. i \in 1..Len(L[p]) /\ j \in 1..Len(L[q]) /\ L[p][i] = L[q][j]
      BY <1>5, <1>6, <1>7, <2>2
    <3> QED BY <1>5, <3>1 DEF Lines
  <2> QED BY <2>1, <2>2
<1>8. K \in Lines(X \cup {m})
  BY <1>5, <1>7 DEF Lines
<1> QED BY <1>8 DEF K

\* An object may begin with an empty line.
LEMMA LinesEmpty ==
  ASSUME NEW X, NEW L \in Lines(X)
  PROVE  Append(L, <<>>) \in Lines(X)
<1>1. Len(L) \in Nat /\ L \in Seq(Seq(X))
  BY LinesFacts
<1> DEFINE K == Append(L, <<>>)
<1>2. <<>> \in Seq(X)
  OBVIOUS
<1>3. /\ K \in Seq(Seq(X)) /\ Len(K) = Len(L) + 1 /\ K[Len(L) + 1] = <<>>
      /\ \A o \in 1..Len(L) : K[o] = L[o]
  BY <1>1, <1>2
<1> HIDE DEF K
<1>4. \A o \in 1..Len(K) : \A i \in 1..Len(K[o]) : o \in 1..Len(L) /\ i \in 1..Len(L[o])
  <2> TAKE o \in 1..Len(K)
  <2>1. o \in 1..Len(L) \/ o = Len(L) + 1
    BY <1>1, <1>3
  <2>2. Len(<<>>) = 0 /\ 1..0 = {}
    OBVIOUS
  <2> QED BY <1>3, <2>1, <2>2
<1>5. ASSUME NEW o \in 1..Len(K), NEW p \in 1..Len(K), NEW i \in 1..Len(K[o]), NEW j \in 1..Len(K[p]),
             K[o][i] = K[p][j]
      PROVE  o = p /\ i = j
  <2>1. /\ o \in 1..Len(L) /\ i \in 1..Len(L[o]) /\ p \in 1..Len(L) /\ j \in 1..Len(L[p])
        /\ K[o] = L[o] /\ K[p] = L[p]
    BY <1>3, <1>4
  <2> QED BY <1>5, <2>1 DEF Lines
<1>6. K \in Lines(X)
  BY <1>3, <1>5 DEF Lines
<1> QED BY <1>6 DEF K

\* An object may begin with a line of one new message.
LEMMA LinesNew ==
  ASSUME NEW X, NEW L \in Lines(X), NEW m, m \notin X
  PROVE  Append(L, <<m>>) \in Lines(X \cup {m})
<1>1. Len(L) \in Nat /\ L \in Seq(Seq(X))
  BY LinesFacts
<1> DEFINE K == Append(L, <<>>)
           n == Len(L) + 1
<1>2. K \in Lines(X)
  BY LinesEmpty
<1>3. Len(K) = n /\ n \in 1..Len(K) /\ K[n] = <<>> /\ <<>> \in Seq(X)
  BY <1>1
<1>4. [K EXCEPT ![n] = Append(@, m)] \in Lines(X \cup {m})
  <2> HIDE DEF K, n
  <2> QED BY <1>2, <1>3, LinesJoin
<1>5. [K EXCEPT ![n] = Append(@, m)] = Append(L, <<m>>)
  <2>1. Append(K[n], m) = <<m>>
    <3>1. PICK a, b : a = Append(<<>>, m) /\ b = <<m>>
      OBVIOUS
    <3>2. <<>> \in Seq({m}) /\ Len(<<>>) = 0
      OBVIOUS
    <3>3. a \in Seq({m}) /\ Len(a) = 1 /\ a[1] = m
      BY <3>1, <3>2, AppendProperties
    <3>4. b \in Seq({m}) /\ Len(b) = 1 /\ b[1] = m
      BY <3>1
    <3>5. a = b
      BY <3>3, <3>4, SeqEqual
    <3> QED BY <1>3, <3>1, <3>5
  <2>2. PICK A, B : A = [K EXCEPT ![n] = Append(@, m)] /\ B = Append(L, <<m>>)
    OBVIOUS
  <2>3. A \in Seq(Seq(X \cup {m})) /\ A = [K EXCEPT ![n] = <<m>>]
    <3>1. A = [K EXCEPT ![n] = <<m>>]
      BY <2>1, <2>2
    <3> QED BY <1>4, <2>2, <3>1, LinesFacts
  <2>4. L \in Seq(Seq(X \cup {m})) /\ <<m>> \in Seq(X \cup {m})
    BY <1>1
  <2>5. B \in Seq(Seq(X \cup {m})) /\ Len(B) = n /\ B[n] = <<m>> /\ \A i \in 1..Len(L) : B[i] = L[i]
    BY <2>2, <2>4
  <2>6. Len(A) = n /\ A[n] = <<m>> /\ \A i \in 1..Len(L) : A[i] = L[i]
    <3>1. K \in Seq(Seq(X \cup {m})) /\ \A i \in 1..Len(L) : K[i] = L[i]
      BY <1>1, <2>4
    <3> HIDE DEF K
    <3>2. Len(A) = Len(K) /\ \A i \in 1..Len(K) : A[i] = IF i = n THEN <<m>> ELSE K[i]
      BY <1>3, <2>3, <2>4, <3>1, ExceptSeq
    <3>3. \A i \in 1..Len(L) : i \in 1..Len(K) /\ i # n
      BY <1>1, <1>3
    <3> QED BY <1>3, <3>1, <3>2, <3>3
  <2>7. \A i \in 1..n : A[i] = B[i]
    <3>1. \A i \in 1..n : i \in 1..Len(L) \/ i = n
      BY <1>1
    <3> HIDE DEF n
    <3> QED BY <2>5, <2>6, <3>1
  <2> QED BY <2>2, <2>3, <2>5, <2>6, <2>7, SeqEqual
<1> QED BY <1>4, <1>5

-----------------------------------------------------------------------------
(* The values of the variables                                             *)

\* The messages whose turns are in a line.
Placed == {m \in DOMAIN msgs : place[m] \in {"turn", "ending"}}

\* The domains that Shapes leaves out.
Values ==
  /\ departs \subseteq Departures /\ spent \in 0..MaxDepartures
  /\ pending \in [Keys -> Nat]
  /\ owner \in Seq(Keys) /\ live \in Seq(Nat) /\ Len(live) = Len(owner)

\* A key is mapped to a session that was created for it.
Mappings ==
  \A k \in Keys :
    /\ sessions[k] # 0 => sessions[k] \in DOMAIN owner /\ owner[sessions[k]] = k
    /\ saved[k] # 0 => saved[k] \in DOMAIN owner /\ owner[saved[k]] = k

\* An object is of one session.
Held ==
  \A s \in DOMAIN live : live[s] # 0 =>
    live[s] <= Len(line) /\ \A t \in DOMAIN live : live[s] = live[t] => s = t

\* The messages with turns are in line, each once.
LinesOnce == line \in Lines(Placed)

\* The turns of a session's object are of the session's key.
Keyed ==
  \A s \in DOMAIN live : live[s] # 0 =>
    \A i \in 1..Len(line[live[s]]) : msgs[line[live[s]][i]].key = owner[s]

\* A message creates while there is no session, and has its turn when there is.
Locks ==
  \A m \in DOMAIN msgs :
    /\ place[m] = "creating" => sessions[msgs[m].key] = 0
    /\ place[m] = "creating" => \A n \in DOMAIN msgs :
         place[n] = "creating" /\ msgs[m].key = msgs[n].key => m = n
    /\ place[m] \in {"loading", "turn", "ending"} => sessions[msgs[m].key] # 0

\* What is pending waits for its key.
Pends ==
  \A k \in Keys : pending[k] # 0 =>
    /\ pending[k] \in DOMAIN asks /\ asks[pending[k]].state \in {"waiting", "cancelled"}
    /\ msgs[asks[pending[k]].turn].key = k

\* A reply is to a question that was put.
Replies ==
  \A m \in DOMAIN msgs : msgs[m].to <= Len(asks) /\ (msgs[m].is = "reply" <=> msgs[m].to # 0)

Base == GInv /\ Values /\ Mappings /\ Held /\ LinesOnce /\ Keyed /\ Locks /\ Pends /\ Replies

\* The domains of the sequences, spelled out.
LEMMA BaseFacts ==
  ASSUME Shapes, Values
  PROVE  /\ Len(msgs) \in Nat /\ DOMAIN msgs = 1..Len(msgs) /\ DOMAIN place = 1..Len(msgs)
         /\ Len(asks) \in Nat /\ DOMAIN asks = 1..Len(asks)
         /\ Len(owner) \in Nat /\ DOMAIN owner = 1..Len(owner) /\ DOMAIN live = 1..Len(owner)
         /\ \A m \in DOMAIN msgs : /\ m \in Nat \ {0} /\ msgs[m] \in Message
                                   /\ msgs[m].key \in Keys /\ msgs[m].to \in Nat
                                   /\ msgs[m].is \in {"prompt", "command", "reply"}
                                   /\ place[m] \in Places
                                   /\ sessions[msgs[m].key] \in Nat
         /\ \A a \in DOMAIN asks : /\ a \in Nat \ {0} /\ asks[a] \in Request /\ asks[a].turn \in DOMAIN msgs
                                   /\ KeyOf(a) \in Keys /\ asks[a].by \in Nat
                                   /\ asks[a].state \in {"sending", "waiting", "answered", "cancelled", "over"}
         /\ \A s \in DOMAIN owner : owner[s] \in Keys /\ live[s] \in Nat /\ s \in Nat \ {0}
<1>1. /\ msgs \in Seq(Message) /\ place \in Seq(Places) /\ Len(place) = Len(msgs)
      /\ asks \in Seq(Request) /\ owner \in Seq(Keys) /\ live \in Seq(Nat) /\ Len(live) = Len(owner)
      /\ sessions \in [Keys -> Nat]
  BY DEF Shapes, Values
<1>2. /\ Len(msgs) \in Nat /\ DOMAIN msgs = 1..Len(msgs) /\ DOMAIN place = 1..Len(msgs)
      /\ Len(asks) \in Nat /\ DOMAIN asks = 1..Len(asks)
      /\ Len(owner) \in Nat /\ DOMAIN owner = 1..Len(owner) /\ DOMAIN live = 1..Len(owner)
  BY <1>1, LenProperties
<1>3. \A m \in DOMAIN msgs : /\ m \in Nat \ {0} /\ msgs[m] \in Message /\ place[m] \in Places
  BY <1>1, <1>2, ElementOfSeq
<1>4. \A g \in Message : g.key \in Keys /\ g.to \in Nat /\ g.is \in {"prompt", "command", "reply"}
  BY DEF Message
<1>5. \A a \in DOMAIN asks : a \in Nat \ {0} /\ asks[a] \in Request
  BY <1>1, <1>2, ElementOfSeq
<1>6. \A r \in Request : /\ r.turn \in DOMAIN msgs /\ r.by \in Nat
                         /\ r.state \in {"sending", "waiting", "answered", "cancelled", "over"}
  BY DEF Request
<1>7. \A s \in DOMAIN owner : owner[s] \in Keys /\ live[s] \in Nat /\ s \in Nat \ {0}
  BY <1>1, <1>2, ElementOfSeq
<1>8. \A a \in DOMAIN asks : KeyOf(a) \in Keys
  BY <1>3, <1>4, <1>5, <1>6 DEF KeyOf
<1>9. \A m \in DOMAIN msgs : sessions[msgs[m].key] \in Nat
  BY <1>1, <1>3, <1>4
<1> QED BY <1>2, <1>3, <1>4, <1>5, <1>6, <1>7, <1>8, <1>9

\* Departures are counted within their bound.
LEMMA DepartsTyped ==
  ASSUME Values, NEW ds, Departs(ds)
  PROVE  departs' \subseteq Departures /\ spent' \in 0..MaxDepartures
<1>1. ds \subseteq Departures /\ spent + Cardinality(ds) <= MaxDepartures
      /\ spent' = spent + Cardinality(ds) /\ departs' = departs \cup ds
  BY DEF Departs
<1>2. Cardinality(ds) \in Nat
  <2>1. IsFiniteSet(AllDepartures)
    <3>1. IsFiniteSet({"early"} \cup {"crossing"})
      BY FS_Singleton, FS_AddElement
    <3>2. IsFiniteSet({"early"} \cup {"crossing"} \cup {"chatter"})
      BY <3>1, FS_AddElement
    <3>3. IsFiniteSet({"early"} \cup {"crossing"} \cup {"chatter"} \cup {"twice"})
      BY <3>2, FS_AddElement
    <3>4. IsFiniteSet({"crossed"} \cup {"cancel"})
      BY FS_Singleton, FS_AddElement
    <3>5. IsFiniteSet({"crossed"} \cup {"cancel"} \cup {"failed"})
      BY <3>4, FS_AddElement
    <3>6. IsFiniteSet({"crossed"} \cup {"cancel"} \cup {"failed"} \cup {"unsaved"})
      BY <3>5, FS_AddElement
    <3>7. IsFiniteSet({"crossed"} \cup {"cancel"} \cup {"failed"} \cup {"unsaved"} \cup {"crash"})
      BY <3>6, FS_AddElement
    <3>8. IsFiniteSet({"crossed"} \cup {"cancel"} \cup {"failed"} \cup {"unsaved"} \cup {"crash"} \cup {"orphaned"})
      BY <3>7, FS_AddElement
    <3>9. AllDepartures = ({"early"} \cup {"crossing"} \cup {"chatter"} \cup {"twice"})
            \cup ({"crossed"} \cup {"cancel"} \cup {"failed"} \cup {"unsaved"} \cup {"crash"} \cup {"orphaned"})
      BY DEF AllDepartures
    <3> QED BY <3>3, <3>8, <3>9, FS_Union
  <2> QED BY <1>1, <2>1, GatewayAssumption, FS_Subset, FS_CardinalityType
<1> QED BY <1>1, <1>2, GatewayAssumption DEF Values

\* The sets that a restart puts in a row.
LEMMA RowOfKeys ==
  ASSUME NEW ks \in SUBSET Keys
  PROVE  SetToSeq(ks) \in Seq(Keys)
<1>1. IsFiniteSet(ks)
  BY GatewayAssumption, FS_Subset
<1>2. Cardinality(ks) \in Nat
  BY <1>1, FS_CardinalityType
<1>3. \E f \in [1..Cardinality(ks) -> ks] : IsInjective(f)
  <2>1. PICK f : f \in Bijection(1..Cardinality(ks), ks)
    BY <1>1, FS_NatBijection, FS_CardinalityType DEF ExistsBijection
  <2>2. f \in [1..Cardinality(ks) -> ks] /\ \A a, b \in 1..Cardinality(ks) : f[a] = f[b] => a = b
    BY <2>1 DEF Bijection, Injection, IsInjective
  <2> QED BY <2>2 DEF IsInjective
<1>4. SetToSeq(ks) \in [1..Cardinality(ks) -> ks]
  BY <1>3 DEF SetToSeq
<1> QED BY <1>2, <1>4

-----------------------------------------------------------------------------
(* What a step leaves of them                                              *)

\* A step that leaves sessions alone keeps the values.
LEMMA ValuesKept ==
  ASSUME Values, Plain \/ \E ds : Departs(ds), UNCHANGED <<owner, live>>, pending' \in [Keys -> Nat]
  PROVE  Values'
<1>1. departs' \subseteq Departures /\ spent' \in 0..MaxDepartures
  BY DepartsTyped DEF Values, Plain
<1> QED BY <1>1 DEF Values

\* Where the messages are whose turns are in no line.
LEMMA MoveTyped ==
  ASSUME Base, UNCHANGED <<msgs, sessions>>, NEW m \in DOMAIN msgs, NEW p \in Places,
         place' = [place EXCEPT ![m] = p]
  PROVE  /\ place'[m] = p /\ \A n \in DOMAIN msgs : n # m => place'[n] = place[n]
         /\ p \notin {"creating", "loading", "turn", "ending"} => Locks'
         /\ place[m] \notin {"turn", "ending"} =>
              /\ m \notin Placed
              /\ p \notin {"turn", "ending"} => Placed' = Placed
              /\ p \in {"turn", "ending"} => Placed' = Placed \cup {m}
<1>1. Shapes /\ Values /\ Locks
  BY DEF Base, GInv
<1>2. place'[m] = p /\ \A n \in DOMAIN msgs : n # m => place'[n] = place[n]
  BY <1>1, PlaceTyped
<1>3. ASSUME p \notin {"creating", "loading", "turn", "ending"} PROVE Locks'
  BY <1>1, <1>2, <1>3 DEF Locks
<1>4. ASSUME place[m] \notin {"turn", "ending"}
      PROVE  /\ m \notin Placed
             /\ p \notin {"turn", "ending"} => Placed' = Placed
             /\ p \in {"turn", "ending"} => Placed' = Placed \cup {m}
  BY <1>2, <1>4 DEF Placed
<1> QED BY <1>2, <1>3, <1>4

\* The domains of the lines, spelled out.
LEMMA LineFacts ==
  ASSUME Base
  PROVE  /\ Len(line) \in Nat /\ DOMAIN line = 1..Len(line) /\ Placed \subseteq DOMAIN msgs
         /\ \A o \in 1..Len(line) : /\ line[o] \in Seq(Placed) /\ Len(line[o]) \in Nat
                                    /\ DOMAIN line[o] = 1..Len(line[o])
                                    /\ \A i \in 1..Len(line[o]) : line[o][i] \in Placed
         /\ \A s \in DOMAIN live : live[s] # 0 => live[s] \in 1..Len(line)
<1>1. line \in Lines(Placed) /\ Held /\ Shapes /\ Values
  BY DEF Base, LinesOnce, GInv
<1>2. Len(line) \in Nat /\ DOMAIN line = 1..Len(line)
  BY <1>1, LinesFacts
<1>3. \A o \in 1..Len(line) : /\ line[o] \in Seq(Placed) /\ Len(line[o]) \in Nat
                              /\ \A i \in 1..Len(line[o]) : line[o][i] \in Placed
  BY <1>1, LinesFacts
<1>4. \A o \in 1..Len(line) : DOMAIN line[o] = 1..Len(line[o])
  BY <1>3
<1>5. \A s \in DOMAIN live : live[s] \in Nat
  BY <1>1, BaseFacts
<1>6. \A s \in DOMAIN live : live[s] # 0 => live[s] \in 1..Len(line)
  BY <1>1, <1>2, <1>5 DEF Held
<1> QED BY <1>2, <1>3, <1>4, <1>6 DEF Placed

\* A message that rests, or is answered: the sessions and their turns are as they were.
LEMMA RestBase ==
  ASSUME Base, GInv', Plain \/ \E ds : Departs(ds), UNCHANGED <<msgs, mapping, objects>>,
         pending' \in [Keys -> Nat], Pends', Replies',
         NEW m \in DOMAIN msgs, place[m] \notin {"turn", "ending"},
         NEW p \in {"waiting", "over", "lost"}, place' = [place EXCEPT ![m] = p]
  PROVE  Base'
<1>1. UNCHANGED <<sessions, saved, owner, live, line>> /\ p \in Places
  BY DEF mapping, objects, Places
<1>2. Values'
  BY <1>1, ValuesKept DEF Base
<1>3. Mappings' /\ Held' /\ Keyed'
  BY <1>1 DEF Base, Mappings, Held, Keyed
<1>4. Locks' /\ Placed' = Placed
  BY <1>1, MoveTyped
<1>5. LinesOnce'
  BY <1>1, <1>4 DEF Base, LinesOnce
<1> QED BY <1>2, <1>3, <1>4, <1>5 DEF Base

\* A step that leaves messages and questions alone keeps what is said of
\* them.
LEMMA RequestsKept ==
  ASSUME Base, UNCHANGED <<msgs, requests>>
  PROVE  Pends' /\ Replies' /\ pending' \in [Keys -> Nat]
BY DEF Base, Values, Pends, Replies, requests

\* A message takes a pending request.
LEMMA AnswerKeeps ==
  ASSUME Base, NEW m \in DOMAIN msgs, NEW a, UNCHANGED msgs,
         a = pending[msgs[m].key], a # 0, Answer(m, a)
  PROVE  Pends' /\ Replies' /\ pending' \in [Keys -> Nat]
<1>1. Shapes /\ Values /\ Pends /\ Replies
  BY DEF Base, GInv
<1> DEFINE k == msgs[m].key
<1>2. k \in Keys /\ a \in DOMAIN asks /\ KeyOf(a) = k
  BY <1>1, BaseFacts DEF Pends, KeyOf
<1>3. pending' = [pending EXCEPT ![k] = 0]
  BY <1>2 DEF Answer
<1>4. /\ DOMAIN asks' = DOMAIN asks /\ Len(asks') = Len(asks)
      /\ \A b \in DOMAIN asks : b # a => asks'[b] = asks[b]
  <2>1. CASE asks[a].state = "waiting"
    <3>1. asks' = [asks EXCEPT ![a].state = "answered", ![a].by = m]
      BY <2>1 DEF Answer
    <3>2. asks \in Seq(Request)
      BY <1>1 DEF Shapes
    <3>3. PICK r : asks' = [asks EXCEPT ![a] = r]
      BY <3>1, <3>2, <1>2 DEF Request
    <3> QED BY <1>2, <3>2, <3>3
  <2>2. CASE asks[a].state # "waiting"
    BY <2>2 DEF Answer
  <2> QED BY <2>1, <2>2
<1>5. pending' \in [Keys -> Nat]
  BY <1>1, <1>3 DEF Values
<1>6. Pends'
  <2> SUFFICES ASSUME NEW q \in Keys, pending'[q] # 0
               PROVE  /\ pending'[q] \in DOMAIN asks' /\ asks'[pending'[q]].state \in {"waiting", "cancelled"}
                      /\ msgs'[asks'[pending'[q]].turn].key = q
    BY DEF Pends
  <2>1. q # k /\ pending'[q] = pending[q]
    BY <1>1, <1>2, <1>3 DEF Values
  <2>2. /\ pending[q] \in DOMAIN asks /\ asks[pending[q]].state \in {"waiting", "cancelled"}
        /\ msgs[asks[pending[q]].turn].key = q
    BY <1>1, <2>1 DEF Pends
  <2>3. pending[q] # a
    BY <1>2, <2>1, <2>2 DEF KeyOf
  <2> QED BY <1>4, <2>1, <2>2, <2>3
<1>7. Replies'
  BY <1>1, <1>4 DEF Replies
<1> QED BY <1>5, <1>6, <1>7

\* What a message does that got to its key's session, or to there being none.
Rests(m) ==
  /\ \E p \in {"waiting", "over"} : place' = [place EXCEPT ![m] = p]
  /\ Plain /\ UNCHANGED <<objects, requests>>

Creates(m) ==
  /\ sessions[msgs[m].key] = 0 /\ ~Locked(msgs[m].key)
  /\ place' = [place EXCEPT ![m] = "creating"]
  /\ Plain /\ UNCHANGED <<objects, requests>>

Loads(m) ==
  /\ sessions[msgs[m].key] # 0 /\ live[sessions[msgs[m].key]] = 0
  /\ Departs(When(At(msgs[m].key, "loading") # {}, "crossed"))
  /\ place' = [place EXCEPT ![m] = "loading"] /\ UNCHANGED <<objects, requests>>

Joins(m) ==
  /\ sessions[msgs[m].key] # 0 /\ live[sessions[msgs[m].key]] # 0
  /\ place' = [place EXCEPT ![m] = "turn"]
  /\ line' = [line EXCEPT ![live[sessions[msgs[m].key]]] = Append(@, m)]
  /\ Plain /\ UNCHANGED <<live, requests>>

Answers(m) ==
  /\ pending[msgs[m].key] # 0 /\ Answer(m, pending[msgs[m].key])

\* What a message does that has the lock or needs none.
LEMMA BehindMeans ==
  ASSUME NEW m, Behind(m), ~Locked(msgs[m].key), UNCHANGED requests
  PROVE  Rests(m) \/ Creates(m) \/ Loads(m) \/ Joins(m)
<1>1. CASE sessions[msgs[m].key] = 0
  BY <1>1 DEF Behind, Creates
<1>2. CASE sessions[msgs[m].key] # 0 /\ msgs[m].is = "command"
  BY <1>2 DEF Behind, Dispatch, Rests
<1>3. CASE sessions[msgs[m].key] # 0 /\ msgs[m].is # "command" /\ live[sessions[msgs[m].key]] = 0
  BY <1>3 DEF Behind, Dispatch, Loads
<1>4. CASE sessions[msgs[m].key] # 0 /\ msgs[m].is # "command" /\ live[sessions[msgs[m].key]] # 0
  BY <1>4 DEF Behind, Dispatch, Joins, objects
<1> QED BY <1>1, <1>2, <1>3, <1>4

\* What a message does that is looked at.
LEMMA Handles ==
  ASSUME NEW m, Handle(m) \/ Enter(m)
  PROVE  /\ UNCHANGED <<msgs, mapping>> /\ place[m] \in {"sent", "waiting"}
         /\ Answers(m) \/ Rests(m) \/ Creates(m) \/ Loads(m) \/ Joins(m)
<1>1. CASE Enter(m)
  BY <1>1, BehindMeans DEF Enter
<1>2. CASE Handle(m) /\ pending[msgs[m].key] # 0
  BY <1>2 DEF Handle, Answers
<1>3. CASE Handle(m) /\ pending[msgs[m].key] = 0 /\ (Locked(msgs[m].key) \/ At(msgs[m].key, "waiting") # {})
  BY <1>3 DEF Handle, Rests
<1>4. CASE Handle(m) /\ pending[msgs[m].key] = 0 /\ ~(Locked(msgs[m].key) \/ At(msgs[m].key, "waiting") # {})
  <2>1. Behind(m) /\ UNCHANGED <<requests, msgs, mapping>> /\ place[m] = "sent" /\ ~Locked(msgs[m].key)
    BY <1>4 DEF Handle
  <2> QED BY <2>1, BehindMeans
<1> QED BY <1>1, <1>2, <1>3, <1>4

\* A message that is looked at, or gets the lock, keeps Base.
LEMMA HandleBase ==
  ASSUME Base, GInv', NEW m \in DOMAIN msgs, Handle(m) \/ Enter(m)
  PROVE  Base'
<1>1. UNCHANGED <<msgs, mapping>> /\ place[m] \in {"sent", "waiting"}
  BY Handles
<1>2. UNCHANGED <<sessions, saved, owner>> /\ place[m] \notin {"turn", "ending", "creating", "loading"}
  BY <1>1 DEF mapping
<1>3. CASE Answers(m)
  <2>1. \E p \in {"over", "lost"} : place' = [place EXCEPT ![m] = p]
    BY <1>3 DEF Answers, Answer
  <2>2. Plain /\ UNCHANGED objects
    BY <1>3 DEF Answers, Answer
  <2>3. Pends' /\ Replies' /\ pending' \in [Keys -> Nat]
    BY <1>1, <1>3, AnswerKeeps DEF Answers
  <2> QED BY <1>1, <1>2, <2>1, <2>2, <2>3, RestBase
<1>4. CASE Rests(m)
  <2>1. \E p \in {"waiting", "over"} : place' = [place EXCEPT ![m] = p]
    BY <1>4 DEF Rests
  <2>2. Plain /\ UNCHANGED <<objects, requests>>
    BY <1>4 DEF Rests
  <2> QED BY <1>1, <1>2, <2>1, <2>2, RequestsKept, RestBase
<1>5. ASSUME UNCHANGED <<live, requests>>, Plain \/ \E ds : Departs(ds)
      PROVE  Values' /\ Mappings' /\ Pends' /\ Replies'
  <2>1. Pends' /\ Replies' /\ pending' \in [Keys -> Nat]
    BY <1>1, <1>5, RequestsKept
  <2>2. Values'
    BY <1>2, <1>5, <2>1, ValuesKept DEF Base
  <2>3. Mappings'
    BY <1>2 DEF Base, Mappings
  <2> QED BY <2>1, <2>2, <2>3
<1>6. CASE Creates(m)
  <2>1. place' = [place EXCEPT ![m] = "creating"] /\ Plain /\ UNCHANGED <<live, line, requests>>
        /\ sessions[msgs[m].key] = 0 /\ ~Locked(msgs[m].key) /\ "creating" \in Places
    BY <1>6 DEF Creates, objects, Places
  <2>2. Held' /\ Keyed'
    BY <1>1, <1>2, <2>1 DEF Base, Held, Keyed
  <2>3. LinesOnce'
    BY <1>1, <1>2, <2>1, MoveTyped DEF Base, LinesOnce
  <2>4. place'[m] = "creating" /\ \A n \in DOMAIN msgs : n # m => place'[n] = place[n]
    BY <1>1, <1>2, <2>1, MoveTyped
  <2>5. \A n \in DOMAIN msgs : msgs[n].key = msgs[m].key => place[n] # "creating"
    BY <2>1 DEF Locked, At, Of
  <2>6. Locks'
    BY <1>1, <1>2, <2>1, <2>4, <2>5 DEF Base, Locks
  <2> QED BY <1>5, <2>1, <2>2, <2>3, <2>6 DEF Base
<1>7. CASE Loads(m)
  <2>1. place' = [place EXCEPT ![m] = "loading"] /\ (\E ds : Departs(ds)) /\ UNCHANGED <<live, line, requests>>
        /\ sessions[msgs[m].key] # 0 /\ "loading" \in Places
    BY <1>7 DEF Loads, objects, Places
  <2>2. Held' /\ Keyed'
    BY <1>1, <1>2, <2>1 DEF Base, Held, Keyed
  <2>3. LinesOnce'
    BY <1>1, <1>2, <2>1, MoveTyped DEF Base, LinesOnce
  <2>4. place'[m] = "loading" /\ \A n \in DOMAIN msgs : n # m => place'[n] = place[n]
    BY <1>1, <1>2, <2>1, MoveTyped
  <2>5. Locks'
    BY <1>1, <1>2, <2>1, <2>4 DEF Base, Locks
  <2> QED BY <1>5, <2>1, <2>2, <2>3, <2>5 DEF Base
<1>8. CASE Joins(m)
  <2> DEFINE s == sessions[msgs[m].key]
             o == live[s]
  <2>1. place' = [place EXCEPT ![m] = "turn"] /\ Plain /\ UNCHANGED <<live, requests>>
        /\ line' = [line EXCEPT ![o] = Append(@, m)] /\ s # 0 /\ o # 0 /\ "turn" \in Places
    BY <1>8 DEF Joins, Places
  <2>2. s \in DOMAIN owner /\ s \in DOMAIN live /\ owner[s] = msgs[m].key /\ DOMAIN owner = DOMAIN live
    BY <2>1, BaseFacts DEF Base, GInv, Mappings
  <2> HIDE DEF s
  <2>3. o \in 1..Len(line)
    BY <2>1, <2>2, LineFacts
  <2>4. place'[m] = "turn" /\ (\A n \in DOMAIN msgs : n # m => place'[n] = place[n])
        /\ m \notin Placed /\ Placed' = Placed \cup {m}
    BY <1>1, <1>2, <2>1, MoveTyped
  <2>5. LinesOnce'
    BY <2>1, <2>3, <2>4, LinesJoin DEF Base, LinesOnce
  <2> HIDE DEF o
  <2>6. Len(line') = Len(line) /\ line'[o] = Append(line[o], m)
        /\ \A p \in 1..Len(line) : p # o => line'[p] = line[p]
    <3>1. line \in Seq(Seq(Placed)) /\ line' \in Seq(Seq(Placed \cup {m}))
      BY <2>4, <2>5, LinesFacts DEF Base, LinesOnce
    <3> QED BY <2>1, <2>3, <3>1, LineFacts
  <2>7. Held'
    BY <1>2, <2>1, <2>6 DEF Base, Held
  <2>8. Keyed'
    <3> SUFFICES ASSUME NEW t \in DOMAIN live, live[t] # 0, NEW i \in 1..Len(line'[live[t]])
                 PROVE  msgs[line'[live[t]][i]].key = owner[t]
      BY <1>1, <1>2, <2>1 DEF Keyed
    <3>1. live[t] \in 1..Len(line) /\ (live[t] = o => t = s)
      BY <2>2, LineFacts DEF Base, Held, o
    <3>2. CASE live[t] # o
      BY <2>6, <3>1, <3>2 DEF Base, Keyed
    <3>3. CASE live[t] = o
      <4>1. line[o] \in Seq(Placed) /\ Len(line[o]) \in Nat
        BY <2>3, LineFacts
      <4>2. Len(line'[o]) = Len(line[o]) + 1 /\ line'[o][Len(line[o]) + 1] = m
            /\ \A j \in 1..Len(line[o]) : line'[o][j] = line[o][j]
        <5>1. line[o] \in Seq(Placed \cup {m})
          BY <4>1
        <5> QED BY <2>6, <5>1, AppendProperties
      <4>3. i \in 1..Len(line[o]) \/ i = Len(line[o]) + 1
        BY <3>3, <4>1, <4>2
      <4>4. \A j \in 1..Len(line[o]) : msgs[line[o][j]].key = owner[t]
        BY <2>1, <3>3 DEF Base, Keyed
      <4> QED BY <2>2, <3>1, <3>3, <4>2, <4>3, <4>4
    <3> QED BY <3>2, <3>3
  <2>9. Locks'
    BY <1>1, <1>2, <2>1, <2>4 DEF Base, Locks, s
  <2> QED BY <1>5, <2>1, <2>5, <2>7, <2>8, <2>9 DEF Base
<1> QED BY <1>3, <1>4, <1>6, <1>7, <1>8, Handles

\* A session is there: it is mapped, and has an object of its own.
LEMMA MakesSession ==
  ASSUME Base, NEW k \in Keys, Plain \/ \E ds : Departs(ds), UNCHANGED <<msgs, requests>>,
         owner' = Append(owner, k), sessions' = [sessions EXCEPT ![k] = Len(owner) + 1],
         saved' = sessions' \/ saved' = saved, live' = Append(live, Len(line) + 1),
         Len(line') = Len(line) + 1
  PROVE  /\ Values' /\ Mappings' /\ Held' /\ Pends' /\ Replies'
         /\ DOMAIN live' = DOMAIN live \cup {Len(owner) + 1}
         /\ live'[Len(owner) + 1] = Len(line) + 1 /\ owner'[Len(owner) + 1] = k
         /\ \A s \in DOMAIN live : /\ live'[s] = live[s] /\ owner'[s] = owner[s]
                                   /\ live[s] # 0 => live[s] \in 1..Len(line)
<1> DEFINE t == Len(owner) + 1
<1>1. /\ owner \in Seq(Keys) /\ live \in Seq(Nat) /\ Len(live) = Len(owner) /\ Len(line) \in Nat
      /\ Shapes /\ Values /\ Mappings /\ Held
  BY LineFacts DEF Base, Values, GInv
<1>2. /\ owner' \in Seq(Keys) /\ Len(owner') = t /\ owner'[t] = k
      /\ \A s \in 1..Len(owner) : owner'[s] = owner[s]
      /\ live' \in Seq(Nat) /\ Len(live') = t /\ live'[t] = Len(line) + 1
      /\ \A s \in 1..Len(owner) : live'[s] = live[s]
  BY <1>1
<1>3. /\ DOMAIN live = 1..Len(owner) /\ DOMAIN owner = 1..Len(owner) /\ Len(owner) \in Nat
      /\ DOMAIN owner' = DOMAIN owner \cup {t} /\ DOMAIN live' = DOMAIN live \cup {t}
      /\ t \notin DOMAIN live
  BY <1>1, <1>2
<1>4. \A s \in DOMAIN live : live[s] # 0 => live[s] \in 1..Len(line)
  BY LineFacts
<1>5. Pends' /\ Replies' /\ pending' \in [Keys -> Nat]
  BY RequestsKept
<1>6. Values'
  <2>1. departs' \subseteq Departures /\ spent' \in 0..MaxDepartures
    BY <1>1, DepartsTyped DEF Values, Plain
  <2> QED BY <1>2, <1>5, <2>1 DEF Values
<1> HIDE DEF t
<1>7. Mappings'
  <2>1. sessions \in [Keys -> Nat] /\ sessions' = [sessions EXCEPT ![k] = t]
    BY <1>1 DEF Shapes, t
  <2>2. \A q \in Keys : /\ sessions'[q] # 0 => sessions'[q] \in DOMAIN owner' /\ owner'[sessions'[q]] = q
                        /\ saved[q] # 0 => saved[q] \in DOMAIN owner' /\ owner'[saved[q]] = q
    BY <1>1, <1>2, <1>3, <2>1 DEF Mappings
  <2> QED BY <2>2 DEF Mappings
<1>8. Held'
  <2> SUFFICES ASSUME NEW s \in DOMAIN live', live'[s] # 0
               PROVE  live'[s] <= Len(line') /\ \A r \in DOMAIN live' : live'[s] = live'[r] => s = r
    BY DEF Held
  <2>1. \A r \in DOMAIN live : live'[r] = live[r] /\ live'[r] # Len(line) + 1
    BY <1>1, <1>2, <1>3, <1>4
  <2>2. CASE s = t
    BY <1>1, <1>2, <1>3, <2>1, <2>2
  <2>3. CASE s \in DOMAIN live
    BY <1>1, <1>2, <1>3, <1>4, <2>1, <2>3 DEF Held
  <2> QED BY <1>3, <2>2, <2>3
<1> QED BY <1>2, <1>3, <1>4, <1>5, <1>6, <1>7, <1>8 DEF t

\* The session of a message is made, and its line is as it should be.
LEMMA MadeBase ==
  ASSUME Base, GInv', NEW m \in DOMAIN msgs, place[m] = "creating", Plain \/ \E ds : Departs(ds),
         UNCHANGED <<msgs, requests>>, owner' = Append(owner, msgs[m].key),
         sessions' = [sessions EXCEPT ![msgs[m].key] = Len(owner) + 1],
         saved' = sessions' \/ saved' = saved, live' = Append(live, Len(line) + 1),
         \/ /\ place' = [place EXCEPT ![m] = "turn"] /\ line' = Append(line, <<m>>)
         \/ \E p \in {"over", "lost"} : /\ place' = [place EXCEPT ![m] = p] /\ line' = Append(line, <<>>)
  PROVE  Base'
<1> DEFINE k == msgs[m].key
           t == Len(owner) + 1
           n == Len(line) + 1
<1>0. Shapes /\ Values /\ Locks /\ "turn" \in Places /\ {"over", "lost"} \subseteq Places
      /\ line \in Lines(Placed) /\ line \in Seq(Seq(Placed)) /\ Len(line) \in Nat /\ DOMAIN line = 1..Len(line)
  BY LinesFacts DEF Base, GInv, LinesOnce, Places
<1>1. k \in Keys /\ \A x \in DOMAIN msgs : msgs[x].key \in Keys
  BY <1>0, BaseFacts
<1>2. PICK p \in {"turn", "over", "lost"} : place' = [place EXCEPT ![m] = p]
  OBVIOUS
<1>3. /\ place'[m] = p /\ \A x \in DOMAIN msgs : x # m => place'[x] = place[x]
  BY <1>0, <1>2, PlaceTyped
<1>4. m \notin Placed
  BY DEF Placed
<1>5. /\ LinesOnce' /\ Len(line') = n /\ \A o \in 1..Len(line) : line'[o] = line[o]
      /\ line'[n] = <<m>> \/ line'[n] = <<>>
  <2>1. CASE p = "turn"
    <3>1. place' # [place EXCEPT ![m] = "over"] /\ place' # [place EXCEPT ![m] = "lost"]
      BY <1>0, <1>3, <2>1, PlaceTyped
    <3>2. line' = Append(line, <<m>>)
      BY <3>1
    <3>3. Placed' = Placed \cup {m}
      BY <1>3, <2>1 DEF Placed
    <3>4. line' \in Lines(Placed \cup {m})
      BY <1>0, <1>4, <3>2, LinesNew
    <3>5. line \in Seq(Seq(Placed \cup {m})) /\ <<m>> \in Seq(Placed \cup {m})
      BY <1>0
    <3>6. Len(line') = n /\ line'[n] = <<m>> /\ \A o \in 1..Len(line) : line'[o] = line[o]
      BY <3>2, <3>5, AppendProperties
    <3> QED BY <3>3, <3>4, <3>6 DEF LinesOnce
  <2>2. CASE p # "turn"
    <3>1. place' # [place EXCEPT ![m] = "turn"]
      BY <1>0, <1>3, <2>2, PlaceTyped
    <3>2. line' = Append(line, <<>>)
      BY <3>1
    <3>3. Placed' = Placed
      BY <1>3, <2>2 DEF Placed
    <3>4. line' \in Lines(Placed)
      BY <1>0, <3>2, LinesEmpty
    <3>5. <<>> \in Seq(Placed)
      OBVIOUS
    <3>6. Len(line') = n /\ line'[n] = <<>> /\ \A o \in 1..Len(line) : line'[o] = line[o]
      BY <1>0, <3>2, <3>5, AppendProperties
    <3> QED BY <3>3, <3>4, <3>6 DEF LinesOnce
  <2> QED BY <2>1, <2>2
<1>6. /\ Values' /\ Mappings' /\ Held' /\ Pends' /\ Replies'
      /\ DOMAIN live' = DOMAIN live \cup {t} /\ live'[t] = n /\ owner'[t] = k
      /\ \A s \in DOMAIN live : /\ live'[s] = live[s] /\ owner'[s] = owner[s]
                                /\ live[s] # 0 => live[s] \in 1..Len(line)
  BY <1>1, <1>5, MakesSession
<1>7. Keyed'
  <2> SUFFICES ASSUME NEW s \in DOMAIN live', live'[s] # 0, NEW i \in 1..Len(line'[live'[s]])
               PROVE  msgs[line'[live'[s]][i]].key = owner'[s]
    BY DEF Keyed
  <2>1. CASE s \in DOMAIN live
    BY <1>5, <1>6, <2>1 DEF Base, Keyed
  <2>2. CASE s = t
    <3>1. CASE line'[n] = <<m>>
      BY <1>6, <2>2, <3>1
    <3>2. CASE line'[n] = <<>>
      <4>1. Len(<<>>) = 0 /\ 1..0 = {}
        OBVIOUS
      <4> QED BY <1>6, <2>2, <3>2, <4>1
    <3> QED BY <1>5, <3>1, <3>2
  <2> QED BY <1>6, <2>1, <2>2
<1>8. Locks'
  <2>1. sessions \in [Keys -> Nat] /\ sessions' = [sessions EXCEPT ![k] = t] /\ t \in Nat \ {0}
    BY <1>0 DEF Shapes, Values
  <2>2. ASSUME NEW x \in DOMAIN msgs, place'[x] = "creating"
        PROVE  x # m /\ place[x] = "creating" /\ msgs[x].key # k /\ sessions'[msgs[x].key] = 0
    <3>1. x # m /\ place[x] = "creating"
      BY <1>3, <2>2
    <3>2. msgs[x].key # k /\ sessions[msgs[x].key] = 0
      BY <1>0, <3>1 DEF Locks
    <3> QED BY <1>1, <2>1, <3>1, <3>2
  <2>3. ASSUME NEW x \in DOMAIN msgs, place'[x] \in {"loading", "turn", "ending"}
        PROVE  sessions'[msgs[x].key] # 0
    <3>1. x = m \/ sessions[msgs[x].key] # 0
      BY <1>0, <1>3, <2>3 DEF Locks
    <3> QED BY <1>1, <2>1, <3>1
  <2> QED BY <1>0, <2>2, <2>3 DEF Locks
<1> QED BY <1>5, <1>6, <1>7, <1>8 DEF Base

\* So does the session that is there, mapped or not.
LEMMA CreatedBase ==
  ASSUME Base, GInv', NEW m \in DOMAIN msgs, Created(m) \/ PersistFails(m)
  PROVE  Base'
<1>1. CASE Created(m)
  BY <1>1, MadeBase DEF Created
<1>2. CASE PersistFails(m)
  BY <1>2, MadeBase DEF PersistFails
<1> QED BY <1>1, <1>2

\* So does a creation or load that fails.
LEMMA FailsBase ==
  ASSUME Base, GInv', NEW m \in DOMAIN msgs, CreateFails(m) \/ LoadFails(m)
  PROVE  Base'
<1>1. /\ UNCHANGED <<msgs, mapping, objects, requests>> /\ place[m] \notin {"turn", "ending"}
      /\ \E ds : Departs(ds)
      /\ \E p \in {"over", "lost"} : place' = [place EXCEPT ![m] = p]
  BY DEF CreateFails, LoadFails
<1> QED BY <1>1, RequestsKept, RestBase

\* A session has another object, whose line is the message.
LEMMA LoadedBase ==
  ASSUME Base, GInv', NEW m \in DOMAIN msgs, Loaded(m)
  PROVE  Base'
<1> DEFINE s == sessions[msgs[m].key]
           n == Len(line) + 1
<1>0. /\ place[m] = "loading" /\ Plain /\ line' = Append(line, <<m>>) /\ UNCHANGED <<msgs, sessions, saved, owner, requests>>
      /\ place' = [place EXCEPT ![m] = "turn"] /\ live' = [live EXCEPT ![s] = n] /\ "turn" \in Places
  BY DEF Loaded, mapping, Places
<1>1. /\ s # 0 /\ s \in DOMAIN live /\ owner[s] = msgs[m].key /\ live \in Seq(Nat) /\ owner \in Seq(Keys)
      /\ Len(live) = Len(owner) /\ Shapes /\ Values
  BY <1>0, BaseFacts DEF Base, GInv, Locks, Mappings, Values
<1>2. line \in Lines(Placed) /\ Len(line) \in Nat /\ DOMAIN line = 1..Len(line) /\ line \in Seq(Seq(Placed))
  BY LinesFacts DEF Base, LinesOnce
<1>3. /\ place'[m] = "turn" /\ (\A x \in DOMAIN msgs : x # m => place'[x] = place[x])
      /\ m \notin Placed /\ Placed' = Placed \cup {m}
  BY <1>0, MoveTyped
<1>4. LinesOnce'
  BY <1>0, <1>2, <1>3, LinesNew DEF LinesOnce
<1>5. Len(line') = n /\ line'[n] = <<m>> /\ \A o \in 1..Len(line) : line'[o] = line[o]
  <2>1. line \in Seq(Seq(Placed \cup {m})) /\ <<m>> \in Seq(Placed \cup {m})
    BY <1>2
  <2> QED BY <1>0, <2>1, AppendProperties
<1> HIDE DEF s
<1>6. /\ live' \in Seq(Nat) /\ Len(live') = Len(live) /\ DOMAIN live' = DOMAIN live
      /\ live'[s] = n /\ \A t \in DOMAIN live : t # s => live'[t] = live[t]
  BY <1>0, <1>1, <1>2
<1>7. \A t \in DOMAIN live : live[t] # 0 => live[t] \in 1..Len(line)
  BY LineFacts
<1>8. Pends' /\ Replies' /\ pending' \in [Keys -> Nat]
  BY <1>0, RequestsKept
<1>9. Values'
  BY <1>0, <1>1, <1>6, <1>8 DEF Values, Plain
<1>10. Mappings'
  BY <1>0 DEF Base, Mappings
<1>11. Held'
  <2> SUFFICES ASSUME NEW t \in DOMAIN live, live'[t] # 0
               PROVE  live'[t] <= n /\ \A r \in DOMAIN live : live'[t] = live'[r] => t = r
    BY <1>5, <1>6 DEF Held
  <2>0. n # 0 /\ \A i \in 1..Len(line) : i # n
    BY <1>2
  <2>1. \A r \in DOMAIN live : r # s => live'[r] = live[r] /\ live'[r] # n
    BY <1>6, <1>7, <2>0
  <2>2. CASE t = s
    BY <1>2, <1>6, <2>1, <2>2
  <2>3. CASE t # s
    BY <1>1, <1>2, <1>6, <1>7, <2>1, <2>3 DEF Base, Held
  <2> QED BY <2>2, <2>3
<1>12. Keyed'
  <2> SUFFICES ASSUME NEW t \in DOMAIN live, live'[t] # 0, NEW i \in 1..Len(line'[live'[t]])
               PROVE  msgs[line'[live'[t]][i]].key = owner[t]
    BY <1>0, <1>6 DEF Keyed
  <2>1. CASE t = s
    BY <1>1, <1>5, <1>6, <2>1
  <2>2. CASE t # s
    BY <1>5, <1>6, <1>7, <2>2 DEF Base, Keyed
  <2> QED BY <2>1, <2>2
<1>13. Locks'
  BY <1>0, <1>1, <1>3 DEF Base, Locks, s
<1> QED BY <1>4, <1>8, <1>9, <1>10, <1>11, <1>12, <1>13 DEF Base

\* So does a new message.
LEMMA SendBase ==
  ASSUME Base, GInv', NEW k \in Keys, NEW is \in {"prompt", "command", "reply"}, NEW to \in Nat,
         to <= Len(asks), is = "reply" <=> to # 0, \E ds : Departs(ds), Send(k, is, to)
  PROVE  Base'
<1> DEFINE n == Len(msgs) + 1
           g == [key |-> k, is |-> is, to |-> to]
<1>0. /\ Shapes /\ Values /\ msgs' = Append(msgs, g) /\ place' = Append(place, "sent")
      /\ UNCHANGED <<sessions, saved, owner, live, line, asks, pending>> /\ "sent" \in Places
      /\ msgs \in Seq(Message) /\ place \in Seq(Places) /\ Len(place) = Len(msgs)
  BY DEF Base, GInv, Send, mapping, objects, requests, Shapes, Places
<1>1. g \in Message /\ g.key = k /\ g.is = is /\ g.to = to
  BY DEF Message
<1> HIDE DEF g
<1>2. /\ DOMAIN msgs' = DOMAIN msgs \cup {n} /\ n \notin DOMAIN msgs /\ msgs'[n] = g /\ place'[n] = "sent"
      /\ \A m \in DOMAIN msgs : msgs'[m] = msgs[m] /\ place'[m] = place[m]
  BY <1>0, <1>1
<1> HIDE DEF n
<1>3. Values'
  BY <1>0, ValuesKept DEF Values
<1>4. Mappings' /\ Held'
  BY <1>0 DEF Base, Mappings, Held
<1>5. Placed' = Placed /\ LinesOnce'
  <2>1. Placed' = Placed
    BY <1>2 DEF Placed
  <2> QED BY <1>0, <2>1 DEF Base, LinesOnce
<1>6. Keyed'
  <2> SUFFICES ASSUME NEW s \in DOMAIN live, live[s] # 0, NEW i \in 1..Len(line[live[s]])
               PROVE  msgs'[line[live[s]][i]].key = owner[s]
    BY <1>0 DEF Keyed
  <2>1. line[live[s]][i] \in DOMAIN msgs
    BY LineFacts
  <2> QED BY <1>2, <2>1 DEF Base, Keyed
<1>7. Locks'
  BY <1>0, <1>2 DEF Base, Locks
<1>8. Pends'
  <2> SUFFICES ASSUME NEW q \in Keys, pending[q] # 0
               PROVE  /\ pending[q] \in DOMAIN asks /\ asks[pending[q]].state \in {"waiting", "cancelled"}
                      /\ msgs'[asks[pending[q]].turn].key = q
    BY <1>0 DEF Pends
  <2>1. /\ pending[q] \in DOMAIN asks /\ asks[pending[q]].state \in {"waiting", "cancelled"}
        /\ msgs[asks[pending[q]].turn].key = q
    BY DEF Base, Pends
  <2>2. asks[pending[q]].turn \in DOMAIN msgs
    BY <1>0, <2>1, BaseFacts
  <2> QED BY <1>2, <2>1, <2>2
<1>9. Replies'
  BY <1>0, <1>1, <1>2 DEF Base, Replies
<1> QED BY <1>3, <1>4, <1>5, <1>6, <1>7, <1>8, <1>9 DEF Base

\* So does what a user says.
LEMMA UserBase ==
  ASSUME Base, GInv',
         \/ \E k \in Keys, is \in {"prompt", "command"} : Text(k, is)
         \/ \E a \in DOMAIN asks : Reply(a)
  PROVE  Base'
<1>1. ASSUME NEW k \in Keys, NEW is \in {"prompt", "command"}, Text(k, is) PROVE Base'
  <2>1. Send(k, is, 0) /\ \E ds : Departs(ds)
    BY <1>1 DEF Text
  <2>2. 0 <= Len(asks)
    BY BaseFacts DEF Base, GInv
  <2> QED BY <2>1, <2>2, SendBase
<1>2. ASSUME NEW a \in DOMAIN asks, Reply(a) PROVE Base'
  <2>1. Send(KeyOf(a), "reply", a) /\ \E ds : Departs(ds)
    BY <1>2 DEF Reply
  <2>2. KeyOf(a) \in Keys /\ a \in Nat /\ a <= Len(asks) /\ a # 0
    BY BaseFacts DEF Base, GInv
  <2> QED BY <2>1, <2>2, SendBase
<1> QED BY <1>1, <1>2

\* Steps that touch neither the messages nor the objects.
LEMMA RequestBase ==
  ASSUME Base, GInv', Plain \/ \E ds : Departs(ds), UNCHANGED <<channel, mapping, objects>>,
         pending' \in [Keys -> Nat], Pends', Replies'
  PROVE  Base'
<1>1. UNCHANGED <<msgs, place, sessions, saved, owner, live, line>>
  BY DEF channel, mapping, objects
<1>2. Values'
  BY <1>1, ValuesKept DEF Base
<1>3. Mappings' /\ Held' /\ Keyed' /\ Locks'
  BY <1>1 DEF Base, Mappings, Held, Keyed, Locks
<1>4. Placed' = Placed /\ LinesOnce'
  BY <1>1 DEF Base, LinesOnce, Placed
<1> QED BY <1>2, <1>3, <1>4 DEF Base

\* The state of one request, as EXCEPT changes it.
LEMMA StateTyped ==
  ASSUME Shapes, NEW a \in DOMAIN asks, NEW st, asks' = [asks EXCEPT ![a].state = st]
  PROVE  /\ Len(asks') = Len(asks) /\ DOMAIN asks' = DOMAIN asks /\ asks'[a].state = st
         /\ \A b \in DOMAIN asks : /\ asks'[b].turn = asks[b].turn /\ asks'[b].by = asks[b].by
                                   /\ b # a => asks'[b].state = asks[b].state
<1>1. asks \in Seq(Request) /\ \A b \in DOMAIN asks : asks[b] \in Request
  BY MembersTyped DEF Shapes
<1> DEFINE r == [asks[a] EXCEPT !.state = st]
<1>2. r.state = st /\ r.turn = asks[a].turn /\ r.by = asks[a].by
  BY <1>1 DEF Request
<1>3. asks' = [asks EXCEPT ![a] = r]
  BY <1>1 DEF Request
<1> HIDE DEF r
<1> QED BY <1>1, <1>2, <1>3

\* So does a question that is put, registered or answered.
LEMMA AskBase ==
  ASSUME Base, GInv',
         (\E m \in DOMAIN msgs : Asks(m)) \/ \E a \in DOMAIN asks : Registers(a) \/ Returns(a)
  PROVE  Base'
<1>0. Shapes /\ Values /\ Pends /\ Replies /\ asks \in Seq(Request) /\ pending \in [Keys -> Nat]
  BY DEF Base, GInv, Shapes, Values
<1>1. ASSUME NEW m \in DOMAIN msgs, Asks(m) PROVE Base'
  <2>1. /\ asks' = Append(asks, [turn |-> m, state |-> "sending", by |-> 0])
        /\ UNCHANGED <<channel, mapping, objects, pending>> /\ \E ds : Departs(ds)
    BY <1>1 DEF Asks
  <2>2. [turn |-> m, state |-> "sending", by |-> 0] \in Request
    BY <1>0, BaseFacts DEF Request
  <2>3. Len(asks') = Len(asks) + 1 /\ \A a \in DOMAIN asks : a \in DOMAIN asks' /\ asks'[a] = asks[a]
    BY <1>0, <2>1, <2>2
  <2>4. msgs' = msgs
    BY <2>1 DEF channel
  <2>5. Pends'
    BY <1>0, <2>1, <2>3, <2>4 DEF Pends
  <2>6. \A x \in DOMAIN msgs : msgs[x].to \in Nat
    BY <1>0, BaseFacts
  <2>7. Replies'
    BY <1>0, <2>3, <2>4, <2>6 DEF Replies
  <2> QED BY <1>0, <2>1, <2>5, <2>7, RequestBase
<1>2. ASSUME NEW a \in DOMAIN asks, Registers(a) \/ Returns(a) PROVE Base'
  <2>1. KeyOf(a) \in Keys /\ a \in Nat /\ UNCHANGED <<channel, mapping, objects, msgs>> /\ Plain
    BY <1>0, <1>2, BaseFacts DEF Registers, Returns, channel
  <2>2. /\ Len(asks') = Len(asks) /\ DOMAIN asks' = DOMAIN asks
        /\ \A b \in DOMAIN asks : asks'[b].turn = asks[b].turn /\ (b # a => asks'[b].state = asks[b].state)
    BY <1>0, <1>2, StateTyped DEF Registers, Returns
  <2>3. Replies'
    BY <1>0, <2>1, <2>2 DEF Replies
  <2>4. CASE Registers(a)
    <3>1. pending' = [pending EXCEPT ![KeyOf(a)] = a] /\ asks'[a].state = "waiting"
      BY <1>0, <2>4, StateTyped DEF Registers
    <3>2. ASSUME NEW q \in Keys, pending'[q] # 0
          PROVE  /\ pending'[q] \in DOMAIN asks' /\ asks'[pending'[q]].state \in {"waiting", "cancelled"}
                 /\ msgs'[asks'[pending'[q]].turn].key = q
      <4>1. CASE q = KeyOf(a)
        BY <1>0, <2>1, <2>2, <3>1, <4>1 DEF KeyOf
      <4>2. CASE q # KeyOf(a)
        <5>1. /\ pending'[q] = pending[q] /\ pending[q] \in DOMAIN asks
              /\ asks[pending[q]].state \in {"waiting", "cancelled"} /\ msgs[asks[pending[q]].turn].key = q
          BY <1>0, <3>1, <3>2, <4>2 DEF Pends
        <5>2. pending[q] # a
          BY <4>2, <5>1 DEF KeyOf
        <5> QED BY <2>1, <2>2, <5>1, <5>2
      <4> QED BY <4>1, <4>2
    <3>3. pending' \in [Keys -> Nat]
      BY <1>0, <2>1, <3>1
    <3> QED BY <2>1, <2>3, <3>2, <3>3, RequestBase DEF Pends
  <2>5. CASE Returns(a)
    <3>1. pending' = [pending EXCEPT ![KeyOf(a)] = 0]
      BY <2>5 DEF Returns
    <3>2. ASSUME NEW q \in Keys, pending'[q] # 0
          PROVE  /\ pending'[q] \in DOMAIN asks' /\ asks'[pending'[q]].state \in {"waiting", "cancelled"}
                 /\ msgs'[asks'[pending'[q]].turn].key = q
      <4>1. /\ q # KeyOf(a) /\ pending'[q] = pending[q] /\ pending[q] \in DOMAIN asks
            /\ asks[pending[q]].state \in {"waiting", "cancelled"} /\ msgs[asks[pending[q]].turn].key = q
        BY <1>0, <3>1, <3>2 DEF Pends
      <4>2. pending[q] # a
        BY <4>1 DEF KeyOf
      <4> QED BY <2>1, <2>2, <4>1, <4>2
    <3>3. pending' \in [Keys -> Nat]
      BY <1>0, <2>1, <3>1
    <3> QED BY <2>1, <2>3, <3>2, <3>3, RequestBase DEF Pends
  <2> QED BY <1>2, <2>4, <2>5
<1> QED BY <1>1, <1>2

\* So does an eviction.
LEMMA EvictBase ==
  ASSUME Base, GInv', NEW s \in DOMAIN live, Evict(s)
  PROVE  Base'
<1>1. /\ UNCHANGED <<msgs, place, sessions, saved, owner, line, asks, pending, requests>> /\ Plain
      /\ live' = [live EXCEPT ![s] = 0] /\ live \in Seq(Nat) /\ Values
  BY DEF Evict, channel, mapping, requests, Base, Values
<1>2. /\ live' \in Seq(Nat) /\ Len(live') = Len(live) /\ DOMAIN live' = DOMAIN live
      /\ live'[s] = 0 /\ \A t \in DOMAIN live : t # s => live'[t] = live[t]
  BY <1>1
<1>3. Values'
  BY <1>1, <1>2 DEF Values, Plain
<1>4. Mappings' /\ Locks' /\ Pends' /\ Replies'
  BY <1>1 DEF Base, Mappings, Locks, Pends, Replies
<1>5. Held' /\ Keyed'
  BY <1>1, <1>2 DEF Base, Held, Keyed
<1>6. Placed' = Placed /\ LinesOnce'
  BY <1>1 DEF Base, LinesOnce, Placed
<1> QED BY <1>3, <1>4, <1>5, <1>6 DEF Base

\* Lines that are stretches of those before, which hold the turns of theirs.
LEMMA PartBase ==
  ASSUME Base, GInv', Plain \/ \E ds : Departs(ds), UNCHANGED <<msgs, mapping, live>>,
         NEW d, line' \in Seq(Seq(Placed')), Stretches(line', line, d),
         \A m \in DOMAIN msgs : /\ place'[m] = "creating" => place[m] = "creating"
                                /\ place'[m] \in {"loading", "turn", "ending"} =>
                                     place[m] \in {"loading", "turn", "ending"},
         pending' \in [Keys -> Nat], Pends', Replies'
  PROVE  Base'
<1>0. UNCHANGED <<msgs, sessions, saved, owner, live>>
  BY DEF mapping
<1>1. Values'
  BY <1>0, ValuesKept DEF Base
<1>2. Mappings' /\ Locks'
  BY <1>0 DEF Base, Mappings, Locks
<1>3. LinesOnce'
  <2>1. PICK X, L, Y, K : X = Placed /\ L = line /\ Y = Placed' /\ K = line'
    OBVIOUS
  <2>2. L \in Lines(X) /\ K \in Seq(Seq(Y)) /\ Stretches(K, L, d)
    BY <2>1 DEF Base, LinesOnce
  <2>4. K \in Lines(Y)
    BY <2>2, LinesPart
  <2> QED BY <2>1, <2>4 DEF LinesOnce
<1>4. Len(line') = Len(line) /\ \A o \in 1..Len(line) : \A i \in 1..Len(line'[o]) :
        i + d[o] \in 1..Len(line[o]) /\ line'[o][i] = line[o][i + d[o]]
  BY DEF Stretches
<1>5. Held'
  BY <1>0, <1>4 DEF Base, Held
<1>6. Keyed'
  <2> SUFFICES ASSUME NEW s \in DOMAIN live, live[s] # 0, NEW i \in 1..Len(line'[live[s]])
               PROVE  msgs[line'[live[s]][i]].key = owner[s]
    BY <1>0 DEF Keyed
  <2>1. live[s] \in 1..Len(line)
    BY LineFacts
  <2>2. PICK j : j = i + d[live[s]]
    OBVIOUS
  <2>3. j \in 1..Len(line[live[s]]) /\ line'[live[s]][i] = line[live[s]][j]
    BY <1>4, <2>1, <2>2
  <2> QED BY <2>3 DEF Base, Keyed
<1> QED BY <1>1, <1>2, <1>3, <1>5, <1>6 DEF Base

\* The end of a turn leaves stretches of the lines.
LEMMA EndLines ==
  ASSUME Base, NEW m \in DOMAIN msgs, TurnEnds(m)
  PROVE  line' \in Seq(Seq(Placed')) /\ \E d : Stretches(line', line, d)
<1>0. /\ place[m] \in {"turn", "ending"} /\ Runs(m) /\ Plain /\ UNCHANGED <<msgs, mapping, live, requests>>
      /\ place' = [place EXCEPT ![m] = "over"] /\ "over" \in Places /\ Shapes
      /\ line' = [o \in DOMAIN line |->
           IF line[o] # <<>> /\ Head(line[o]) = m THEN Tail(line[o]) ELSE line[o]]
  BY DEF TurnEnds, Base, GInv, Places
<1>1. place'[m] = "over" /\ \A n \in DOMAIN msgs : n # m => place'[n] = place[n]
  BY <1>0, PlaceTyped
<1>2. Placed' = Placed \ {m}
  BY <1>0, <1>1 DEF Placed
<1>3. PICK p \in 1..Len(line) : line[p] # <<>> /\ line[p][1] = m /\ 1 \in 1..Len(line[p])
  <2>1. PICK p \in DOMAIN line : line[p] # <<>> /\ Head(line[p]) = m
    BY <1>0 DEF Runs
  <2>2. p \in 1..Len(line) /\ line[p] \in Seq(Placed)
    BY <2>1, LineFacts
  <2> QED BY <2>1, <2>2
<1> DEFINE d == [o \in 1..Len(line) |-> IF o = p THEN 1 ELSE 0]
<1>5. ASSUME NEW o \in 1..Len(line)
      PROVE  /\ line'[o] \in Seq(Placed') /\ d[o] \in Nat
             /\ \A i \in 1..Len(line'[o]) :
                  i + d[o] \in 1..Len(line[o]) /\ line'[o][i] = line[o][i + d[o]]
  <2>1. line[o] \in Seq(Placed) /\ Len(line[o]) \in Nat /\ DOMAIN line = 1..Len(line)
    BY LineFacts
  <2>2. \A j \in 1..Len(line[o]) : line[o][j] = m => o = p /\ j = 1
    BY <1>3 DEF Base, LinesOnce, Lines
  <2>3. CASE o = p
    <3>1. line'[o] = Tail(line[o]) /\ d[o] = 1
      BY <1>0, <1>3, <2>1, <2>3
    <3>2. /\ Tail(line[o]) \in Seq(Placed) /\ Len(Tail(line[o])) = Len(line[o]) - 1
          /\ \A i \in 1..Len(Tail(line[o])) : i + 1 \in 1..Len(line[o]) /\ Tail(line[o])[i] = line[o][i + 1]
      BY <1>3, <2>1, <2>3
    <3>3. \A i \in 1..Len(line'[o]) : line'[o][i] \in Placed /\ line'[o][i] # m
      <4> TAKE i \in 1..Len(line'[o])
      <4>1. PICK j : j = i + 1
        OBVIOUS
      <4>2. j # 1 /\ j \in 1..Len(line[o]) /\ line'[o][i] = line[o][j]
        BY <3>1, <3>2, <4>1
      <4> QED BY <2>2, <4>2, LineFacts
    <3>4. line'[o] \in Seq(Placed')
      <4>1. Len(line'[o]) \in Nat /\ line'[o] \in Seq(Placed)
        BY <1>3, <2>1, <2>3, <3>1, <3>2
      <4>2. \A i \in 1..Len(line'[o]) : line'[o][i] \in Placed'
        BY <1>2, <3>3
      <4> QED BY <4>1, <4>2
    <3> QED BY <3>1, <3>2, <3>4
  <2>4. CASE o # p
    <3>1. line'[o] = line[o] /\ d[o] = 0
      <4>1. ~(line[o] # <<>> /\ Head(line[o]) = m)
        <5> SUFFICES ASSUME line[o] # <<>>, Head(line[o]) = m PROVE FALSE
          OBVIOUS
        <5>1. 1 \in 1..Len(line[o]) /\ line[o][1] = m
          BY <2>1
        <5> QED BY <2>2, <2>4, <5>1
      <4> QED BY <1>0, <2>1, <2>4, <4>1
    <3>2. \A i \in 1..Len(line[o]) : line[o][i] \in Placed' /\ i + 0 = i
      BY <1>2, <2>2, <2>4, LineFacts
    <3>3. line[o] \in Seq(Placed')
      BY <2>1, <3>2
    <3> QED BY <3>1, <3>2, <3>3
  <2> QED BY <2>3, <2>4
<1>4. line' \in Seq(Seq(Placed')) /\ Stretches(line', line, d)
  <2>1. line' = [o \in 1..Len(line) |-> line'[o]] /\ Len(line) \in Nat
    BY <1>0, LineFacts
  <2>2. line' \in Seq(Seq(Placed')) /\ Len(line') = Len(line)
    <3> HIDE DEF d
    <3> QED BY <1>5, <2>1
  <2> HIDE DEF d
  <2> QED BY <1>5, <2>2 DEF Stretches
<1> HIDE DEF d
<1> QED BY <1>4

\* The end of a turn keeps Base.
LEMMA EndBase ==
  ASSUME Base, GInv', NEW m \in DOMAIN msgs, TurnEnds(m)
  PROVE  Base'
<1>0. /\ Plain /\ UNCHANGED <<msgs, mapping, live, requests>> /\ Shapes
      /\ place' = [place EXCEPT ![m] = "over"] /\ "over" \in Places
  BY DEF TurnEnds, Base, GInv, Places
<1>1. place'[m] = "over" /\ \A n \in DOMAIN msgs : n # m => place'[n] = place[n]
  BY <1>0, PlaceTyped
<1>2. PICK d : line' \in Seq(Seq(Placed')) /\ Stretches(line', line, d)
  BY EndLines
<1>3. Pends' /\ Replies' /\ pending' \in [Keys -> Nat]
  BY <1>0, RequestsKept
<1>4. \A n \in DOMAIN msgs : /\ place'[n] = "creating" => place[n] = "creating"
                             /\ place'[n] \in {"loading", "turn", "ending"} =>
                                  place[n] \in {"loading", "turn", "ending"}
  BY <1>1
<1> QED BY <1>0, <1>2, <1>3, <1>4, PartBase

\* The turn that runs is cancelled, and those behind it leave the line.
LEMMA CancelLines ==
  ASSUME Base, NEW s \in DOMAIN live, Cancel(s)
  PROVE  /\ line' \in Seq(Seq(Placed')) /\ \E d : Stretches(line', line, d)
         /\ \A m \in DOMAIN msgs : \/ place'[m] \in {place[m], "stuck"}
                                   \/ place[m] \in {"turn", "ending"} /\ place'[m] = "ending"
<1> DEFINE p == live[s]
           h == Head(line[p])
<1>0. /\ p # 0 /\ line[p] # <<>> /\ UNCHANGED msgs
      /\ place' = [m \in DOMAIN place |->
           IF m = h THEN "ending" ELSE IF m \in ToSet(line[p]) THEN "stuck" ELSE place[m]]
      /\ line' = [line EXCEPT ![p] = <<h>>]
      /\ Shapes /\ Values
  BY DEF Cancel, Base, GInv
<1>1. /\ p \in 1..Len(line) /\ line[p] \in Seq(Placed) /\ Len(line[p]) \in Nat /\ Len(line) \in Nat
      /\ DOMAIN line = 1..Len(line) /\ DOMAIN line[p] = 1..Len(line[p])
  BY <1>0, LineFacts
<1>2. h = line[p][1] /\ 1 \in 1..Len(line[p]) /\ h \in Placed
  BY <1>0, <1>1, LineFacts
<1> HIDE DEF h, p
<1>3. DOMAIN msgs = DOMAIN place
  BY <1>0, BaseFacts
<1>4. \A m \in DOMAIN msgs : m \in ToSet(line[p]) => place[m] \in {"turn", "ending"}
  <2>1. \A i \in 1..Len(line[p]) : line[p][i] \in Placed
    BY <1>1, LineFacts
  <2> QED BY <1>1, <2>1 DEF ToSet, Placed
<1>5. \A m \in Placed : m = h \/ m \notin ToSet(line[p]) => m \in Placed'
  BY <1>0, <1>3 DEF Placed
<1>6. ASSUME NEW o \in 1..Len(line)
      PROVE  /\ line'[o] \in Seq(Placed')
             /\ \A i \in 1..Len(line'[o]) : i \in 1..Len(line[o]) /\ line'[o][i] = line[o][i]
  <2>1. CASE o = p
    <3>1. line'[o] = <<h>> /\ h \in Placed'
      BY <1>0, <1>1, <1>2, <1>5, <2>1
    <3> QED BY <1>2, <2>1, <3>1
  <2>2. CASE o # p
    <3>1. line'[o] = line[o] /\ line[o] \in Seq(Placed) /\ Len(line[o]) \in Nat
      BY <1>0, <1>1, <2>2, LineFacts
    <3>2. ASSUME NEW i \in 1..Len(line[o]) PROVE line[o][i] \in Placed'
      <4>1. line[o][i] \in Placed
        BY LineFacts
      <4>2. \A j \in 1..Len(line[p]) : line[o][i] # line[p][j]
        BY <1>1, <2>2 DEF Base, LinesOnce, Lines
      <4>3. line[o][i] \notin ToSet(line[p])
        BY <1>1, <4>2 DEF ToSet
      <4> QED BY <1>5, <4>1, <4>3
    <3>3. line[o] \in Seq(Placed')
      BY <3>1, <3>2
    <3> QED BY <3>1, <3>3
  <2> QED BY <2>1, <2>2
<1> DEFINE d == [o \in 1..Len(line) |-> 0]
<1>7. line' \in Seq(Seq(Placed')) /\ Stretches(line', line, d)
  <2>1. line' = [o \in 1..Len(line) |-> line'[o]]
    BY <1>0, <1>1
  <2>2. line' \in Seq(Seq(Placed')) /\ Len(line') = Len(line)
    BY <1>1, <1>6, <2>1
  <2>3. ASSUME NEW o \in 1..Len(line), NEW i \in 1..Len(line'[o])
        PROVE  i + d[o] \in 1..Len(line[o]) /\ line'[o][i] = line[o][i + d[o]]
    <3>1. i \in 1..Len(line[o]) /\ line'[o][i] = line[o][i] /\ d[o] = 0 /\ Len(line[o]) \in Nat
      BY <1>6, LineFacts
    <3>2. i + 0 = i
      BY <3>1
    <3> QED BY <3>1, <3>2
  <2> QED BY <2>2, <2>3 DEF Stretches
<1> HIDE DEF d
<1>8. \A m \in DOMAIN msgs : \/ place'[m] \in {place[m], "stuck"}
                             \/ place[m] \in {"turn", "ending"} /\ place'[m] = "ending"
  <2>1. place[h] \in {"turn", "ending"}
    BY <1>2 DEF Placed
  <2>2. \A m \in DOMAIN msgs :
          place'[m] = IF m = h THEN "ending" ELSE IF m \in ToSet(line[p]) THEN "stuck" ELSE place[m]
    BY <1>0, <1>3
  <2> QED BY <2>1, <2>2
<1>9. \E e : Stretches(line', line, e)
  BY <1>7
<1> QED BY <1>7, <1>8, <1>9

\* So does session/cancel, which drops what waits.
LEMMA CancelBase ==
  ASSUME Base, GInv', NEW s \in DOMAIN live, Cancel(s)
  PROVE  Base'
<1> DEFINE h == Head(line[live[s]])
<1>0. /\ UNCHANGED <<msgs, mapping, live, pending>> /\ \E ds : Departs(ds)
      /\ asks' = [a \in DOMAIN asks |->
           IF asks[a].turn # h \/ asks[a].state = "over" THEN asks[a]
           ELSE [asks[a] EXCEPT !.state = IF @ = "sending" THEN "over" ELSE "cancelled"]]
      /\ Shapes /\ Values /\ Pends /\ Replies
  BY DEF Cancel, Base, GInv
<1> HIDE DEF h
<1>1. PICK d : line' \in Seq(Seq(Placed')) /\ Stretches(line', line, d)
  BY CancelLines
<1>2. \A m \in DOMAIN msgs : /\ place'[m] = "creating" => place[m] = "creating"
                             /\ place'[m] \in {"loading", "turn", "ending"} =>
                                  place[m] \in {"loading", "turn", "ending"}
  BY CancelLines
<1>3. /\ DOMAIN asks' = DOMAIN asks /\ Len(asks') = Len(asks)
      /\ \A a \in DOMAIN asks : /\ asks'[a].turn = asks[a].turn
                                /\ asks[a].state \in {"waiting", "cancelled"} =>
                                     asks'[a].state \in {"waiting", "cancelled"}
  <2>1. \A r \in Request : /\ [r EXCEPT !.state = "over"].turn = r.turn
                           /\ [r EXCEPT !.state = "cancelled"].turn = r.turn
                           /\ [r EXCEPT !.state = "cancelled"].state = "cancelled"
    BY DEF Request
  <2>2. DOMAIN asks' = DOMAIN asks /\ Len(asks') = Len(asks) /\ \A a \in DOMAIN asks : asks[a] \in Request
    <3>1. asks \in Seq(Request) /\ DOMAIN asks' = DOMAIN asks
      BY <1>0 DEF Shapes
    <3>2. \A a \in DOMAIN asks : asks[a] \in Request
      BY <1>0, MembersTyped
    <3>3. Len(asks') = Len(asks)
      BY <1>0, <3>1
    <3> QED BY <3>1, <3>2, <3>3
  <2>3. ASSUME NEW a \in DOMAIN asks
        PROVE  \/ asks'[a] = asks[a]
               \/ asks[a].state = "sending" /\ asks'[a] = [asks[a] EXCEPT !.state = "over"]
               \/ asks[a].state # "sending" /\ asks'[a] = [asks[a] EXCEPT !.state = "cancelled"]
    BY <1>0
  <2>4. ASSUME NEW a \in DOMAIN asks
        PROVE  /\ asks'[a].turn = asks[a].turn
               /\ asks[a].state \in {"waiting", "cancelled"} => asks'[a].state \in {"waiting", "cancelled"}
    <3>1. /\ [asks[a] EXCEPT !.state = "over"].turn = asks[a].turn
          /\ [asks[a] EXCEPT !.state = "cancelled"].turn = asks[a].turn
          /\ [asks[a] EXCEPT !.state = "cancelled"].state = "cancelled"
      BY <2>1, <2>2
    <3> QED BY <2>3, <3>1
  <2> QED BY <2>2, <2>4
<1>4. Pends' /\ Replies' /\ pending' \in [Keys -> Nat]
  <2>1. Pends'
    BY <1>0, <1>3 DEF Pends
  <2>2. Replies'
    BY <1>0, <1>3 DEF Replies
  <2> QED BY <1>0, <2>1, <2>2 DEF Values
<1> QED BY <1>0, <1>1, <1>2, <1>4, PartBase

\* The kernel is started again: there are no objects and no questions.
LEMMA RestartBase ==
  ASSUME Base, GInv', Restart
  PROVE  Base'
<1>0. /\ sessions' = saved /\ saved' = saved /\ msgs' = msgs
      /\ live' = [s \in DOMAIN owner' |-> 0] /\ line' = [o \in DOMAIN line |-> <<>>]
      /\ place' = [m \in DOMAIN place |-> IF place[m] = "over" THEN "over" ELSE "lost"]
      /\ asks' = [a \in DOMAIN asks |-> [asks[a] EXCEPT !.state = "over"]]
      /\ pending' = [k \in Keys |-> 0] /\ (\E ds : Departs(ds))
      /\ Shapes /\ Values /\ owner \in Seq(Keys) /\ asks \in Seq(Request)
  BY DEF Restart, Base, GInv, Values, Shapes
<1>1. owner' \in Seq(Keys) /\ \A s \in DOMAIN owner : s \in DOMAIN owner' /\ owner'[s] = owner[s]
  <2>1. CASE owner' = owner
    BY <1>0, <2>1
  <2>2. CASE owner' # owner
    <3>1. PICK ks \in SUBSET {k \in Keys : Locked(k)} : owner' = owner \o SetToSeq(ks)
      BY <2>2 DEF Restart
    <3>2. SetToSeq(ks) \in Seq(Keys)
      BY RowOfKeys
    <3> QED BY <1>0, <3>1, <3>2, ConcatProperties
  <2> QED BY <2>1, <2>2
<1>2. live' \in Seq(Nat) /\ Len(live') = Len(owner') /\ DOMAIN live' = DOMAIN owner' /\ \A s \in DOMAIN live' : live'[s] = 0
  BY <1>0, <1>1
<1>3. Values'
  <2>1. departs' \subseteq Departures /\ spent' \in 0..MaxDepartures
    BY <1>0, DepartsTyped
  <2> QED BY <1>0, <1>1, <1>2, <2>1 DEF Values
<1>4. Mappings'
  BY <1>0, <1>1 DEF Base, Mappings
<1>5. Held' /\ Keyed' /\ Pends'
  BY <1>0, <1>2 DEF Held, Keyed, Pends
<1>6. \A m \in DOMAIN msgs : place'[m] \in {"over", "lost"}
  BY <1>0, BaseFacts
<1>7. LinesOnce' /\ Locks'
  <2>1. Len(line) \in Nat /\ DOMAIN line = 1..Len(line)
    BY LineFacts
  <2>2. <<>> \in Seq(Placed') /\ Len(<<>>) = 0 /\ 1..0 = {}
    OBVIOUS
  <2>3. line' \in Seq(Seq(Placed')) /\ \A o \in 1..Len(line') : line'[o] = <<>>
    BY <1>0, <2>1, <2>2
  <2>4. LinesOnce'
    BY <2>2, <2>3 DEF LinesOnce, Lines
  <2>5. Locks'
    BY <1>0, <1>6 DEF Locks
  <2> QED BY <2>4, <2>5
<1>8. Len(asks') = Len(asks)
  BY <1>0
<1>9. Replies'
  BY <1>0, <1>8 DEF Base, Replies
<1> QED BY <1>3, <1>4, <1>5, <1>7, <1>9 DEF Base

\* Base holds at first.
LEMMA InitBase == Init => Base
<1> SUFFICES ASSUME Init PROVE Base
  OBVIOUS
<1>0. /\ departs = {} /\ spent = 0 /\ msgs = <<>> /\ place = <<>> /\ owner = <<>>
      /\ sessions = [k \in Keys |-> 0] /\ saved = sessions /\ live = <<>> /\ line = <<>>
      /\ asks = <<>> /\ pending = [k \in Keys |-> 0]
  BY DEF Init
<1>1. GInv
  BY InitSound
<1>2. Values
  BY <1>0, GatewayAssumption DEF Values
<1>3. Mappings /\ Held /\ Keyed /\ Locks /\ Pends /\ Replies
  BY <1>0 DEF Mappings, Held, Keyed, Locks, Pends, Replies
<1>4. LinesOnce
  <2>1. line \in Seq(Seq(Placed)) /\ Len(line) = 0 /\ 1..0 = {}
    BY <1>0
  <2> QED BY <2>1 DEF LinesOnce, Lines
<1> QED BY <1>1, <1>2, <1>3, <1>4 DEF Base

\* Every step keeps Base.
LEMMA StepBase == Base /\ [Next]_vars => Base'
<1> SUFFICES ASSUME Base, [Next]_vars PROVE Base'
  OBVIOUS
<1>0. GInv'
  BY StepSound DEF Base
<1>1. CASE UNCHANGED vars
  <2>1. UNCHANGED <<departs, spent, channel, mapping, objects, requests, msgs>>
    BY <1>1 DEF vars, channel
  <2> QED BY <1>0, <2>1, RequestsKept, RequestBase DEF Plain
<1>2. CASE Next
  BY <1>0, <1>2, UserBase, HandleBase, CreatedBase, FailsBase, LoadedBase, AskBase, EndBase,
     CancelBase, EvictBase, RestartBase DEF Next
<1> QED BY <1>1, <1>2

\* Base has the domains of the variables.
LEMMA BaseTyped == Base => TypeOK
<1> SUFFICES ASSUME Base PROVE TypeOK
  OBVIOUS
<1>0. Shapes /\ Values /\ Mappings /\ Pends /\ Replies
  BY DEF Base, GInv
<1>1. \A o \in DOMAIN line : \A m \in ToSet(line[o]) : place[m] \in {"turn", "ending"}
  <2>1. ASSUME NEW o \in 1..Len(line), NEW i \in 1..Len(line[o]) PROVE place[line[o][i]] \in {"turn", "ending"}
    BY LineFacts DEF Placed
  <2> QED BY <2>1, LineFacts DEF ToSet
<1>2. \A k \in Keys : {sessions[k], saved[k]} \subseteq {0} \cup {s \in DOMAIN owner : owner[s] = k}
  BY <1>0 DEF Mappings
<1>3. DOMAIN live = DOMAIN owner /\ \A s \in DOMAIN live : live[s] \in 0..Len(line)
  <2>1. DOMAIN live = DOMAIN owner
    BY <1>0, BaseFacts
  <2>2. Len(line) \in Nat /\ \A s \in DOMAIN live : live[s] = 0 \/ live[s] \in 1..Len(line)
    BY LineFacts
  <2> QED BY <2>1, <2>2
<1>4. \A m \in DOMAIN msgs : /\ msgs[m].key \in Keys /\ msgs[m].to \in 0..Len(asks)
                             /\ (msgs[m].is = "reply") = (msgs[m].to # 0)
  BY <1>0, BaseFacts DEF Replies
<1>5. DOMAIN place = DOMAIN msgs /\ \A m \in DOMAIN place : place[m] \in Places
  BY <1>0, BaseFacts
<1>6. \A k \in Keys : pending[k] # 0 =>
        pending[k] \in DOMAIN asks /\ KeyOf(pending[k]) = k /\ asks[pending[k]].state \in {"waiting", "cancelled"}
  BY <1>0 DEF Pends, KeyOf
<1>7. departs \subseteq Departures /\ spent \in 0..MaxDepartures
  BY <1>0 DEF Values
<1> QED BY <1>1, <1>2, <1>3, <1>4, <1>5, <1>6, <1>7 DEF TypeOK

-----------------------------------------------------------------------------
(* The variables keep their domains, and what hangs together stays so: a   *)
(* key's session was created for it, an object's turns are turns, and what *)
(* is pending for a key is a request of the key that waits, or whose turn  *)
(* was cancelled a moment ago (GatewayAdapter._pending_permissions).       *)
THEOREM GatewayTyped == Spec => []TypeOK
BY InitBase, StepBase, BaseTyped, PTL DEF Spec

-----------------------------------------------------------------------------
(* The order of a conversation                                             *)

\* The places of a message, as it goes from one to the next.
Before(p, q) ==
  \/ p = "sent" /\ q \in {"waiting", "creating", "loading", "turn", "ending"}
  \/ p = "waiting" /\ q \in {"creating", "loading", "turn", "ending"}
  \/ p \in {"creating", "loading"} /\ q \in {"turn", "ending"}

\* A message does not overtake one of its key.
Order ==
  \A m, n \in DOMAIN msgs :
    msgs[m].key = msgs[n].key /\ Before(place[m], place[n]) => n < m

\* A session is loaded for one message, and has no object meanwhile.
LoadAlone ==
  \A m \in DOMAIN msgs : place[m] = "loading" =>
    /\ live[sessions[msgs[m].key]] = 0
    /\ \A n \in DOMAIN msgs : place[n] = "loading" /\ msgs[m].key = msgs[n].key => m = n

\* Each line has its messages in the order in which they came.
Rising == \A o \in 1..Len(line) : \A i, j \in 1..Len(line[o]) : i < j => line[o][i] < line[o][j]

\* No two loads crossed.
Uncrossed == Tolerates(AllDepartures \ {"crossed"})

Ordered == Order /\ LoadAlone /\ Rising

LInv == Base /\ (Uncrossed => Ordered)

\* Messages leave the conversation, and objects sessions that are not loaded.
LEMMA Leave ==
  ASSUME Order, LoadAlone, UNCHANGED <<msgs, sessions>>,
         \A x \in DOMAIN msgs : \/ place'[x] \in {place[x], "over", "lost", "stuck"}
                                \/ place[x] \in {"turn", "ending"} /\ place'[x] = "ending",
         \A s : live[s] = 0 => live'[s] = 0
  PROVE  Order' /\ LoadAlone'
<1>1. Order'
  <2> SUFFICES ASSUME NEW m \in DOMAIN msgs, NEW n \in DOMAIN msgs, msgs[m].key = msgs[n].key,
                      Before(place'[m], place'[n])
               PROVE  n < m
    BY DEF Order
  <2>1. Before(place[m], place[n])
    BY DEF Before
  <2> QED BY <2>1 DEF Order
<1>2. LoadAlone'
  BY DEF LoadAlone
<1> QED BY <1>1, <1>2

\* A message goes on, behind those of its key that are ahead and before the others.
LEMMA Advance ==
  ASSUME Base, Order, UNCHANGED msgs, NEW m \in DOMAIN msgs,
         NEW p \in {"waiting", "creating", "loading", "turn"},
         place'[m] = p, \A x \in DOMAIN msgs : x # m => place'[x] = place[x],
         \A x \in DOMAIN msgs : x # m /\ msgs[x].key = msgs[m].key =>
            /\ Before(place[x], p) => m < x
            /\ Before(p, place[x]) => x < m
  PROVE  Order'
<1> SUFFICES ASSUME NEW a \in DOMAIN msgs, NEW b \in DOMAIN msgs, msgs[a].key = msgs[b].key,
                    Before(place'[a], place'[b])
             PROVE  b < a
  BY DEF Order
<1>1. CASE a = m
  <2>1. b # m
    BY <1>1 DEF Before
  <2> QED BY <1>1, <2>1
<1>2. CASE a # m /\ b = m
  BY <1>2
<1>3. CASE a # m /\ b # m
  BY <1>3 DEF Order
<1> QED BY <1>1, <1>2, <1>3

\* Stretches of rising lines rise.
LEMMA PartRising ==
  ASSUME Base, Rising, NEW d, line' \in Seq(Seq(Placed')), Stretches(line', line, d)
  PROVE  Rising'
<1> SUFFICES ASSUME NEW o \in 1..Len(line'), NEW i \in 1..Len(line'[o]), NEW j \in 1..Len(line'[o]), i < j
             PROVE  line'[o][i] < line'[o][j]
  BY DEF Rising
<1>1. o \in 1..Len(line) /\ i + d[o] \in 1..Len(line[o]) /\ line'[o][i] = line[o][i + d[o]]
      /\ j + d[o] \in 1..Len(line[o]) /\ line'[o][j] = line[o][j + d[o]] /\ d[o] \in Nat
  BY DEF Stretches
<1>2. PICK c \in Nat : c = d[o]
  BY <1>1
<1>3. i \in Nat /\ j \in Nat
  BY <1>1
<1>4. PICK a, b : a = i + c /\ b = j + c
  OBVIOUS
<1>5. a < b
  BY <1>2, <1>3, <1>4
<1>6. a \in 1..Len(line[o]) /\ b \in 1..Len(line[o]) /\ line'[o][i] = line[o][a] /\ line'[o][j] = line[o][b]
  BY <1>1, <1>2, <1>4
<1> QED BY <1>1, <1>5, <1>6 DEF Rising

\* Lines that stay rise.
LEMMA SameRising ==
  ASSUME Rising, line' = line PROVE Rising'
BY DEF Rising

\* A turn that joins a line comes after those that are in it.
LEMMA JoinRising ==
  ASSUME Base, Rising, NEW m \in DOMAIN msgs, NEW o \in 1..Len(line),
         line' = [line EXCEPT ![o] = Append(@, m)],
         \A i \in 1..Len(line[o]) : line[o][i] < m
  PROVE  Rising'
<1>1. Len(line) \in Nat /\ DOMAIN line = 1..Len(line) /\ line[o] \in Seq(Placed) /\ Len(line[o]) \in Nat
      /\ line \in Seq(Seq(Placed))
  BY LineFacts, LinesFacts DEF Base, LinesOnce
<1>2. line'[o] = Append(line[o], m) /\ Len(line') = Len(line)
      /\ \A p \in 1..Len(line) : p # o => line'[p] = line[p]
  <2>1. line \in Seq(Seq(Placed \cup {m})) /\ Append(line[o], m) \in Seq(Placed \cup {m})
    <3>1. line[o] \in Seq(Placed \cup {m}) /\ line \in Seq(Seq(Placed \cup {m}))
      BY <1>1
    <3> QED BY <3>1
  <2> QED BY <1>1, <2>1, ExceptSeq
<1>3. Len(line'[o]) = Len(line[o]) + 1 /\ line'[o][Len(line[o]) + 1] = m
      /\ \A i \in 1..Len(line[o]) : line'[o][i] = line[o][i]
  <2>1. line[o] \in Seq(Placed \cup {m})
    BY <1>1
  <2> QED BY <1>2, <2>1, AppendProperties
<1> SUFFICES ASSUME NEW p \in 1..Len(line'), NEW i \in 1..Len(line'[p]), NEW j \in 1..Len(line'[p]), i < j
             PROVE  line'[p][i] < line'[p][j]
  BY DEF Rising
<1>4. CASE p # o
  BY <1>2, <1>4 DEF Rising
<1>5. CASE p = o
  <2>1. i \in 1..Len(line[o]) /\ (j \in 1..Len(line[o]) \/ j = Len(line[o]) + 1)
    <3>1. PICK l \in Nat : l = Len(line[o])
      BY <1>1
    <3>2. i \in 1..(l + 1) /\ j \in 1..(l + 1)
      BY <1>3, <1>5, <3>1
    <3>3. i \in 1..l /\ (j \in 1..l \/ j = l + 1)
      BY <3>1, <3>2
    <3> QED BY <3>1, <3>3
  <2>2. CASE j \in 1..Len(line[o])
    BY <1>3, <1>5, <2>1, <2>2 DEF Rising
  <2>3. CASE j = Len(line[o]) + 1
    BY <1>3, <1>5, <2>1, <2>3
  <2> QED BY <2>1, <2>2, <2>3
<1> QED BY <1>4, <1>5

\* A line of one turn, or of none, is added.
LEMMA NewRising ==
  ASSUME Base, Rising, NEW m, line' = Append(line, <<>>) \/ line' = Append(line, <<m>>)
  PROVE  Rising'
<1>1. line \in Seq(Seq(Placed)) /\ Len(line) \in Nat
  BY LinesFacts DEF Base, LinesOnce
<1>2. /\ Len(line') = Len(line) + 1 /\ \A p \in 1..Len(line) : line'[p] = line[p]
      /\ line'[Len(line) + 1] \in {<<>>, <<m>>}
  <2>1. line \in Seq(Seq(Placed \cup {m}))
    BY <1>1
  <2>2. <<>> \in Seq(Placed \cup {m}) /\ <<m>> \in Seq(Placed \cup {m})
    OBVIOUS
  <2>3. PICK e : e \in {<<>>, <<m>>} /\ e \in Seq(Placed \cup {m}) /\ line' = Append(line, e)
    BY <2>2
  <2>4. Len(line') = Len(line) + 1 /\ line'[Len(line) + 1] = e /\ \A p \in 1..Len(line) : line'[p] = line[p]
    BY <2>1, <2>3, AppendProperties
  <2> QED BY <2>3, <2>4
<1>3. Len(<<>>) = 0 /\ Len(<<m>>) = 1
  OBVIOUS
<1> SUFFICES ASSUME NEW p \in 1..Len(line'), NEW i \in 1..Len(line'[p]), NEW j \in 1..Len(line'[p]), i < j
             PROVE  line'[p][i] < line'[p][j]
  BY DEF Rising
<1>4. CASE p = Len(line) + 1
  BY <1>2, <1>3, <1>4
<1>5. CASE p \in 1..Len(line)
  BY <1>2, <1>5 DEF Rising
<1>6. p = Len(line) + 1 \/ p \in 1..Len(line)
  BY <1>1, <1>2
<1> QED BY <1>4, <1>5, <1>6

\* Whose turn it is when a message gets on: the lock lets the first one in.
LEMMA FirstOfAll ==
  ASSUME Base, Order, NEW m \in DOMAIN msgs, Handle(m) \/ Enter(m),
         NEW x \in DOMAIN msgs, x # m, msgs[x].key = msgs[m].key
  PROVE  /\ place[x] = "sent" => m < x
         /\ Before(place[m], place[x]) => x < m
         /\ place'[m] \notin {"waiting", "over", "lost"} =>
              /\ place[x] = "waiting" => m < x
              /\ place[x] # "creating"
<1>0. m \in Nat /\ x \in Nat /\ Shapes
  BY BaseFacts DEF Base, GInv
<1>1. Before(place[m], place[x]) => x < m
  BY DEF Order
<1>2. x \in Of(msgs[m].key)
  BY DEF Of
<1>3. place[x] = "sent" => m < x
  <2>1. CASE Handle(m)
    <3>1. place[x] = "sent" => m <= x
      BY <1>2, <2>1 DEF Handle, At
    <3> QED BY <1>0, <3>1
  <2>2. CASE Enter(m)
    <3>1. place[m] = "waiting"
      BY <2>2 DEF Enter
    <3>2. place[x] = "sent" => Before(place[x], place[m])
      BY <3>1 DEF Before
    <3> QED BY <3>2 DEF Order
  <2> QED BY <2>1, <2>2
<1>4. ASSUME place'[m] \notin {"waiting", "over", "lost"}
      PROVE  (place[x] = "waiting" => m < x) /\ place[x] # "creating"
  <2>1. CASE Handle(m)
    <3>1. \A p \in Places : place' = [place EXCEPT ![m] = p] => place'[m] = p
      BY <1>0, PlaceTyped
    <3>2. {"waiting", "over", "lost"} \subseteq Places
      BY DEF Places
    <3>3. ~Answer(m, pending[msgs[m].key])
      BY <1>4, <3>1, <3>2 DEF Answer
    <3>4. ~(Locked(msgs[m].key) \/ At(msgs[m].key, "waiting") # {})
      BY <1>4, <2>1, <3>1, <3>2, <3>3 DEF Handle
    <3> QED BY <1>2, <3>4 DEF Locked, At
  <2>2. CASE Enter(m)
    <3>1. ~Locked(msgs[m].key) /\ \A n \in At(msgs[m].key, "waiting") : m <= n
      BY <2>2 DEF Enter
    <3>2. place[x] = "waiting" => m <= x
      BY <1>2, <3>1 DEF At
    <3> QED BY <1>0, <1>2, <3>1, <3>2 DEF Locked, At
  <2> QED BY <2>1, <2>2
<1> QED BY <1>1, <1>3, <1>4

\* A message that joins a line is later than all in it.
LEMMA HandleOrdered ==
  ASSUME Base, Ordered, Uncrossed', NEW m \in DOMAIN msgs, Handle(m) \/ Enter(m)
  PROVE  Ordered'
<1> DEFINE s == sessions[msgs[m].key]
<1>0. /\ UNCHANGED <<msgs, sessions, mapping>> /\ place[m] \in {"sent", "waiting"} /\ Order /\ LoadAlone /\ Rising
      /\ Shapes /\ Locks /\ Mappings /\ {"waiting", "over", "lost", "creating", "loading", "turn"} \subseteq Places
  BY Handles DEF mapping, Ordered, Base, GInv, Places
<1>1. CASE Answers(m) \/ Rests(m)
  <2>1. PICK p \in {"waiting", "over", "lost"} : place' = [place EXCEPT ![m] = p]
    BY <1>1 DEF Answers, Answer, Rests
  <2>2. place'[m] = p /\ \A x \in DOMAIN msgs : x # m => place'[x] = place[x]
    BY <1>0, <2>1, PlaceTyped
  <2>3. UNCHANGED <<live, line>>
    BY <1>1 DEF Answers, Answer, Rests, objects
  <2>4. Order' /\ LoadAlone'
    <3>1. CASE p # "waiting"
      BY <1>0, <2>2, <2>3, <3>1, Leave
    <3>2. CASE p = "waiting"
      <4>1. ASSUME NEW x \in DOMAIN msgs, x # m, msgs[x].key = msgs[m].key
            PROVE  (Before(place[x], p) => m < x) /\ (Before(p, place[x]) => x < m)
        <5>1. Before(place[x], p) => place[x] = "sent"
          BY <3>2 DEF Before
        <5>2. Before(p, place[x]) => Before(place[m], place[x])
          BY <1>0, <3>2 DEF Before
        <5> QED BY <1>0, <4>1, <5>1, <5>2, FirstOfAll
      <4>2. Order'
        BY <1>0, <2>2, <3>2, <4>1, Advance
      <4>3. LoadAlone'
        BY <1>0, <2>2, <2>3, <3>2 DEF LoadAlone
      <4> QED BY <4>2, <4>3
    <3> QED BY <3>1, <3>2
  <2> QED BY <1>0, <2>3, <2>4, SameRising DEF Ordered
<1>2. CASE Creates(m)
  <2>1. place'[m] = "creating" /\ (\A x \in DOMAIN msgs : x # m => place'[x] = place[x]) /\ UNCHANGED <<live, line>>
    BY <1>0, <1>2, PlaceTyped DEF Creates, objects
  <2>2. ASSUME NEW x \in DOMAIN msgs, x # m, msgs[x].key = msgs[m].key
        PROVE  (Before(place[x], "creating") => m < x) /\ (Before("creating", place[x]) => x < m)
    <3>1. Before("creating", place[x]) => Before(place[m], place[x])
      BY <1>0 DEF Before
    <3>2. Before(place[x], "creating") => place[x] \in {"sent", "waiting"}
      BY DEF Before
    <3> QED BY <1>0, <2>1, <2>2, <3>1, <3>2, FirstOfAll
  <2>3. Order'
    BY <1>0, <2>1, <2>2, Advance
  <2>4. LoadAlone'
    BY <1>0, <2>1 DEF LoadAlone
  <2> QED BY <1>0, <2>1, <2>3, <2>4, SameRising DEF Ordered
<1>3. CASE Loads(m)
  <2>1. place'[m] = "loading" /\ (\A x \in DOMAIN msgs : x # m => place'[x] = place[x]) /\ UNCHANGED <<live, line>>
    BY <1>0, <1>3, PlaceTyped DEF Loads, objects
  <2>2. ASSUME NEW x \in DOMAIN msgs, x # m, msgs[x].key = msgs[m].key
        PROVE  (Before(place[x], "loading") => m < x) /\ (Before("loading", place[x]) => x < m)
    <3>1. Before("loading", place[x]) => Before(place[m], place[x])
      BY <1>0 DEF Before
    <3>2. Before(place[x], "loading") => place[x] \in {"sent", "waiting"}
      BY DEF Before
    <3> QED BY <1>0, <2>1, <2>2, <3>1, <3>2, FirstOfAll
  <2>3. Order'
    BY <1>0, <2>1, <2>2, Advance
  <2>4. At(msgs[m].key, "loading") = {}
    BY <1>3 DEF Loads, Departs, When, Uncrossed, Tolerates
  <2>5. \A x \in DOMAIN msgs : msgs[x].key = msgs[m].key => place[x] # "loading"
    BY <2>4 DEF At, Of
  <2>6. live[s] = 0
    BY <1>3 DEF Loads
  <2>7. LoadAlone'
    BY <1>0, <2>1, <2>5, <2>6 DEF LoadAlone
  <2> QED BY <1>0, <2>1, <2>3, <2>7, SameRising DEF Ordered
<1>4. CASE Joins(m)
  <2> DEFINE o == live[s]
  <2>1. /\ place'[m] = "turn" /\ (\A x \in DOMAIN msgs : x # m => place'[x] = place[x])
        /\ s # 0 /\ o # 0 /\ live' = live /\ line' = [line EXCEPT ![o] = Append(@, m)]
    BY <1>0, <1>4, PlaceTyped DEF Joins
  <2>2. ASSUME NEW x \in DOMAIN msgs, x # m, msgs[x].key = msgs[m].key
        PROVE  (Before(place[x], "turn") => m < x) /\ (Before("turn", place[x]) => x < m)
    <3>1. ~Before("turn", place[x])
      BY DEF Before
    <3>2. Before(place[x], "turn") => place[x] \in {"sent", "waiting", "creating", "loading"}
      BY DEF Before
    <3>3. place[x] # "loading"
      BY <1>0, <2>1, <2>2 DEF LoadAlone
    <3> QED BY <1>0, <2>1, <2>2, <3>1, <3>2, <3>3, FirstOfAll
  <2>3. Order'
    BY <1>0, <2>1, <2>2, Advance
  <2>4. LoadAlone'
    BY <1>0, <2>1 DEF LoadAlone
  <2>5. s \in DOMAIN owner /\ s \in DOMAIN live /\ owner[s] = msgs[m].key
    BY <1>0, <2>1, BaseFacts DEF Base, Mappings
  <2>6. o \in 1..Len(line)
    BY <2>1, <2>5, LineFacts
  <2>7. ASSUME NEW i \in 1..Len(line[o]) PROVE line[o][i] < m
    <3>1. line[o][i] \in Placed /\ line[o][i] \in DOMAIN msgs
      BY <2>6, LineFacts
    <3>2. msgs[line[o][i]].key = msgs[m].key
      BY <2>1, <2>5 DEF Base, Keyed
    <3>3. Before(place[m], place[line[o][i]])
      BY <1>0, <3>1 DEF Placed, Before
    <3> QED BY <1>0, <3>1, <3>2, <3>3 DEF Order
  <2>8. Rising'
    BY <1>0, <2>1, <2>6, <2>7, JoinRising
  <2> QED BY <2>3, <2>4, <2>8 DEF Ordered
<1> QED BY <1>1, <1>2, <1>3, <1>4, Handles

\* A new message is later than all that came.
LEMMA SendOrdered ==
  ASSUME Base, Ordered, NEW k \in Keys, NEW is \in {"prompt", "command", "reply"}, NEW to \in Nat,
         Send(k, is, to)
  PROVE  Ordered'
<1> DEFINE n == Len(msgs) + 1
           g == [key |-> k, is |-> is, to |-> to]
<1>0. /\ Shapes /\ msgs' = Append(msgs, g) /\ place' = Append(place, "sent")
      /\ UNCHANGED <<sessions, live, line>> /\ "sent" \in Places /\ Order /\ LoadAlone /\ Rising
      /\ msgs \in Seq(Message) /\ place \in Seq(Places) /\ Len(place) = Len(msgs)
  BY DEF Base, GInv, Send, mapping, objects, Shapes, Places, Ordered
<1>1. g \in Message /\ g.key = k
  BY DEF Message
<1> HIDE DEF g
<1>2. /\ DOMAIN msgs' = DOMAIN msgs \cup {n} /\ msgs'[n] = g /\ place'[n] = "sent"
      /\ \A m \in DOMAIN msgs : msgs'[m] = msgs[m] /\ place'[m] = place[m] /\ m < n
  BY <1>0, <1>1
<1> HIDE DEF n
<1>3. Order'
  <2> SUFFICES ASSUME NEW a \in DOMAIN msgs', NEW b \in DOMAIN msgs', msgs'[a].key = msgs'[b].key,
                      Before(place'[a], place'[b])
               PROVE  b < a
    BY DEF Order
  <2>1. b # n
    BY <1>2 DEF Before
  <2>2. CASE a = n
    BY <1>2, <2>1, <2>2
  <2>3. CASE a # n
    BY <1>0, <1>2, <2>1, <2>3 DEF Order
  <2> QED BY <2>2, <2>3
<1>4. LoadAlone'
  BY <1>0, <1>2 DEF LoadAlone
<1> QED BY <1>0, <1>3, <1>4, SameRising DEF Ordered

\* So is what a user says.
LEMMA UserOrdered ==
  ASSUME Base, Ordered,
         \/ \E k \in Keys, is \in {"prompt", "command"} : Text(k, is)
         \/ \E a \in DOMAIN asks : Reply(a)
  PROVE  Ordered'
<1>1. ASSUME NEW k \in Keys, NEW is \in {"prompt", "command"}, Text(k, is) PROVE Ordered'
  BY <1>1, SendOrdered DEF Text
<1>2. ASSUME NEW a \in DOMAIN asks, Reply(a) PROVE Ordered'
  <2>1. Send(KeyOf(a), "reply", a) /\ KeyOf(a) \in Keys /\ a \in Nat
    BY <1>2, BaseFacts DEF Reply, Base, GInv
  <2> QED BY <2>1, SendOrdered
<1> QED BY <1>1, <1>2

\* A session is made, and the message that made it has its turn, or leaves.
LEMMA MadeOrdered ==
  ASSUME Base, Ordered, NEW m \in DOMAIN msgs, Created(m) \/ PersistFails(m)
  PROVE  Ordered'
<1> DEFINE k == msgs[m].key
<1>0. /\ place[m] = "creating" /\ UNCHANGED msgs /\ Order /\ LoadAlone /\ Rising /\ Locks /\ Mappings
      /\ sessions' = [sessions EXCEPT ![k] = Len(owner) + 1] /\ live' = Append(live, Len(line) + 1)
      /\ line' = Append(line, <<>>) \/ line' = Append(line, <<m>>)
      /\ Shapes /\ Values /\ {"turn", "over", "lost"} \subseteq Places
  BY DEF Created, PersistFails, Ordered, Base, GInv, Places
<1>1. PICK p \in {"turn", "over", "lost"} : place' = [place EXCEPT ![m] = p]
  BY DEF Created, PersistFails
<1>2. /\ place'[m] = p /\ \A x \in DOMAIN msgs : x # m => place'[x] = place[x]
  BY <1>0, <1>1, PlaceTyped
<1>3. \A x \in DOMAIN msgs : x # m /\ msgs[x].key = k => place[x] \notin {"creating", "loading", "turn", "ending"}
  BY <1>0 DEF Locks
<1>4. Order'
  <2>1. CASE p = "turn"
    <3>1. ASSUME NEW x \in DOMAIN msgs, x # m, msgs[x].key = k
          PROVE  (Before(place[x], "turn") => m < x) /\ (Before("turn", place[x]) => x < m)
      <4>1. ~Before("turn", place[x])
        BY DEF Before
      <4>2. Before(place[x], "turn") => Before(place[x], place[m])
        BY <1>0, <1>3, <3>1 DEF Before
      <4> QED BY <1>0, <3>1, <4>1, <4>2 DEF Order
    <3> QED BY <1>0, <1>2, <2>1, <3>1, Advance
  <2>2. CASE p # "turn"
    <3> SUFFICES ASSUME NEW a \in DOMAIN msgs, NEW b \in DOMAIN msgs, msgs[a].key = msgs[b].key,
                        Before(place'[a], place'[b])
                 PROVE  b < a
      BY <1>0 DEF Order
    <3>1. a # m /\ b # m
      BY <1>2, <2>2 DEF Before
    <3> QED BY <1>0, <1>2, <3>1 DEF Order
  <2> QED BY <2>1, <2>2
<1>5. LoadAlone'
  <2>1. ASSUME NEW x \in DOMAIN msgs, place'[x] = "loading"
        PROVE  /\ place[x] = "loading" /\ live'[sessions'[msgs[x].key]] = 0
    <3>1. place[x] = "loading"
      BY <1>2, <2>1
    <3>2. msgs[x].key # k /\ sessions[msgs[x].key] # 0 /\ msgs[x].key \in Keys /\ k \in Keys
      BY <1>0, <3>1, BaseFacts DEF Locks
    <3>3. sessions'[msgs[x].key] = sessions[msgs[x].key]
      BY <1>0, <3>2 DEF Shapes
    <3>4. sessions[msgs[x].key] \in DOMAIN live /\ live \in Seq(Nat) /\ Len(line) + 1 \in Nat
      <4>1. Len(line) \in Nat
        BY LineFacts
      <4>2. sessions[msgs[x].key] \in DOMAIN owner /\ DOMAIN owner = DOMAIN live
        BY <1>0, <3>2, BaseFacts DEF Mappings
      <4>3. live \in Seq(Nat)
        BY <1>0 DEF Values
      <4> QED BY <4>1, <4>2, <4>3
    <3>5. live'[sessions[msgs[x].key]] = live[sessions[msgs[x].key]]
      BY <1>0, <3>4, AppendProperties
    <3> QED BY <1>0, <3>1, <3>3, <3>5 DEF LoadAlone
  <2> QED BY <1>0, <2>1 DEF LoadAlone
<1>6. Rising'
  BY <1>0, NewRising
<1> QED BY <1>4, <1>5, <1>6 DEF Ordered

\* The object that is loaded has an empty line, for nobody else loads.
LEMMA LoadedOrdered ==
  ASSUME Base, Ordered, NEW m \in DOMAIN msgs, Loaded(m)
  PROVE  Ordered'
<1> DEFINE s == sessions[msgs[m].key]
<1>0. /\ place[m] = "loading" /\ UNCHANGED <<msgs, sessions>> /\ Order /\ LoadAlone /\ Rising /\ Locks /\ Mappings
      /\ live' = [live EXCEPT ![s] = Len(line) + 1] /\ line' = Append(line, <<m>>)
      /\ place' = [place EXCEPT ![m] = "turn"] /\ Shapes /\ Values /\ "turn" \in Places
  BY DEF Loaded, mapping, Ordered, Base, GInv, Places
<1>1. /\ place'[m] = "turn" /\ \A x \in DOMAIN msgs : x # m => place'[x] = place[x]
  BY <1>0, PlaceTyped
<1>2. Order'
  <2>1. ASSUME NEW x \in DOMAIN msgs, x # m, msgs[x].key = msgs[m].key
        PROVE  (Before(place[x], "turn") => m < x) /\ (Before("turn", place[x]) => x < m)
    <3>1. ~Before("turn", place[x])
      BY DEF Before
    <3>2. place[x] # "creating" /\ place[x] # "loading"
      BY <1>0, <2>1 DEF Locks, LoadAlone
    <3>3. Before(place[x], "turn") => Before(place[x], place[m])
      BY <1>0, <3>2 DEF Before
    <3> QED BY <1>0, <2>1, <3>1, <3>3 DEF Order
  <2> QED BY <1>0, <1>1, <2>1, Advance
<1>3. LoadAlone'
  <2>1. ASSUME NEW x \in DOMAIN msgs, place'[x] = "loading"
        PROVE  place[x] = "loading" /\ live'[sessions[msgs[x].key]] = 0
    <3>1. place[x] = "loading" /\ x # m
      BY <1>1, <2>1
    <3>2. msgs[x].key # msgs[m].key
      BY <1>0, <3>1 DEF LoadAlone
    <3>3. /\ sessions[msgs[x].key] # 0 /\ msgs[x].key \in Keys /\ msgs[m].key \in Keys /\ s # 0
          /\ DOMAIN live = DOMAIN owner
      BY <1>0, <3>1, BaseFacts DEF Locks
    <3>4. sessions[msgs[x].key] # s /\ sessions[msgs[x].key] \in DOMAIN live
      BY <1>0, <3>2, <3>3 DEF Mappings
    <3>5. live'[sessions[msgs[x].key]] = live[sessions[msgs[x].key]]
      BY <1>0, <3>4
    <3> QED BY <1>0, <3>1, <3>5 DEF LoadAlone
  <2> QED BY <1>0, <2>1 DEF LoadAlone
<1>4. Rising'
  BY <1>0, NewRising
<1> QED BY <1>2, <1>3, <1>4 DEF Ordered

\* Nothing goes on in these.
LEMMA LeaveOrdered ==
  ASSUME Base, Ordered, \E m \in DOMAIN msgs : CreateFails(m) \/ LoadFails(m) \/ TurnEnds(m)
  PROVE  Ordered'
<1>0. Order /\ LoadAlone /\ Rising /\ Shapes /\ {"over", "lost"} \subseteq Places
  BY DEF Ordered, Base, GInv, Places
<1> PICK m \in DOMAIN msgs : CreateFails(m) \/ LoadFails(m) \/ TurnEnds(m)
  OBVIOUS
<1>1. /\ UNCHANGED <<msgs, sessions, live>>
      /\ \E p \in {"over", "lost"} : place' = [place EXCEPT ![m] = p]
  BY DEF CreateFails, LoadFails, TurnEnds, mapping, objects
<1>2. \A x \in DOMAIN msgs : place'[x] \in {place[x], "over", "lost"}
  BY <1>0, <1>1, PlaceTyped
<1>3. Order' /\ LoadAlone'
  BY <1>0, <1>1, <1>2, Leave
<1>4. Rising'
  <2>1. CASE TurnEnds(m)
    BY <1>0, <2>1, EndLines, PartRising
  <2>2. CASE CreateFails(m) \/ LoadFails(m)
    BY <1>0, <2>2, SameRising DEF CreateFails, LoadFails, objects
  <2> QED BY <2>1, <2>2
<1> QED BY <1>3, <1>4 DEF Ordered

\* Steps that leave the lines alone keep their order.
LEMMA StayOrdered ==
  ASSUME Base, Ordered,
         \/ \E m \in DOMAIN msgs : Asks(m)
         \/ \E a \in DOMAIN asks : Registers(a) \/ Returns(a)
         \/ \E s \in DOMAIN live : Cancel(s) \/ Evict(s)
         \/ UNCHANGED vars
  PROVE  Ordered'
<1>0. Order /\ LoadAlone /\ Rising
  BY DEF Ordered
<1>1. CASE \E s \in DOMAIN live : Cancel(s)
  <2> PICK s \in DOMAIN live : Cancel(s)
    BY <1>1
  <2>1. UNCHANGED <<msgs, sessions, live>>
    BY DEF Cancel, mapping
  <2>2. Order' /\ LoadAlone'
    BY <1>0, <2>1, CancelLines, Leave
  <2> QED BY <1>0, <2>2, CancelLines, PartRising DEF Ordered
<1>2. CASE \E s \in DOMAIN live : Evict(s)
  <2> PICK s \in DOMAIN live : Evict(s)
    BY <1>2
  <2>1. UNCHANGED <<msgs, place, sessions, line>> /\ live' = [live EXCEPT ![s] = 0]
    BY DEF Evict, channel, mapping
  <2>2. \A t : live[t] = 0 => live'[t] = 0
    BY <2>1
  <2>3. Order' /\ LoadAlone'
    BY <1>0, <2>1, <2>2, Leave
  <2> QED BY <1>0, <2>1, <2>3, SameRising DEF Ordered
<1>3. CASE \/ \E m \in DOMAIN msgs : Asks(m)
           \/ \E a \in DOMAIN asks : Registers(a) \/ Returns(a)
           \/ UNCHANGED vars
  <2>1. UNCHANGED <<msgs, place, sessions, live, line>>
    BY <1>3 DEF Asks, Registers, Returns, vars, channel, mapping, objects
  <2>2. Order' /\ LoadAlone'
    BY <1>0, <2>1, Leave
  <2> QED BY <1>0, <2>1, <2>2, SameRising DEF Ordered
<1> QED BY <1>1, <1>2, <1>3

\* A restart leaves nothing in line.
LEMMA RestartOrdered ==
  ASSUME Base, Restart
  PROVE  Ordered'
<1>0. /\ msgs' = msgs /\ line' = [o \in DOMAIN line |-> <<>>]
      /\ place' = [m \in DOMAIN place |-> IF place[m] = "over" THEN "over" ELSE "lost"]
  BY DEF Restart
<1>1. \A m \in DOMAIN msgs : place'[m] \in {"over", "lost"}
  BY <1>0, BaseFacts DEF Base, GInv
<1>2. Order' /\ LoadAlone'
  BY <1>0, <1>1 DEF Order, LoadAlone, Before
<1>3. Rising'
  <2>1. Len(line) \in Nat /\ DOMAIN line = 1..Len(line) /\ Len(<<>>) = 0 /\ 1..0 = {}
    BY LineFacts
  <2>2. Len(line') = Len(line) /\ \A o \in 1..Len(line) : line'[o] = <<>>
    BY <1>0, <2>1
  <2> QED BY <2>1, <2>2 DEF Rising
<1> QED BY <1>2, <1>3 DEF Ordered

\* What departed stays departed.
LEMMA StillCalm == [Next]_vars => departs \subseteq departs'
<1> SUFFICES ASSUME [Next]_vars PROVE departs \subseteq departs'
  OBVIOUS
<1>1. ASSUME NEW m, Handle(m) \/ Enter(m) PROVE departs \subseteq departs'
  <2>1. Plain \/ \E ds : Departs(ds)
    BY <1>1, Handles DEF Answers, Answer, Rests, Creates, Loads, Joins
  <2> QED BY <2>1, DepartsGrows
<1>2. CASE \/ \E k \in Keys, is \in {"prompt", "command"} : Text(k, is)
           \/ \E a \in DOMAIN asks : Reply(a) \/ Registers(a) \/ Returns(a)
           \/ Restart
  <2>1. Plain \/ \E ds : Departs(ds)
    BY <1>2 DEF Text, Reply, Registers, Returns, Restart
  <2> QED BY <2>1, DepartsGrows
<1>3. CASE \E m \in DOMAIN msgs : \/ Created(m) \/ CreateFails(m) \/ PersistFails(m) \/ Loaded(m)
                                  \/ LoadFails(m) \/ Asks(m) \/ TurnEnds(m)
  <2>1. Plain \/ \E ds : Departs(ds)
    BY <1>3 DEF Created, CreateFails, PersistFails, Loaded, LoadFails, Asks, TurnEnds
  <2> QED BY <2>1, DepartsGrows
<1>4. CASE \E s \in DOMAIN live : Cancel(s) \/ Evict(s)
  <2>1. Plain \/ \E ds : Departs(ds)
    BY <1>4 DEF Cancel, Evict
  <2> QED BY <2>1, DepartsGrows
<1>5. CASE UNCHANGED vars
  BY <1>5 DEF vars
<1> QED BY <1>1, <1>2, <1>3, <1>4, <1>5 DEF Next

\* Every step keeps the order, unless two loads crossed.
LEMMA StepOrdered == LInv /\ [Next]_vars => LInv'
<1> SUFFICES ASSUME LInv, [Next]_vars PROVE LInv'
  OBVIOUS
<1>0. Base /\ Base'
  BY StepBase DEF LInv
<1>1. ASSUME Uncrossed' PROVE Ordered'
  <2>1. Ordered
    BY <1>1, StillCalm DEF LInv, Uncrossed, Tolerates
  <2>2. CASE UNCHANGED vars
    BY <1>0, <2>1, <2>2, StayOrdered
  <2>3. CASE Next
    BY <1>0, <1>1, <2>1, <2>3, UserOrdered, HandleOrdered, MadeOrdered, LoadedOrdered, LeaveOrdered,
       StayOrdered, RestartOrdered DEF Next
  <2> QED BY <2>2, <2>3
<1> QED BY <1>0, <1>1 DEF LInv

-----------------------------------------------------------------------------
(* The prompts of a conversation become turns in the order in which they   *)
(* came: each gets the lock before those behind it, and the first to find  *)
(* the session unloaded is the only one to load it, unless two cross there *)
(* (GatewayAdapter._handle, SessionManager.get_or_load).                   *)
THEOREM ConversationsInOrder == Spec => []InOrder
<1>1. Init => LInv
  <2> SUFFICES ASSUME Init PROVE LInv
    OBVIOUS
  <2>1. Ordered
    BY DEF Init, Ordered, Order, LoadAlone, Rising
  <2> QED BY <2>1, InitBase DEF LInv
<1>2. LInv => InOrder
  <2> SUFFICES ASSUME Base, Ordered PROVE
        /\ \A o \in DOMAIN line : \A i, j \in DOMAIN line[o] : i < j => line[o][i] < line[o][j]
        /\ \A n \in DOMAIN msgs : place[n] = "turn" =>
             \A m \in Of(msgs[n].key) : m < n => place[m] \notin {"sent", "waiting", "creating", "loading"}
    BY DEF LInv, InOrder, Uncrossed
  <2>1. \A o \in DOMAIN line : \A i, j \in DOMAIN line[o] : i < j => line[o][i] < line[o][j]
    BY LineFacts DEF Ordered, Rising
  <2>2. ASSUME NEW n \in DOMAIN msgs, place[n] = "turn", NEW m \in Of(msgs[n].key), m < n,
               place[m] \in {"sent", "waiting", "creating", "loading"}
        PROVE  FALSE
    <3>1. m \in DOMAIN msgs /\ msgs[m].key = msgs[n].key /\ Before(place[m], place[n])
      BY <2>2 DEF Of, Before
    <3>2. n < m
      BY <3>1 DEF Ordered, Order
    <3>3. m \in Nat /\ n \in Nat
      BY <3>1, BaseFacts DEF Base, GInv
    <3> QED BY <2>2, <3>2, <3>3
  <2> QED BY <2>1, <2>2
<1> QED BY <1>1, <1>2, StepOrdered, PTL DEF Spec

-----------------------------------------------------------------------------
(* Questions and their answers                                             *)

\* A key has one session, and its object the turns.
Single == \A s \in DOMAIN owner : sessions[owner[s]] = s

\* An object with turns is its session's.
NonEmpty == \A o \in DOMAIN line : line[o] # <<>> => \E s \in DOMAIN live : live[s] = o

\* Who asks has its turn, and asks once at a time.
Busy ==
  \A a \in DOMAIN asks : asks[a].state # "over" =>
    /\ Runs(asks[a].turn)
    /\ \A b \in DOMAIN asks : asks[b].state # "over" /\ asks[b].turn = asks[a].turn => a = b

\* The requests that wait are those that are pending.
Waits ==
  /\ \A a \in DOMAIN asks : /\ asks[a].state # "cancelled"
                            /\ asks[a].state = "waiting" => pending[msgs[asks[a].turn].key] = a
  /\ \A k \in Keys : pending[k] # 0 => asks[pending[k]].state = "waiting"

\* A reply on its way is the only one to a request that waits for it, and a
\* text on its way is not behind a question.
Sends ==
  \A m \in DOMAIN msgs :
    /\ msgs[m].is = "reply" =>
         /\ place[m] \in {"sent", "over"} /\ msgs[m].key = msgs[asks[msgs[m].to].turn].key
         /\ \A n \in DOMAIN msgs : msgs[n].to = msgs[m].to => n = m
         /\ place[m] = "sent" => asks[msgs[m].to].state = "waiting"
    /\ msgs[m].is # "reply" /\ place[m] = "sent" =>
         \A a \in DOMAIN asks : msgs[asks[a].turn].key = msgs[m].key => ~Open(a)

\* What decided a question was a reply to it.
ByOwn == \A a \in DOMAIN asks : asks[a].by # 0 => asks[a].by \in DOMAIN msgs /\ msgs[asks[a].by].to = a

Meant == Single /\ NonEmpty /\ Busy /\ Waits /\ Sends /\ ByOwn

\* Only creations and writes of the mapping fail.
Quiet == Tolerates({"failed", "unsaved"})

MInv == LInv /\ (Quiet => Meant)

\* A conversation has one question at a time.
LEMMA OnePerKey ==
  ASSUME Base, Single, NonEmpty, Busy, NEW a \in DOMAIN asks, NEW b \in DOMAIN asks,
         asks[a].state # "over", asks[b].state # "over",
         msgs[asks[a].turn].key = msgs[asks[b].turn].key
  PROVE  a = b
<1>1. ASSUME NEW c \in DOMAIN asks, asks[c].state # "over"
      PROVE  \E o \in DOMAIN line : /\ line[o] # <<>> /\ Head(line[o]) = asks[c].turn
                                    /\ o = live[sessions[msgs[asks[c].turn].key]]
  <2>1. PICK o \in DOMAIN line : line[o] # <<>> /\ Head(line[o]) = asks[c].turn
    BY <1>1 DEF Busy, Runs
  <2>2. PICK s \in DOMAIN live : live[s] = o
    BY <2>1 DEF NonEmpty
  <2>3. o \in 1..Len(line) /\ o # 0 /\ line[o] \in Seq(Placed) /\ Len(line[o]) \in Nat
    BY <2>1, LineFacts
  <2>4. 1 \in 1..Len(line[o]) /\ line[o][1] = asks[c].turn
    BY <2>1, <2>3
  <2>5. msgs[asks[c].turn].key = owner[s] /\ s \in DOMAIN owner
    <3>1. DOMAIN owner = DOMAIN live
      BY BaseFacts DEF Base, GInv
    <3> QED BY <2>2, <2>3, <2>4, <3>1 DEF Base, Keyed
  <2> QED BY <2>1, <2>2, <2>5 DEF Single
<1>2. asks[a].turn = asks[b].turn
  BY <1>1
<1> QED BY <1>2 DEF Busy

\* The turns that run go on running.
HeadsStay ==
  \A o \in DOMAIN line : o \in DOMAIN line' /\ (line[o] # <<>> =>
    line'[o] # <<>> /\ Head(line'[o]) = Head(line[o]))

\* Turns that stay at the head keep their questions.
LEMMA BusyKept ==
  ASSUME Busy, HeadsStay, UNCHANGED asks
  PROVE  Busy'
<1>1. ASSUME NEW x, Runs(x) PROVE Runs(x)'
  BY <1>1 DEF Runs, HeadsStay
<1>2. \A a \in DOMAIN asks : asks[a].state # "over" => Runs(asks[a].turn)'
  BY <1>1 DEF Busy
<1> QED BY <1>2 DEF Busy

\* Questions stay as they are if nothing is said of them.
LEMMA AskedKept ==
  ASSUME Waits, ByOwn, UNCHANGED <<msgs, requests>>
  PROVE  Waits' /\ ByOwn'
BY DEF Waits, ByOwn, requests

\* A text or a command moves on.
LEMMA SendsKept ==
  ASSUME Sends, UNCHANGED <<msgs, asks>>, NEW m \in DOMAIN msgs,
         msgs[m].is # "reply" \/ place'[m] = "over", place'[m] # "sent",
         \A x \in DOMAIN msgs : x # m => place'[x] = place[x]
  PROVE  Sends'
<1>1. \A a : Open(a)' <=> Open(a)
  BY DEF Open
<1>2. ASSUME NEW x \in DOMAIN msgs', msgs'[x].is = "reply"
      PROVE  /\ place'[x] \in {"sent", "over"} /\ msgs'[x].key = msgs'[asks'[msgs'[x].to].turn].key
             /\ \A n \in DOMAIN msgs' : msgs'[n].to = msgs'[x].to => n = x
             /\ place'[x] = "sent" => asks'[msgs'[x].to].state = "waiting"
  BY <1>2 DEF Sends
<1>3. ASSUME NEW x \in DOMAIN msgs', msgs'[x].is # "reply", place'[x] = "sent", NEW a \in DOMAIN asks',
             msgs'[asks'[a].turn].key = msgs'[x].key
      PROVE  ~Open(a)'
  BY <1>1, <1>3 DEF Sends
<1> QED BY <1>2, <1>3 DEF Sends

\* The lines of the objects, as the steps that add to them change them.
LEMMA HeadsJoin ==
  ASSUME Base, NEW s \in DOMAIN live, live[s] # 0, NEW m \in DOMAIN msgs,
         line' = [line EXCEPT ![live[s]] = Append(@, m)], live' = live, NonEmpty
  PROVE  HeadsStay /\ NonEmpty'
<1> DEFINE o == live[s]
<1>1. o \in 1..Len(line) /\ Len(line) \in Nat /\ DOMAIN line = 1..Len(line)
      /\ line[o] \in Seq(Placed) /\ Len(line[o]) \in Nat /\ Placed \subseteq DOMAIN msgs
  BY LineFacts
<1>2. DOMAIN line' = DOMAIN line /\ line'[o] = Append(line[o], m)
      /\ \A p \in DOMAIN line : p # o => line'[p] = line[p]
  BY <1>1
<1>3. line[o] \in Seq(DOMAIN msgs)
  BY <1>1
<1> HIDE DEF o
<1>4. line[o] # <<>> => line'[o] # <<>> /\ Head(line'[o]) = Head(line[o])
  BY <1>2, <1>3
<1>5. HeadsStay
  BY <1>2, <1>4 DEF HeadsStay
<1>6. NonEmpty'
  BY <1>2 DEF NonEmpty, o
<1> QED BY <1>5, <1>6

\* A line is added.
LEMMA HeadsNew ==
  ASSUME Base, NEW e, line' = Append(line, e), NEW m \in DOMAIN msgs, e = <<>> \/ e = <<m>>
  PROVE  /\ HeadsStay /\ Len(line') = Len(line) + 1
         /\ \A p \in DOMAIN line' : p # Len(line) + 1 => p \in DOMAIN line /\ line'[p] = line[p]
<1>1. line \in Seq(Seq(Placed)) /\ Len(line) \in Nat /\ DOMAIN line = 1..Len(line)
  BY LinesFacts DEF Base, LinesOnce
<1>2. Len(line') = Len(line) + 1 /\ DOMAIN line' = 1..(Len(line) + 1) /\ \A p \in 1..Len(line) : line'[p] = line[p]
  <2>1. line \in Seq(Seq(Placed \cup {m}))
    BY <1>1
  <2>2. e \in Seq(Placed \cup {m})
    <3>1. <<>> \in Seq(Placed \cup {m}) /\ <<m>> \in Seq(Placed \cup {m})
      OBVIOUS
    <3> QED BY <3>1
  <2> QED BY <2>1, <2>2, AppendProperties
<1>3. \A p \in 1..(Len(line) + 1) : p \in 1..Len(line) \/ p = Len(line) + 1
  BY <1>1
<1>4. \A p \in 1..Len(line) : p \in 1..(Len(line) + 1)
  BY <1>1
<1> QED BY <1>1, <1>2, <1>3, <1>4 DEF HeadsStay

\* A text, where no question is open; a reply, where one is.
LEMMA SendMeant ==
  ASSUME Base, Meant, NEW k \in Keys, NEW is \in {"prompt", "command", "reply"}, NEW to \in Nat,
         Send(k, is, to), to <= Len(asks), is = "reply" <=> to # 0,
         is # "reply" => \A a \in DOMAIN asks : msgs[asks[a].turn].key = k => ~Open(a),
         is = "reply" => /\ asks[to].state = "waiting" /\ msgs[asks[to].turn].key = k
                         /\ \A m \in DOMAIN msgs : msgs[m].to # to
  PROVE  Meant'
<1> DEFINE n == Len(msgs) + 1
           g == [key |-> k, is |-> is, to |-> to]
<1>0. /\ Shapes /\ Replies /\ msgs' = Append(msgs, g) /\ place' = Append(place, "sent") /\ "sent" \in Places
      /\ UNCHANGED <<sessions, owner, live, line, asks, pending>>
      /\ msgs \in Seq(Message) /\ place \in Seq(Places) /\ Len(place) = Len(msgs)
      /\ Single /\ NonEmpty /\ Busy /\ Waits /\ Sends /\ ByOwn
  BY DEF Base, GInv, Send, mapping, objects, requests, Shapes, Places, Meant
<1>1. g \in Message /\ g.key = k /\ g.is = is /\ g.to = to
  BY DEF Message
<1> HIDE DEF g
<1>2. /\ DOMAIN msgs' = DOMAIN msgs \cup {n} /\ n \notin DOMAIN msgs /\ msgs'[n] = g /\ place'[n] = "sent"
      /\ \A m \in DOMAIN msgs : msgs'[m] = msgs[m] /\ place'[m] = place[m]
  BY <1>0, <1>1
<1> HIDE DEF n
<1>3. \A a \in DOMAIN asks : asks[a].turn \in DOMAIN msgs
  BY <1>0, BaseFacts DEF Base
<1>4. Single' /\ NonEmpty'
  BY <1>0 DEF Single, NonEmpty
<1>5. Busy'
  BY <1>0, BusyKept DEF HeadsStay
<1>6. Waits'
  BY <1>0, <1>2, <1>3 DEF Waits
<1>7. \A m \in DOMAIN msgs : msgs[m].is = "reply" => msgs[m].to \in DOMAIN asks
  <2>1. \A m \in DOMAIN msgs : msgs[m].to \in Nat /\ msgs[m].to <= Len(asks) /\ DOMAIN asks = 1..Len(asks)
                               /\ Len(asks) \in Nat
    BY <1>0, BaseFacts DEF Base, Replies
  <2>2. \A m \in DOMAIN msgs : msgs[m].is = "reply" => msgs[m].to # 0
    BY <1>0 DEF Replies
  <2> QED BY <2>1, <2>2
<1>8. is = "reply" => to \in DOMAIN asks
  BY <1>0, BaseFacts DEF Base
<1>9. \A a : Open(a)' <=> Open(a)
  BY <1>0 DEF Open
<1>10. Sends'
  <2>1. ASSUME NEW x \in DOMAIN msgs', msgs'[x].is = "reply"
        PROVE  /\ place'[x] \in {"sent", "over"} /\ msgs'[x].key = msgs'[asks'[msgs'[x].to].turn].key
               /\ place'[x] = "sent" => asks'[msgs'[x].to].state = "waiting"
    <3>1. CASE x = n
      BY <1>0, <1>1, <1>2, <1>3, <1>8, <2>1, <3>1
    <3>2. CASE x \in DOMAIN msgs
      BY <1>0, <1>2, <1>3, <1>7, <2>1, <3>2 DEF Sends
    <3> QED BY <1>2, <3>1, <3>2
  <2>2. ASSUME NEW x \in DOMAIN msgs', msgs'[x].is = "reply", NEW y \in DOMAIN msgs', msgs'[y].to = msgs'[x].to
        PROVE  y = x
    <3>1. CASE x = n
      <4>1. is = "reply" /\ msgs'[x].to = to
        BY <1>1, <1>2, <2>2, <3>1
      <4>2. y \notin DOMAIN msgs
        BY <1>2, <2>2, <4>1
      <4> QED BY <1>2, <3>1, <4>2
    <3>2. CASE x \in DOMAIN msgs
      <4>1. msgs[x].is = "reply" /\ msgs'[x] = msgs[x] /\ msgs[x].to # 0
        BY <1>0, <1>2, <2>2, <3>2 DEF Replies
      <4>2. y # n
        <5> SUFFICES ASSUME y = n PROVE FALSE
          OBVIOUS
        <5>1. to = msgs[x].to /\ is = "reply"
          BY <1>1, <1>2, <2>2, <4>1
        <5> QED BY <3>2, <5>1
      <4> QED BY <1>0, <1>2, <2>2, <3>2, <4>1, <4>2 DEF Sends
    <3> QED BY <1>2, <3>1, <3>2
  <2>3. ASSUME NEW x \in DOMAIN msgs', msgs'[x].is # "reply", place'[x] = "sent", NEW a \in DOMAIN asks',
               msgs'[asks'[a].turn].key = msgs'[x].key
        PROVE  ~Open(a)'
    <3>1. a \in DOMAIN asks /\ asks'[a] = asks[a] /\ msgs'[asks[a].turn] = msgs[asks[a].turn]
      BY <1>0, <1>2, <1>3
    <3>2. CASE x = n
      BY <1>1, <1>2, <1>9, <2>3, <3>1, <3>2
    <3>3. CASE x \in DOMAIN msgs
      BY <1>0, <1>2, <1>9, <2>3, <3>1, <3>3 DEF Sends
    <3> QED BY <1>2, <3>2, <3>3
  <2> QED BY <2>1, <2>2, <2>3 DEF Sends
<1>11. ByOwn'
  <2>1. ASSUME NEW a \in DOMAIN asks, asks[a].by # 0
        PROVE  asks[a].by \in DOMAIN msgs' /\ msgs'[asks[a].by].to = a
    BY <1>0, <1>2, <2>1 DEF ByOwn
  <2> QED BY <1>0, <2>1 DEF ByOwn
<1> QED BY <1>4, <1>5, <1>6, <1>10, <1>11 DEF Meant

\* What a user says while no question waits is no answer, and an answer is to
\* the question that waits.
LEMMA UserMeant ==
  ASSUME Base, Meant, Quiet',
         \/ \E k \in Keys, is \in {"prompt", "command"} : Text(k, is)
         \/ \E a \in DOMAIN asks : Reply(a)
  PROVE  Meant'
<1>1. ASSUME NEW k \in Keys, NEW is \in {"prompt", "command"}, Text(k, is) PROVE Meant'
  <2>1. Send(k, is, 0) /\ 0 <= Len(asks)
    BY <1>1, BaseFacts DEF Text, Base, GInv
  <2>2. ~\E a \in DOMAIN asks : KeyOf(a) = k /\ Open(a)
    BY <1>1 DEF Text, Departs, When, Quiet, Tolerates
  <2>3. \A a \in DOMAIN asks : msgs[asks[a].turn].key = k => ~Open(a)
    BY <2>2 DEF KeyOf
  <2> QED BY <2>1, <2>3, SendMeant
<1>2. ASSUME NEW a \in DOMAIN asks, Reply(a) PROVE Meant'
  <2>1. Send(KeyOf(a), "reply", a) /\ KeyOf(a) \in Keys /\ a \in Nat /\ a # 0 /\ a <= Len(asks)
    BY <1>2, BaseFacts DEF Reply, Base, GInv
  <2>2. ~(asks[a].state = "sending") /\ Open(a) /\ ~\E m \in DOMAIN msgs : msgs[m].to = a
    BY <1>2 DEF Reply, Departs, When, Quiet, Tolerates
  <2>3. asks[a].state = "waiting"
    BY <2>2 DEF Open
  <2> QED BY <2>1, <2>2, <2>3, SendMeant DEF KeyOf
<1> QED BY <1>1, <1>2

\* A message that comes to a pending request is the reply to it.
LEMMA OwnAnswer ==
  ASSUME Base, Meant, NEW m \in DOMAIN msgs, place[m] = "sent", pending[msgs[m].key] # 0
  PROVE  /\ msgs[m].to = pending[msgs[m].key] /\ pending[msgs[m].key] \in DOMAIN asks
         /\ asks[pending[msgs[m].key]].state = "waiting"
         /\ msgs[asks[pending[msgs[m].key]].turn].key = msgs[m].key
<1> DEFINE a == pending[msgs[m].key]
<1>0. msgs[m].key \in Keys /\ Waits /\ Sends /\ Pends /\ Replies /\ Shapes
  BY BaseFacts DEF Base, GInv, Meant
<1>1. a \in DOMAIN asks /\ asks[a].state = "waiting" /\ msgs[asks[a].turn].key = msgs[m].key
  BY <1>0 DEF Waits, Pends
<1> HIDE DEF a
<1>2. msgs[m].is = "reply"
  BY <1>0, <1>1 DEF Sends, Open
<1>3. asks[msgs[m].to].state = "waiting" /\ msgs[asks[msgs[m].to].turn].key = msgs[m].key
  BY <1>0, <1>2 DEF Sends
<1>4. msgs[m].to \in DOMAIN asks
  <2>1. msgs[m].to \in Nat /\ msgs[m].to # 0 /\ msgs[m].to <= Len(asks) /\ DOMAIN asks = 1..Len(asks)
        /\ Len(asks) \in Nat
    BY <1>0, <1>2, BaseFacts DEF Base, Replies
  <2> QED BY <2>1
<1>5. msgs[m].to = a
  BY <1>1, <1>3, <1>4, OnePerKey DEF Meant
<1> QED BY <1>1, <1>5 DEF a

\* One that comes to none is no reply.
LEMMA NoReply ==
  ASSUME Base, Meant, NEW m \in DOMAIN msgs,
         place[m] \notin {"sent", "over"} \/ (place[m] = "sent" /\ pending[msgs[m].key] = 0)
  PROVE  msgs[m].is # "reply"
<1> SUFFICES ASSUME msgs[m].is = "reply" PROVE FALSE
  OBVIOUS
<1>0. Waits /\ Sends /\ Replies /\ Shapes
  BY DEF Base, GInv, Meant
<1>1. place[m] = "sent" /\ pending[msgs[m].key] = 0
  BY <1>0 DEF Sends
<1>2. asks[msgs[m].to].state = "waiting" /\ msgs[asks[msgs[m].to].turn].key = msgs[m].key
  BY <1>0, <1>1 DEF Sends
<1>3. msgs[m].to \in DOMAIN asks /\ msgs[m].to # 0
  <2>1. msgs[m].to \in Nat /\ msgs[m].to # 0 /\ msgs[m].to <= Len(asks) /\ DOMAIN asks = 1..Len(asks)
        /\ Len(asks) \in Nat
    BY <1>0, BaseFacts DEF Base, Replies
  <2> QED BY <2>1
<1> QED BY <1>0, <1>1, <1>2, <1>3 DEF Waits

\* An answer finds the question that it is for.
LEMMA AnswerMeant ==
  ASSUME Base, Meant, NEW m \in DOMAIN msgs, place[m] = "sent", Answers(m), UNCHANGED <<msgs, mapping>>
  PROVE  Meant'
<1> DEFINE k == msgs[m].key
           a == pending[k]
<1>0. /\ Shapes /\ Values /\ k \in Keys /\ a # 0 /\ Answer(m, a) /\ UNCHANGED <<msgs, sessions, owner, live, line>>
      /\ Single /\ NonEmpty /\ Busy /\ Waits /\ Sends /\ ByOwn /\ Pends
  BY BaseFacts DEF Base, GInv, Answers, Answer, mapping, objects, Meant
<1>1. msgs[m].to = a /\ a \in DOMAIN asks /\ asks[a].state = "waiting" /\ msgs[asks[a].turn].key = k
  BY <1>0, OwnAnswer
<1> HIDE DEF a
<1>2. /\ pending' = [pending EXCEPT ![k] = 0] /\ place' = [place EXCEPT ![m] = "over"] /\ "over" \in Places
      /\ asks' = [asks EXCEPT ![a].state = "answered", ![a].by = m]
  BY <1>0, <1>1 DEF Answer, KeyOf, Places
<1>3. /\ place'[m] = "over" /\ (\A x \in DOMAIN msgs : x # m => place'[x] = place[x])
      /\ pending'[k] = 0 /\ \A q \in Keys : q # k => pending'[q] = pending[q]
  BY <1>0, <1>2, PlaceTyped DEF Values
<1>4. /\ DOMAIN asks' = DOMAIN asks /\ asks'[a].state = "answered" /\ asks'[a].by = m
      /\ asks'[a].turn = asks[a].turn /\ \A b \in DOMAIN asks : b # a => asks'[b] = asks[b]
  <2>1. asks \in Seq(Request) /\ asks[a] \in Request
    BY <1>0, <1>1, MembersTyped DEF Shapes
  <2> DEFINE r == [asks[a] EXCEPT !.state = "answered", !.by = m]
  <2>2. asks' = [asks EXCEPT ![a] = r]
    BY <1>2, <2>1 DEF Request
  <2>3. r.state = "answered" /\ r.by = m /\ r.turn = asks[a].turn
    BY <2>1 DEF Request
  <2> HIDE DEF r
  <2> QED BY <1>1, <2>1, <2>2, <2>3
<1>5. Single' /\ NonEmpty'
  BY <1>0 DEF Single, NonEmpty
<1>6. Busy'
  <2>1. \A x : Runs(x)' <=> Runs(x)
    BY <1>0 DEF Runs
  <2>2. \A b \in DOMAIN asks : asks'[b].turn = asks[b].turn /\ (asks'[b].state # "over" => asks[b].state # "over")
    BY <1>1, <1>4
  <2> QED BY <1>0, <1>4, <2>1, <2>2 DEF Busy
<1>7. Waits'
  <2>1. ASSUME NEW b \in DOMAIN asks, asks'[b].state = "waiting" PROVE pending'[msgs[asks[b].turn].key] = b
    <3>1. b # a /\ asks[b].state = "waiting"
      BY <1>4, <2>1
    <3>2. msgs[asks[b].turn].key # k
      BY <1>0, <1>1, <3>1, OnePerKey
    <3>3. msgs[asks[b].turn].key \in Keys
      BY <1>0, BaseFacts DEF Base
    <3> QED BY <1>0, <1>3, <3>1, <3>2, <3>3 DEF Waits
  <2>2. \A b \in DOMAIN asks : asks'[b].state # "cancelled" /\ asks'[b].turn = asks[b].turn
    BY <1>0, <1>4 DEF Waits
  <2>3. ASSUME NEW q \in Keys, pending'[q] # 0 PROVE asks'[pending'[q]].state = "waiting"
    <3>1. q # k /\ pending'[q] = pending[q]
      BY <1>3, <2>3
    <3>2. asks[pending[q]].state = "waiting" /\ pending[q] \in DOMAIN asks /\ msgs[asks[pending[q]].turn].key = q
      BY <1>0, <2>3, <3>1 DEF Waits, Pends
    <3>3. pending[q] # a
      BY <1>1, <3>1, <3>2
    <3> QED BY <1>4, <3>1, <3>2, <3>3
  <2> QED BY <1>0, <1>4, <2>1, <2>2, <2>3 DEF Waits
<1>8. Sends'
  <2>1. \A b : Open(b)' /\ b \in DOMAIN asks => Open(b)
    BY <1>4 DEF Open
  <2>2. \A b \in DOMAIN asks : asks'[b].turn = asks[b].turn
    BY <1>4
  <2>3. ASSUME NEW x \in DOMAIN msgs, msgs[x].is = "reply"
        PROVE  /\ place'[x] \in {"sent", "over"} /\ msgs[x].key = msgs[asks'[msgs[x].to].turn].key
               /\ \A n \in DOMAIN msgs : msgs[n].to = msgs[x].to => n = x
               /\ place'[x] = "sent" => asks'[msgs[x].to].state = "waiting"
    <3>1. msgs[x].to \in DOMAIN asks
      <4>1. msgs[x].to \in Nat /\ msgs[x].to # 0 /\ msgs[x].to <= Len(asks) /\ DOMAIN asks = 1..Len(asks)
            /\ Len(asks) \in Nat
        BY <1>0, <2>3, BaseFacts DEF Base, Replies
      <4> QED BY <4>1
    <3>2. CASE x = m
      BY <1>0, <1>3, <2>2, <2>3, <3>1, <3>2 DEF Sends
    <3>3. CASE x # m
      <4>1. \A n \in DOMAIN msgs : msgs[n].to = msgs[x].to => n = x
        BY <1>0, <2>3 DEF Sends
      <4>2. msgs[x].to # a
        BY <1>1, <3>3, <4>1
      <4> QED BY <1>0, <1>3, <1>4, <2>3, <3>1, <3>3, <4>1, <4>2 DEF Sends
    <3> QED BY <3>2, <3>3
  <2>4. ASSUME NEW x \in DOMAIN msgs, msgs[x].is # "reply", place'[x] = "sent", NEW b \in DOMAIN asks,
               msgs[asks[b].turn].key = msgs[x].key
        PROVE  ~Open(b)'
    <3>1. place[x] = "sent"
      BY <1>3, <2>4
    <3>2. ~Open(b)
      BY <1>0, <2>4, <3>1 DEF Sends
    <3> QED BY <2>1, <3>2
  <2> QED BY <1>0, <1>4, <2>2, <2>3, <2>4 DEF Sends
<1>9. ByOwn'
  BY <1>0, <1>1, <1>4 DEF ByOwn
<1> QED BY <1>5, <1>6, <1>7, <1>8, <1>9 DEF Meant

\* A message that is no reply moves on, and the turns that run go on.
LEMMA MoveMeant ==
  ASSUME Base, Meant, UNCHANGED <<msgs, requests>>, NEW m \in DOMAIN msgs, msgs[m].is # "reply",
         NEW p \in Places \ {"sent"}, place' = [place EXCEPT ![m] = p],
         HeadsStay, Single', NonEmpty'
  PROVE  Meant'
<1>1. Waits /\ Sends /\ ByOwn /\ Busy /\ Shapes /\ UNCHANGED asks
  BY DEF Base, GInv, Meant, requests
<1>2. place'[m] = p /\ \A x \in DOMAIN msgs : x # m => place'[x] = place[x]
  BY <1>1, PlaceTyped
<1>3. Sends'
  BY <1>1, <1>2, SendsKept
<1> QED BY <1>1, <1>3, AskedKept, BusyKept DEF Meant

\* Lines that stay have their heads.
LEMMA StayHeads ==
  ASSUME line' = line PROVE HeadsStay
BY DEF HeadsStay

\* A message that becomes a turn is no answer.
LEMMA HandleMeant ==
  ASSUME Base, Meant, NEW m \in DOMAIN msgs, Handle(m) \/ Enter(m)
  PROVE  Meant'
<1>0. /\ UNCHANGED <<msgs, mapping, sessions, owner>> /\ place[m] \in {"sent", "waiting"}
      /\ {"waiting", "over", "creating", "loading", "turn"} \subseteq Places \ {"sent"}
      /\ Single /\ NonEmpty /\ Shapes /\ Values
  BY Handles DEF mapping, Places, Meant, Base, GInv
<1>1. CASE Answers(m)
  <2>1. place[m] = "sent"
    <3>1. CASE Handle(m)
      BY <3>1 DEF Handle
    <3>2. CASE Enter(m)
      <4>1. Behind(m) /\ pending' = pending /\ place[m] = "waiting"
        BY <3>2 DEF Enter, requests
      <4>2. pending[msgs[m].key] # 0 /\ Answer(m, pending[msgs[m].key])
        BY <1>1 DEF Answers
      <4>3. Pends /\ msgs[m].key \in Keys
        BY <1>0, BaseFacts DEF Base
      <4>4. KeyOf(pending[msgs[m].key]) = msgs[m].key
        BY <4>2, <4>3 DEF Pends, KeyOf
      <4>5. pending' = [pending EXCEPT ![msgs[m].key] = 0]
        BY <4>2, <4>4 DEF Answer
      <4>6. pending'[msgs[m].key] = 0
        BY <1>0, <4>3, <4>5 DEF Values
      <4> QED BY <4>1, <4>2, <4>6
    <3> QED BY <3>1, <3>2
  <2> QED BY <1>0, <1>1, <2>1, AnswerMeant
<1>2. CASE ~Answers(m)
  <2>1. Rests(m) \/ Creates(m) \/ Loads(m) \/ Joins(m)
    BY <1>2, Handles
  <2>2. UNCHANGED requests /\ \E p \in {"waiting", "over", "creating", "loading", "turn"} : place' = [place EXCEPT ![m] = p]
    BY <2>1 DEF Rests, Creates, Loads, Joins
  <2>3. msgs[m].is # "reply"
    <3>1. CASE Enter(m)
      BY <3>1, NoReply DEF Enter
    <3>2. CASE Handle(m)
      <4>1. pending[msgs[m].key] = 0 /\ place[m] = "sent"
        BY <1>2, <3>2 DEF Handle, Answers
      <4> QED BY <4>1, NoReply
    <3> QED BY <3>1, <3>2
  <2>4. Single'
    BY <1>0 DEF Single
  <2>5. HeadsStay /\ NonEmpty'
    <3>1. CASE Rests(m) \/ Creates(m) \/ Loads(m)
      <4>1. line' = line /\ live' = live
        BY <3>1 DEF Rests, Creates, Loads, objects
      <4> QED BY <1>0, <4>1, StayHeads DEF NonEmpty
    <3>2. CASE Joins(m)
      <4> DEFINE s == sessions[msgs[m].key]
      <4>1. s # 0 /\ live[s] # 0 /\ line' = [line EXCEPT ![live[s]] = Append(@, m)] /\ live' = live
        BY <3>2 DEF Joins
      <4>2. s \in DOMAIN live
        BY <1>0, <4>1, BaseFacts DEF Base, Mappings
      <4> HIDE DEF s
      <4> QED BY <1>0, <4>1, <4>2, HeadsJoin
    <3> QED BY <2>1, <3>1, <3>2
  <2> QED BY <1>0, <2>2, <2>3, <2>4, <2>5, MoveMeant
<1> QED BY <1>1, <1>2

\* A session is made for a key that had none.
LEMMA MadeMeant ==
  ASSUME Base, Meant, NEW m \in DOMAIN msgs, Created(m) \/ PersistFails(m)
  PROVE  Meant'
<1> DEFINE k == msgs[m].key
           t == Len(owner) + 1
<1>0. /\ place[m] = "creating" /\ UNCHANGED <<msgs, requests>> /\ owner' = Append(owner, k)
      /\ sessions' = [sessions EXCEPT ![k] = t] /\ live' = Append(live, Len(line) + 1)
      /\ Single /\ NonEmpty /\ Shapes /\ Values /\ Locks
      /\ {"turn", "over", "lost"} \subseteq Places \ {"sent"}
  BY DEF Created, PersistFails, Base, GInv, Meant, Places
<1>1. \E p \in {"turn", "over", "lost"} : place' = [place EXCEPT ![m] = p]
  BY DEF Created, PersistFails
<1>2. PICK e \in {<<>>, <<m>>} : line' = Append(line, e)
  BY DEF Created, PersistFails
<1>3. msgs[m].is # "reply"
  BY <1>0, NoReply
<1>4. /\ HeadsStay /\ Len(line') = Len(line) + 1
      /\ \A p \in DOMAIN line' : p # Len(line) + 1 => p \in DOMAIN line /\ line'[p] = line[p]
  BY <1>2, HeadsNew
<1>5. /\ owner \in Seq(Keys) /\ live \in Seq(Nat) /\ Len(live) = Len(owner) /\ k \in Keys /\ sessions[k] = 0
      /\ sessions \in [Keys -> Nat] /\ Len(line) \in Nat
  BY <1>0, BaseFacts, LineFacts DEF Values, Locks, Shapes
<1>6. /\ DOMAIN owner' = DOMAIN owner \cup {t} /\ owner'[t] = k
      /\ \A s \in DOMAIN owner : owner'[s] = owner[s] /\ owner[s] \in Keys /\ s # 0
      /\ DOMAIN live' = DOMAIN live \cup {t} /\ live'[t] = Len(line) + 1
      /\ \A s \in DOMAIN live : live'[s] = live[s]
  BY <1>0, <1>5
<1>7. Single'
  <2>1. \A s \in DOMAIN owner : owner[s] # k
    BY <1>0, <1>5, <1>6 DEF Single
  <2> HIDE DEF t
  <2> QED BY <1>0, <1>5, <1>6, <2>1 DEF Single
<1>8. NonEmpty'
  <2> HIDE DEF t
  <2>1. ASSUME NEW p \in DOMAIN line', line'[p] # <<>> PROVE \E s \in DOMAIN live' : live'[s] = p
    <3>1. CASE p = Len(line) + 1
      BY <1>6, <3>1
    <3>2. CASE p # Len(line) + 1
      BY <1>0, <1>4, <1>6, <2>1, <3>2 DEF NonEmpty
    <3> QED BY <3>1, <3>2
  <2> QED BY <2>1 DEF NonEmpty
<1> QED BY <1>0, <1>1, <1>3, <1>4, <1>7, <1>8, MoveMeant

\* A session is loaded that had no object.
LEMMA LoadedMeant ==
  ASSUME Base, LoadAlone, Meant, NEW m \in DOMAIN msgs, Loaded(m)
  PROVE  Meant'
<1> DEFINE s == sessions[msgs[m].key]
<1>0. /\ place[m] = "loading" /\ UNCHANGED <<msgs, sessions, owner, requests>> /\ Single /\ NonEmpty /\ Values /\ Shapes
      /\ live' = [live EXCEPT ![s] = Len(line) + 1] /\ line' = Append(line, <<m>>)
      /\ place' = [place EXCEPT ![m] = "turn"] /\ "turn" \in Places \ {"sent"} /\ live[s] = 0
  BY DEF Loaded, mapping, Base, GInv, Meant, Places, LoadAlone
<1>1. msgs[m].is # "reply"
  BY <1>0, NoReply
<1>2. /\ HeadsStay
      /\ \A p \in DOMAIN line' : p # Len(line) + 1 => p \in DOMAIN line /\ line'[p] = line[p]
  BY <1>0, HeadsNew
<1>3. Single'
  BY <1>0 DEF Single
<1>4. s \in DOMAIN live /\ live \in Seq(Nat)
  BY <1>0, BaseFacts DEF Base, Locks, Mappings, Values
<1> HIDE DEF s
<1>5. NonEmpty'
  <2>1. ASSUME NEW p \in DOMAIN line', line'[p] # <<>> PROVE \E t \in DOMAIN live' : live'[t] = p
    <3>0. DOMAIN live' = DOMAIN live /\ live'[s] = Len(line) + 1 /\ \A t \in DOMAIN live : t # s => live'[t] = live[t]
      BY <1>0, <1>4
    <3>1. CASE p = Len(line) + 1
      BY <1>4, <3>0, <3>1
    <3>2. CASE p # Len(line) + 1
      <4>1. p \in DOMAIN line /\ line[p] # <<>>
        BY <1>2, <2>1, <3>2
      <4>2. PICK t \in DOMAIN live : live[t] = p
        BY <1>0, <4>1 DEF NonEmpty
      <4>3. p # 0
        BY <4>1, LineFacts
      <4> QED BY <1>0, <3>0, <4>2, <4>3
    <3> QED BY <3>1, <3>2
  <2> QED BY <2>1 DEF NonEmpty
<1> QED BY <1>0, <1>1, <1>2, <1>3, <1>5, MoveMeant

\* A message that fails decides nothing.
LEMMA FailsMeant ==
  ASSUME Base, Meant, NEW m \in DOMAIN msgs, CreateFails(m) \/ LoadFails(m)
  PROVE  Meant'
<1>1. /\ UNCHANGED <<msgs, sessions, owner, live, line, requests>> /\ place[m] \notin {"sent", "over"}
      /\ \E p \in {"over", "lost"} : place' = [place EXCEPT ![m] = p]
      /\ {"over", "lost"} \subseteq Places \ {"sent"} /\ Single /\ NonEmpty
  BY DEF CreateFails, LoadFails, mapping, objects, Meant, Places
<1>2. Single' /\ NonEmpty'
  BY <1>1 DEF Single, NonEmpty
<1> QED BY <1>1, <1>2, NoReply, StayHeads, MoveMeant

\* A turn asks while no text of its conversation is on its way.
LEMMA AsksMeant ==
  ASSUME Base, Meant, Quiet', NEW m \in DOMAIN msgs, Asks(m)
  PROVE  Meant'
<1> DEFINE n == Len(asks) + 1
           r == [turn |-> m, state |-> "sending", by |-> 0]
<1>0. /\ Runs(m) /\ (\A a \in DOMAIN asks : asks[a].turn = m => asks[a].state = "over") /\ asks' = Append(asks, r)
      /\ UNCHANGED <<msgs, place, sessions, owner, live, line, pending>>
      /\ Single /\ NonEmpty /\ Busy /\ Waits /\ Sends /\ ByOwn /\ Shapes /\ Pends /\ Replies
      /\ asks \in Seq(Request)
  BY DEF Asks, AsksOf, channel, mapping, objects, Meant, Base, GInv, Shapes
<1>1. \A x \in DOMAIN msgs : msgs[x].key = msgs[m].key /\ place[x] = "sent" => msgs[x].is = "reply"
  <2>1. ~\E x \in At(msgs[m].key, "sent") : msgs[x].is # "reply"
    BY DEF Asks, Departs, When, Quiet, Tolerates
  <2> QED BY <2>1 DEF At, Of
<1>2. r \in Request /\ r.turn = m /\ r.state = "sending" /\ r.by = 0
  BY <1>0 DEF Request
<1> HIDE DEF r
<1>3. /\ DOMAIN asks' = DOMAIN asks \cup {n} /\ n \notin DOMAIN asks /\ asks'[n] = r
      /\ \A a \in DOMAIN asks : asks'[a] = asks[a]
  BY <1>0, <1>2
<1> HIDE DEF n
<1>4. Single' /\ NonEmpty'
  BY <1>0 DEF Single, NonEmpty
<1>5. Busy'
  <2>1. \A x : Runs(x)' <=> Runs(x)
    BY <1>0 DEF Runs
  <2>2. ASSUME NEW a \in DOMAIN asks', asks'[a].state # "over" PROVE Runs(asks[a].turn)'
    <3>1. PICK x : x = asks'[a].turn
      OBVIOUS
    <3>2. Runs(x)
      BY <1>0, <1>2, <1>3, <2>2, <3>1 DEF Busy
    <3> QED BY <2>1, <3>1, <3>2
  <2>3. ASSUME NEW a \in DOMAIN asks', NEW b \in DOMAIN asks', asks'[a].state # "over", asks'[b].state # "over",
               asks'[a].turn = asks'[b].turn
        PROVE  a = b
    BY <1>0, <1>2, <1>3, <2>3 DEF Busy
  <2> QED BY <2>2, <2>3 DEF Busy
<1>6. Waits'
  <2>1. \A k \in Keys : pending[k] # 0 => pending[k] \in DOMAIN asks
    BY <1>0 DEF Pends
  <2> QED BY <1>0, <1>2, <1>3, <2>1 DEF Waits
<1>7. \A x \in DOMAIN msgs : msgs[x].is = "reply" => msgs[x].to \in DOMAIN asks
  <2>1. \A x \in DOMAIN msgs : /\ msgs[x].to \in Nat /\ msgs[x].to <= Len(asks)
                               /\ msgs[x].is = "reply" => msgs[x].to # 0
    BY <1>0, BaseFacts DEF Base, Replies
  <2>2. DOMAIN asks = 1..Len(asks) /\ Len(asks) \in Nat
    BY <1>0
  <2> QED BY <2>1, <2>2
<1>8. Sends'
  <2>1. ASSUME NEW x \in DOMAIN msgs, msgs[x].is = "reply"
        PROVE  /\ place[x] \in {"sent", "over"} /\ msgs[x].key = msgs[asks'[msgs[x].to].turn].key
               /\ \A y \in DOMAIN msgs : msgs[y].to = msgs[x].to => y = x
               /\ place[x] = "sent" => asks'[msgs[x].to].state = "waiting"
    BY <1>0, <1>3, <1>7, <2>1 DEF Sends
  <2>2. ASSUME NEW x \in DOMAIN msgs, msgs[x].is # "reply", place[x] = "sent", NEW a \in DOMAIN asks',
               msgs[asks'[a].turn].key = msgs[x].key
        PROVE  ~Open(a)'
    <3>1. a \in DOMAIN asks /\ asks'[a] = asks[a]
      BY <1>1, <1>2, <1>3, <2>2
    <3>2. ~Open(a)
      BY <1>0, <2>2, <3>1 DEF Sends
    <3> QED BY <3>1, <3>2 DEF Open
  <2> QED BY <1>0, <2>1, <2>2 DEF Sends
<1>9. ByOwn'
  BY <1>0, <1>2, <1>3 DEF ByOwn
<1> QED BY <1>4, <1>5, <1>6, <1>8, <1>9 DEF Meant

\* A question is registered, or its turn goes on.
LEMMA RequestMeant ==
  ASSUME Base, Meant, NEW a \in DOMAIN asks, Registers(a) \/ Returns(a)
  PROVE  Meant'
<1> DEFINE k == msgs[asks[a].turn].key
<1>0. /\ UNCHANGED <<msgs, place, sessions, owner, live, line>> /\ k \in Keys /\ Values
      /\ Single /\ NonEmpty /\ Busy /\ Waits /\ Sends /\ ByOwn /\ Shapes /\ Pends /\ Replies
  BY BaseFacts DEF Registers, Returns, channel, mapping, objects, Meant, Base, GInv, KeyOf
<1>1. \/ asks[a].state = "sending" /\ asks' = [asks EXCEPT ![a].state = "waiting"] /\ pending' = [pending EXCEPT ![k] = a]
      \/ asks[a].state = "answered" /\ asks' = [asks EXCEPT ![a].state = "over"] /\ pending' = [pending EXCEPT ![k] = 0]
  BY <1>0 DEF Registers, Returns, KeyOf, Waits
<1>2. PICK st \in {"waiting", "over"} :
        /\ asks' = [asks EXCEPT ![a].state = st]
        /\ st = "waiting" => asks[a].state = "sending" /\ pending' = [pending EXCEPT ![k] = a]
        /\ st = "over" => asks[a].state = "answered" /\ pending' = [pending EXCEPT ![k] = 0]
  BY <1>1
<1>3. /\ DOMAIN asks' = DOMAIN asks /\ asks'[a].state = st
      /\ \A b \in DOMAIN asks : /\ asks'[b].turn = asks[b].turn /\ asks'[b].by = asks[b].by
                                /\ b # a => asks'[b].state = asks[b].state
  BY <1>0, <1>2, StateTyped
<1>4. /\ pending'[k] = IF st = "waiting" THEN a ELSE 0
      /\ \A q \in Keys : q # k => pending'[q] = pending[q]
  BY <1>0, <1>2 DEF Values
<1>5. asks[a].state # "over"
  BY <1>2
<1> HIDE DEF k
<1>6. Single' /\ NonEmpty'
  BY <1>0 DEF Single, NonEmpty
<1>7. Busy'
  <2>1. \A x : Runs(x)' <=> Runs(x)
    BY <1>0 DEF Runs
  <2>2. \A b \in DOMAIN asks : asks'[b].turn = asks[b].turn /\ (asks'[b].state # "over" => asks[b].state # "over")
    BY <1>3, <1>5
  <2> QED BY <1>0, <1>3, <2>1, <2>2 DEF Busy
<1>8. Waits'
  <2>1. ASSUME NEW b \in DOMAIN asks, asks'[b].state = "waiting" PROVE pending'[msgs[asks[b].turn].key] = b
    <3>1. CASE b = a
      BY <1>3, <1>4, <2>1, <3>1 DEF k
    <3>2. CASE b # a
      <4>1. asks[b].state = "waiting"
        BY <1>3, <2>1, <3>2
      <4>2. msgs[asks[b].turn].key # k /\ msgs[asks[b].turn].key \in Keys
        BY <1>0, <1>5, <3>2, <4>1, OnePerKey, BaseFacts DEF k, KeyOf
      <4> QED BY <1>0, <1>4, <4>1, <4>2 DEF Waits
    <3> QED BY <3>1, <3>2
  <2>2. \A b \in DOMAIN asks : asks'[b].state # "cancelled"
    BY <1>0, <1>3 DEF Waits
  <2>3. ASSUME NEW q \in Keys, pending'[q] # 0 PROVE asks'[pending'[q]].state = "waiting"
    <3>1. CASE q = k
      BY <1>3, <1>4, <2>3, <3>1
    <3>2. CASE q # k
      <4>1. pending'[q] = pending[q] /\ pending[q] # 0
        BY <1>4, <2>3, <3>2
      <4>2. asks[pending[q]].state = "waiting" /\ pending[q] \in DOMAIN asks /\ msgs[asks[pending[q]].turn].key = q
        BY <1>0, <4>1 DEF Waits, Pends
      <4>3. pending[q] # a
        BY <3>2, <4>2 DEF k
      <4> QED BY <1>3, <4>1, <4>2, <4>3
    <3> QED BY <3>1, <3>2
  <2> QED BY <1>0, <1>3, <2>1, <2>2, <2>3 DEF Waits
<1>9. \A x \in DOMAIN msgs : msgs[x].is = "reply" => msgs[x].to \in DOMAIN asks
  <2>1. \A x \in DOMAIN msgs : /\ msgs[x].to \in Nat /\ msgs[x].to <= Len(asks)
                               /\ msgs[x].is = "reply" => msgs[x].to # 0
    BY <1>0, BaseFacts DEF Base, Replies
  <2>2. DOMAIN asks = 1..Len(asks) /\ Len(asks) \in Nat
    BY <1>0, BaseFacts DEF Base
  <2> QED BY <2>1, <2>2
<1>10. Sends'
  <2>1. ASSUME NEW x \in DOMAIN msgs, msgs[x].is = "reply"
        PROVE  /\ place[x] \in {"sent", "over"} /\ msgs[x].key = msgs[asks'[msgs[x].to].turn].key
               /\ \A y \in DOMAIN msgs : msgs[y].to = msgs[x].to => y = x
               /\ place[x] = "sent" => asks'[msgs[x].to].state = "waiting"
    <3>1. place[x] = "sent" => msgs[x].to # a
      BY <1>0, <1>2, <2>1 DEF Sends
    <3> QED BY <1>0, <1>3, <1>9, <2>1, <3>1 DEF Sends
  <2>2. ASSUME NEW x \in DOMAIN msgs, msgs[x].is # "reply", place[x] = "sent", NEW b \in DOMAIN asks,
               msgs[asks[b].turn].key = msgs[x].key
        PROVE  ~Open(b)'
    <3>1. ~Open(b)
      BY <1>0, <2>2 DEF Sends
    <3> QED BY <1>2, <1>3, <3>1 DEF Open
  <2> QED BY <1>0, <1>3, <2>1, <2>2 DEF Sends
<1>11. ByOwn'
  BY <1>0, <1>3 DEF ByOwn
<1> QED BY <1>6, <1>7, <1>8, <1>10, <1>11 DEF Meant

\* A turn ends that asks nothing.
LEMMA EndMeant ==
  ASSUME Base, Meant, NEW m \in DOMAIN msgs, TurnEnds(m)
  PROVE  Meant'
<1>0. /\ UNCHANGED <<msgs, sessions, owner, live, requests, asks>> /\ place' = [place EXCEPT ![m] = "over"]
      /\ (\A a \in DOMAIN asks : asks[a].turn = m => asks[a].state = "over") /\ "over" \in Places /\ Shapes
      /\ line' = [o \in DOMAIN line |-> IF line[o] # <<>> /\ Head(line[o]) = m THEN Tail(line[o]) ELSE line[o]]
      /\ Single /\ NonEmpty /\ Busy /\ Waits /\ Sends /\ ByOwn
  BY DEF TurnEnds, AsksOf, mapping, requests, Meant, Base, GInv, Places
<1>1. place'[m] = "over" /\ \A x \in DOMAIN msgs : x # m => place'[x] = place[x]
  BY <1>0, PlaceTyped
<1>2. Single'
  BY <1>0 DEF Single
<1>3. NonEmpty'
  <2>1. ASSUME NEW o \in DOMAIN line, line'[o] # <<>> PROVE line[o] # <<>>
    BY <1>0, <2>1
  <2> QED BY <1>0, <2>1 DEF NonEmpty
<1>4. Busy'
  <2>1. ASSUME NEW a \in DOMAIN asks, asks[a].state # "over" PROVE Runs(asks[a].turn)'
    <3>1. PICK o \in DOMAIN line : line[o] # <<>> /\ Head(line[o]) = asks[a].turn
      BY <1>0, <2>1 DEF Busy, Runs
    <3>2. asks[a].turn # m
      BY <1>0, <2>1
    <3>3. o \in DOMAIN line' /\ line'[o] = line[o]
      BY <1>0, <3>1, <3>2
    <3> QED BY <1>0, <3>1, <3>3 DEF Runs
  <2> QED BY <1>0, <2>1 DEF Busy
<1>5. Sends'
  BY <1>0, <1>1, SendsKept
<1> QED BY <1>0, <1>2, <1>3, <1>4, <1>5, AskedKept DEF Meant

\* No session with a question is evicted.
LEMMA EvictMeant ==
  ASSUME Base, Meant, NEW s \in DOMAIN live, Evict(s)
  PROVE  Meant'
<1>0. /\ UNCHANGED <<msgs, place, sessions, owner, line, requests, asks>> /\ live' = [live EXCEPT ![s] = 0]
      /\ line[live[s]] = <<>> /\ Single /\ NonEmpty /\ Busy /\ Waits /\ Sends /\ ByOwn
  BY DEF Evict, channel, mapping, requests, Meant
<1>1. NonEmpty'
  <2>1. ASSUME NEW o \in DOMAIN line, line[o] # <<>> PROVE \E t \in DOMAIN live' : live'[t] = o
    <3>1. PICK t \in DOMAIN live : live[t] = o
      BY <1>0, <2>1 DEF NonEmpty
    <3>2. t # s
      BY <1>0, <2>1, <3>1
    <3> QED BY <1>0, <3>1, <3>2
  <2> QED BY <1>0, <2>1 DEF NonEmpty
<1>2. Single' /\ Sends'
  BY <1>0 DEF Single, Sends, Open
<1>3. Busy'
  BY <1>0, StayHeads, BusyKept
<1> QED BY <1>0, <1>1, <1>2, <1>3, AskedKept DEF Meant

\* A step that changes nothing keeps what is meant.
LEMMA StillMeant == Meant /\ UNCHANGED vars => Meant'
<1> SUFFICES ASSUME Meant, UNCHANGED vars PROVE Meant'
  OBVIOUS
<1>1. UNCHANGED <<msgs, place, sessions, owner, live, line, requests, asks, pending>>
  BY DEF vars, channel, mapping, objects, requests
<1>2. Single' /\ NonEmpty' /\ Sends'
  BY <1>1 DEF Meant, Single, NonEmpty, Sends, Open
<1>3. Busy'
  BY <1>1, StayHeads, BusyKept DEF Meant
<1> QED BY <1>1, <1>2, <1>3, AskedKept DEF Meant

\* Every step keeps answers and questions together.
LEMMA StepMeant == MInv /\ [Next]_vars => MInv'
<1> SUFFICES ASSUME MInv, [Next]_vars PROVE MInv'
  OBVIOUS
<1>0. Base /\ LInv'
  BY StepOrdered DEF MInv, LInv
<1>1. ASSUME Quiet' PROVE Meant'
  <2>1. Quiet
    BY <1>1, StillCalm DEF Quiet, Tolerates
  <2>2. Meant
    BY <2>1 DEF MInv
  <2>3. LoadAlone
    BY <2>1 DEF MInv, LInv, Ordered, Uncrossed, Quiet, Tolerates, AllDepartures
  <2>4. ~Restart /\ \A s : ~Cancel(s)
    <3>1. Restart => "crash" \in departs' \/ "orphaned" \in departs'
      BY DEF Restart, Departs
    <3>2. \A s : Cancel(s) => "cancel" \in departs'
      BY DEF Cancel, Departs
    <3> QED BY <1>1, <3>1, <3>2 DEF Quiet, Tolerates
  <2>5. CASE UNCHANGED vars
    BY <2>2, <2>5, StillMeant
  <2>6. CASE Next
    BY <1>0, <1>1, <2>2, <2>3, <2>4, <2>6, UserMeant, HandleMeant, MadeMeant, LoadedMeant, FailsMeant,
       AsksMeant, RequestMeant, EndMeant, EvictMeant DEF Next
  <2> QED BY <2>5, <2>6
<1> QED BY <1>0, <1>1 DEF MInv

-----------------------------------------------------------------------------
(* A question is decided by its own answer, and an answer never becomes a  *)
(* prompt: a conversation has one session, one object and so one turn that *)
(* runs and one question, and what comes while it is pending is the reply  *)
(* to it.  Where a user answers early or twice, writes while a question is *)
(* on its way or open, or a turn is cancelled, it need not be so           *)
(* (GatewayAdapter.on_permission, _pending_permissions).                   *)
THEOREM AnswersAreMeant == Spec => []AnswersMeant
<1>1. Init => MInv
  <2> SUFFICES ASSUME Init PROVE MInv
    OBVIOUS
  <2>1. /\ msgs = <<>> /\ owner = <<>> /\ live = <<>> /\ line = <<>> /\ asks = <<>>
        /\ pending = [k \in Keys |-> 0]
    BY DEF Init
  <2>2. Ordered
    BY DEF Init, Ordered, Order, LoadAlone, Rising
  <2>3. Meant
    BY <2>1 DEF Meant, Single, NonEmpty, Busy, Waits, Sends, ByOwn
  <2> QED BY <2>2, <2>3, InitBase DEF LInv, MInv
<1>2. MInv => AnswersMeant
  BY DEF MInv, Quiet, Meant, Sends, ByOwn, AnswersMeant
<1> QED BY <1>1, <1>2, StepMeant, PTL DEF Spec
=============================================================================
