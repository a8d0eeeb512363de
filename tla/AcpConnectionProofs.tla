-------------------------- MODULE AcpConnectionProofs --------------------------
(***************************************************************************)
(* What holds of the connections of a session for any number of clients,   *)
(* permission requests and updates: a user's answer decides about the tool *)
(* that user was shown, and a client that has its answer has the output of *)
(* its turn.                                                               *)
(***************************************************************************)
EXTENDS AcpConnection, SequenceTheorems, TLAPS

\* The permission requests among some items.
Questions(items) == {[id |-> i.id, tool |-> i.tool] : i \in {j \in Range(items) : j.tool # 0}}

\* What the client was shown, or will be when its queue is drained.
Held(c) == shown[c] \cup Questions(outq[c])

\* An id is taken for one request of a connection, and there are no more
\* requests than tools.
Numbered ==
  /\ \A c \in Clients : lastId[c] <= tool
  /\ \A c \in Clients : \A q \in Held(c) : q.id \in 1..lastId[c]

\* A turn that asks awaits a request of a client, and whoever was shown that
\* request was shown the tool; a turn that does not ask awaits nothing.
Awaited ==
  /\ turn = "asking" =>
       /\ asked.to \in Clients /\ asked.id \in 1..lastId[asked.to]
       /\ \A q \in Held(asked.to) : q.id = asked.id => q.tool = tool
  /\ turn # "asking" => asked = NoAsk /\ future = "none"

\* A turn is told it may run a tool that was allowed.
Decided == (future = "allow" => tool \in allowed) /\ GrantedWasAllowed

\* A turn is somebody's, whose prompt runs as long as the connection is open.
Owned == turn # "idle" =>
  requester \in Clients /\ (conn[requester] = "open" => calls[requester]["prompt"] = "running")

\* The turns whose output waits in a client's queue.
Sources(c) == {i.of : i \in Range(outq[c])}

\* A client whose prompt was answered awaits no output of a turn of its own.
Served == \A c \in Clients : conn[c] = "open" /\ calls[c]["prompt"] = "none" => c \notin Sources(c)

AInv == TypeOK /\ Numbered /\ Awaited /\ Decided /\ Owned /\ Served

-----------------------------------------------------------------------------
(* Queues                                                                  *)

\* What is put into a queue.
LEMMA AppendFacts ==
  ASSUME NEW S, NEW q \in Seq(S), NEW e \in S
  PROVE  Append(q, e) \in Seq(S) /\ Range(Append(q, e)) = Range(q) \cup {e}
<1> DEFINE a == Append(q, e)
<1>1. DOMAIN q = 1..Len(q) /\ Len(q) \in Nat
  BY LenProperties
<1>2. a \in Seq(S) /\ Len(a) = Len(q) + 1 /\ a[Len(q) + 1] = e
      /\ \A i \in 1..Len(q) : a[i] = q[i]
  BY AppendProperties
<1>3. DOMAIN a = 1..(Len(q) + 1)
  BY <1>2, LenProperties
<1> HIDE DEF a
<1>4. \A i \in 1..(Len(q) + 1) : i \in 1..Len(q) \/ i = Len(q) + 1
  BY <1>1
<1>5. Len(q) + 1 \in 1..(Len(q) + 1) /\ \A i \in 1..Len(q) : i \in 1..(Len(q) + 1)
  BY <1>1
<1>6. Range(a) = Range(q) \cup {e}
  BY <1>1, <1>2, <1>3, <1>4, <1>5 DEF Range
<1> QED BY <1>2, <1>6 DEF a

\* What is taken from a queue.
LEMMA RangeFacts ==
  ASSUME NEW S, NEW q \in Seq(S)
  PROVE  /\ Range(q) \subseteq S /\ Range(<<>>) = {}
         /\ q # <<>> => /\ Tail(q) \in Seq(S) /\ Range(Tail(q)) \subseteq Range(q)
                        /\ Head(q) \in Range(q) /\ Range(<<Head(q)>>) = {Head(q)}
<1>1. DOMAIN q = 1..Len(q) /\ Len(q) \in Nat
  BY LenProperties
<1>2. Range(q) \subseteq S
  BY <1>1, ElementOfSeq DEF Range
<1>3. Range(<<>>) = {}
  BY DEF Range
<1>4. ASSUME q # <<>>
      PROVE  /\ Tail(q) \in Seq(S) /\ Range(Tail(q)) \subseteq Range(q)
             /\ Head(q) \in Range(q) /\ Range(<<Head(q)>>) = {Head(q)}
  <2>1. /\ Tail(q) \in Seq(S) /\ Len(Tail(q)) = Len(q) - 1
        /\ \A i \in 1..Len(Tail(q)) : Tail(q)[i] = q[i + 1]
    BY <1>4, HeadTailProperties
  <2>2. DOMAIN Tail(q) = 1..(Len(q) - 1)
    BY <2>1, LenProperties
  <2>3. \A i \in 1..(Len(q) - 1) : i + 1 \in 1..Len(q)
    BY <1>1
  <2>4. Range(Tail(q)) \subseteq Range(q)
    BY <1>1, <2>1, <2>2, <2>3 DEF Range
  <2>5. 1 \in 1..Len(q) /\ Head(q) = q[1]
    BY <1>1, <1>4, EmptySeq
  <2>6. Head(q) \in Range(q)
    BY <1>1, <2>5 DEF Range
  <2>7. Range(<<Head(q)>>) = {Head(q)}
    BY DEF Range
  <2> QED BY <2>1, <2>4, <2>6, <2>7
<1> QED BY <1>2, <1>3, <1>4

\* More items hold more questions.
LEMMA QuestionsFacts ==
  /\ Questions(<<>>) = {}
  /\ \A p, q : Range(p) \subseteq Range(q) => Questions(p) \subseteq Questions(q)
<1>1. Range(<<>>) = {}
  BY DEF Range
<1>2. Questions(<<>>) = {}
  BY <1>1 DEF Questions
<1>3. ASSUME NEW p, NEW q, Range(p) \subseteq Range(q) PROVE Questions(p) \subseteq Questions(q)
  BY <1>3 DEF Questions
<1> QED BY <1>2, <1>3

\* A question an item holds has a number and a tool.
LEMMA HeldTyped ==
  ASSUME TypeOK, Numbered, NEW c \in Clients
  PROVE  /\ Range(outq[c]) \subseteq Items
         /\ \A q \in Held(c) : /\ q \in Shown /\ q.id \in Nat /\ q.id <= lastId[c]
                               /\ q = [id |-> q.id, tool |-> q.tool]
         /\ Questions(outq[c]) \subseteq Shown
<1>1. Range(outq[c]) \subseteq Items
  BY RangeFacts DEF TypeOK
<1>2. lastId[c] \in 0..MaxAsks
  BY DEF TypeOK
<1>3. ASSUME NEW q \in Questions(outq[c]) PROVE q \in Shown
  <2>1. PICK i \in Items : q = [id |-> i.id, tool |-> i.tool] /\ i.tool # 0
    BY <1>1, <1>3 DEF Questions
  <2>2. q.id \in 1..MaxAsks
    BY <1>2, <1>3, ConnectionAssumption DEF Numbered, Held
  <2>3. q.id = i.id /\ q.tool = i.tool /\ i.tool \in 1..MaxAsks
    BY <2>1, ConnectionAssumption DEF Items
  <2> QED BY <2>1, <2>2, <2>3 DEF Shown, Tools
<1>4. shown[c] \subseteq Shown
  BY DEF TypeOK
<1>5. \A q \in Held(c) : q \in Shown
  BY <1>3, <1>4 DEF Held
<1>6. \A q \in Held(c) : q.id \in 1..lastId[c]
  BY DEF Numbered
<1> QED BY <1>1, <1>2, <1>3, <1>5, <1>6 DEF Shown, Tools

-----------------------------------------------------------------------------
(* Permissions                                                             *)

\* A step that asks, answers and decides nothing, and shows nobody more.
LEMMA SameAsking ==
  ASSUME AInv, UNCHANGED <<lastId, asked, future, tool, allowed, granted>>,
         turn' = "asking" <=> turn = "asking",
         \A c \in Clients : Held(c)' \subseteq Held(c)
  PROVE  Numbered' /\ Awaited' /\ Decided'
<1>1. Numbered'
  BY DEF AInv, Numbered
<1>2. Awaited'
  BY DEF AInv, Awaited, NoAsk
<1>3. Decided'
  BY DEF AInv, Decided, GrantedWasAllowed
<1> QED BY <1>1, <1>2, <1>3

\* A step that leaves the queues and what the clients were shown.
LEMMA SameHeld ==
  ASSUME UNCHANGED <<outq, shown>>
  PROVE  \A c \in Clients : Held(c)' = Held(c) /\ Sources(c)' = Sources(c)
BY DEF Held, Sources, Questions

\* A step that leaves the turn and the requests it answers, and puts nothing
\* into a queue.
LEMMA SameTurn ==
  ASSUME AInv, UNCHANGED <<turn, requester>>,
         \A c \in Clients : Sources(c)' \subseteq Sources(c),
         \A c \in Clients : conn'[c] = "open" =>
           conn[c] = "open" /\ calls'[c]["prompt"] = calls[c]["prompt"]
  PROVE  Owned' /\ Served'
<1>1. Owned'
  BY DEF AInv, Owned
<1>2. Served'
  BY DEF AInv, Served
<1> QED BY <1>1, <1>2

\* A client that takes items from its queue holds no more than before.
LEMMA TakesFromQueue ==
  ASSUME AInv, NEW c \in Clients, NEW items \in Seq(Items), NEW rest \in Seq(Items),
         Range(items) \subseteq Range(outq[c]), Range(rest) \subseteq Range(outq[c]),
         outq' = [outq EXCEPT ![c] = rest], Receives(c, items)
  PROVE  /\ \A d \in Clients : Held(d)' \subseteq Held(d) /\ Sources(d)' \subseteq Sources(d)
         /\ outq' \in [Clients -> Seq(Items)] /\ shown' \in [Clients -> SUBSET Shown]
<1>1. shown' = [shown EXCEPT ![c] = @ \cup Questions(items)]
  BY DEF Receives, Questions
<1>2. outq \in [Clients -> Seq(Items)] /\ shown \in [Clients -> SUBSET Shown]
  BY DEF AInv, TypeOK
<1>3. Questions(items) \subseteq Questions(outq[c]) /\ Questions(rest) \subseteq Questions(outq[c])
  BY QuestionsFacts
<1>4. Questions(outq[c]) \subseteq Shown
  BY HeldTyped DEF AInv
<1>5. ASSUME NEW d \in Clients PROVE Held(d)' \subseteq Held(d) /\ Sources(d)' \subseteq Sources(d)
  <2>1. CASE d = c
    <3>1. outq'[d] = rest /\ shown'[d] = shown[c] \cup Questions(items)
      BY <1>1, <1>2, <2>1
    <3>2. Held(d)' = shown'[d] \cup Questions(outq'[d])
      BY DEF Held, Questions
    <3>3. Sources(d)' = {i.of : i \in Range(outq'[d])}
      BY DEF Sources
    <3>4. Held(d)' \subseteq Held(d)
      BY <1>3, <2>1, <3>1, <3>2 DEF Held
    <3>5. Sources(d)' \subseteq Sources(d)
      BY <2>1, <3>1, <3>3 DEF Sources
    <3> QED BY <3>4, <3>5
  <2>2. CASE d # c
    <3>1. outq'[d] = outq[d] /\ shown'[d] = shown[d]
      BY <1>1, <1>2, <2>2
    <3> QED BY <3>1 DEF Held, Sources, Questions
  <2> QED BY <2>1, <2>2
<1>6. outq' \in [Clients -> Seq(Items)] /\ shown' \in [Clients -> SUBSET Shown]
  BY <1>1, <1>2, <1>3, <1>4
<1> QED BY <1>5, <1>6

-----------------------------------------------------------------------------
(* The steps                                                               *)

\* A prompt makes its client the owner of the turn, or waits among its other
\* requests.
LEMMA PromptStep ==
  ASSUME AInv, NEW c \in Clients, Prompt(c)
  PROVE  AInv'
<1>1. TypeOK'
  BY DEF AInv, TypeOK, Prompt, Kinds
<1>2. Numbered' /\ Awaited' /\ Decided'
  BY SameHeld, SameAsking DEF Prompt
<1>3. calls \in [Clients -> [Kinds -> {"none", "running", "done"}]] /\ "prompt" \in Kinds
  BY DEF AInv, TypeOK, Kinds
<1>4. Owned'
  BY <1>3 DEF Owned, Prompt
<1>5. Served'
  BY <1>3, SameHeld DEF AInv, Served, Prompt
<1> QED BY <1>1, <1>2, <1>4, <1>5 DEF AInv

\* Requests besides prompts, the binding of a client, and $/cancel_request.
LEMMA OtherRequestStep ==
  ASSUME AInv, NEW c \in Clients, Call(c) \/ CallEnds(c) \/ Binds(c) \/ CancelRequest(c)
  PROVE  AInv'
<1>1. calls \in [Clients -> [Kinds -> {"none", "running", "done"}]]
      /\ "prompt" \in Kinds /\ "other" \in Kinds
  BY DEF AInv, TypeOK, Kinds
<1>2. CASE Call(c) \/ CallEnds(c)
  <2>0. calls' \in [Clients -> [Kinds -> {"none", "running", "done"}]]
    BY <1>1, <1>2 DEF Call, CallEnds
  <2>1. TypeOK'
    BY <1>2, <2>0 DEF AInv, TypeOK, Call, CallEnds, session
  <2>2. \A d \in Clients : calls'[d]["prompt"] = calls[d]["prompt"]
    BY <1>1, <1>2 DEF Call, CallEnds
  <2>3. Numbered' /\ Awaited' /\ Decided'
    BY <1>2, SameHeld, SameAsking DEF Call, CallEnds, session
  <2>4. Owned' /\ Served'
    BY <1>2, <2>2, SameHeld, SameTurn DEF Call, CallEnds, session
  <2> QED BY <2>1, <2>3, <2>4 DEF AInv
<1>3. CASE Binds(c)
  <2>1. senders' \in Seq(Clients)
    BY <1>3, AppendProperties DEF AInv, TypeOK, Binds
  <2>2. TypeOK'
    BY <1>3, <2>1 DEF AInv, TypeOK, Binds, wire
  <2>3. Numbered' /\ Awaited' /\ Decided'
    BY <1>3, SameHeld, SameAsking DEF Binds, wire
  <2>4. Owned' /\ Served'
    BY <1>3, SameHeld, SameTurn DEF Binds, wire
  <2> QED BY <2>2, <2>3, <2>4 DEF AInv
<1>4. CASE CancelRequest(c)
  <2>1. TypeOK'
    BY <1>4 DEF AInv, TypeOK, CancelRequest, wire
  <2>2. Numbered' /\ Awaited' /\ Decided'
    BY <1>4, SameHeld, SameAsking DEF CancelRequest, wire
  <2>3. Owned' /\ Served'
    BY <1>4, SameHeld, SameTurn DEF CancelRequest, wire
  <2> QED BY <2>1, <2>2, <2>3 DEF AInv
<1> QED BY <1>2, <1>3, <1>4

\* A client is shown the head of its queue; nothing is shown that was not
\* held.
LEMMA DeliverStep ==
  ASSUME AInv, NEW c \in Clients, Deliver(c)
  PROVE  AInv'
<1>1. outq[c] \in Seq(Items) /\ outq[c] # <<>>
  BY DEF AInv, TypeOK, Deliver
<1>2. Head(outq[c]) \in Items
  BY <1>1, RangeFacts
<1>3. <<Head(outq[c])>> \in Seq(Items)
  BY <1>2
<1>4. /\ \A d \in Clients : Held(d)' \subseteq Held(d) /\ Sources(d)' \subseteq Sources(d)
      /\ outq' \in [Clients -> Seq(Items)] /\ shown' \in [Clients -> SUBSET Shown]
  <2>1. Tail(outq[c]) \in Seq(Items) /\ Range(Tail(outq[c])) \subseteq Range(outq[c])
        /\ Range(<<Head(outq[c])>>) \subseteq Range(outq[c])
    BY <1>1, RangeFacts
  <2>2. outq' = [outq EXCEPT ![c] = Tail(outq[c])] /\ Receives(c, <<Head(outq[c])>>)
    BY DEF Deliver
  <2> QED BY <1>3, <2>1, <2>2, TakesFromQueue
<1>5. TypeOK'
  BY <1>4 DEF AInv, TypeOK, Deliver, session
<1>6. Numbered' /\ Awaited' /\ Decided'
  BY <1>4, SameAsking DEF Deliver, session
<1>7. Owned' /\ Served'
  BY <1>4, SameTurn DEF Deliver, session
<1> QED BY <1>5, <1>6, <1>7 DEF AInv

\* A response takes everything that is left of the queue with it.
LEMMA EmptiesQueue ==
  ASSUME AInv, NEW c \in Clients, outq' = [outq EXCEPT ![c] = <<>>], Receives(c, outq[c])
  PROVE  /\ \A d \in Clients : Held(d)' \subseteq Held(d) /\ Sources(d)' \subseteq Sources(d)
         /\ outq' \in [Clients -> Seq(Items)] /\ shown' \in [Clients -> SUBSET Shown]
         /\ Sources(c)' = {}
<1>1. outq[c] \in Seq(Items) /\ <<>> \in Seq(Items) /\ outq \in [Clients -> Seq(Items)]
  BY EmptySeq DEF AInv, TypeOK
<1>2. Range(<<>>) = {}
  BY RangeFacts, <1>1
<1>3. Range(<<>>) \subseteq Range(outq[c]) /\ Range(outq[c]) \subseteq Range(outq[c])
  BY <1>2
<1>4. /\ \A d \in Clients : Held(d)' \subseteq Held(d) /\ Sources(d)' \subseteq Sources(d)
      /\ outq' \in [Clients -> Seq(Items)] /\ shown' \in [Clients -> SUBSET Shown]
  BY <1>1, <1>3, TakesFromQueue
<1>5. Sources(c)' = {}
  <2>1. outq'[c] = <<>>
    BY <1>1
  <2>2. Sources(c)' = {i.of : i \in Range(outq'[c])}
    BY DEF Sources
  <2> QED BY <1>2, <2>1, <2>2
<1> QED BY <1>4, <1>5

\* A prompt is answered with what its turn left in the queue.
LEMMA RespondStep ==
  ASSUME AInv, NEW c \in Clients, NEW k \in Kinds, Respond(c, k)
  PROVE  AInv'
<1>1. calls \in [Clients -> [Kinds -> {"none", "running", "done"}]] /\ "prompt" \in Kinds
  BY DEF AInv, TypeOK, Kinds
<1>2. /\ \A d \in Clients : Held(d)' \subseteq Held(d) /\ Sources(d)' \subseteq Sources(d)
      /\ outq' \in [Clients -> Seq(Items)] /\ shown' \in [Clients -> SUBSET Shown]
      /\ Sources(c)' = {}
  BY EmptiesQueue DEF Respond
<1>3. TypeOK'
  BY <1>1, <1>2 DEF AInv, TypeOK, Respond, session
<1>4. Numbered' /\ Awaited' /\ Decided'
  BY <1>2, SameAsking DEF Respond, session
<1>5. \A d \in Clients : d # c => calls'[d] = calls[d]
  BY <1>1 DEF Respond
<1>6. calls[c]["prompt"] = "running" => calls'[c]["prompt"] = "running"
  BY <1>1 DEF Respond
<1>7. Owned'
  BY <1>5, <1>6 DEF AInv, Owned, Respond, session
<1>8. Served'
  BY <1>2, <1>5 DEF AInv, Served, Respond
<1> QED BY <1>3, <1>4, <1>7, <1>8 DEF AInv

\* session/cancel touches the turn's task alone.
LEMMA CancelSessionStep ==
  ASSUME AInv, NEW c \in Clients, CancelSession(c)
  PROVE  AInv'
<1>1. /\ \A d \in Clients : Held(d)' \subseteq Held(d) /\ Sources(d)' \subseteq Sources(d)
      /\ outq' \in [Clients -> Seq(Items)] /\ shown' \in [Clients -> SUBSET Shown]
  BY EmptiesQueue DEF CancelSession
<1>2. TypeOK'
  BY <1>1 DEF AInv, TypeOK, CancelSession
<1>3. Numbered' /\ Awaited' /\ Decided'
  BY <1>1, SameAsking DEF CancelSession
<1>4. Owned' /\ Served'
  BY <1>1, SameTurn DEF CancelSession
<1> QED BY <1>2, <1>3, <1>4 DEF AInv

\* A closed connection cancels the tasks of its own requests.
LEMMA DisconnectStep ==
  ASSUME AInv, NEW c \in Clients, Disconnect(c)
  PROVE  AInv'
<1>1. /\ outq \in [Clients -> Seq(Items)] /\ shown \in [Clients -> SUBSET Shown]
      /\ conn \in [Clients -> {"open", "closing", "swept", "gone"}]
      /\ calls \in [Clients -> [Kinds -> {"none", "running", "done"}]]
      /\ <<>> \in Seq(Items) /\ Idle \in [Kinds -> {"none", "running", "done"}]
  BY EmptySeq DEF AInv, TypeOK, Idle
<1>2. TypeOK'
  BY <1>1 DEF AInv, TypeOK, Disconnect
<1>3. ASSUME NEW d \in Clients PROVE Held(d)' \subseteq Held(d) /\ Sources(d)' \subseteq Sources(d)
  <2>1. Held(d)' = shown'[d] \cup Questions(outq'[d]) /\ Sources(d)' = {i.of : i \in Range(outq'[d])}
    BY DEF Held, Questions, Sources
  <2>2. CASE d = c
    <3>1. outq'[d] = <<>> /\ shown'[d] = {}
      BY <1>1, <2>2 DEF Disconnect
    <3>2. Range(<<>>) = {} /\ Questions(<<>>) = {}
      BY <1>1, RangeFacts, QuestionsFacts
    <3> QED BY <2>1, <3>1, <3>2
  <2>3. CASE d # c
    <3>1. outq'[d] = outq[d] /\ shown'[d] = shown[d]
      BY <1>1, <2>3 DEF Disconnect
    <3> QED BY <2>1, <3>1 DEF Held, Sources
  <2> QED BY <2>2, <2>3
<1>4. Numbered' /\ Awaited' /\ Decided'
  BY <1>3, SameAsking DEF Disconnect
<1>5. \A d \in Clients : conn'[d] = "open" => conn[d] = "open" /\ calls'[d] = calls[d]
  BY <1>1 DEF Disconnect
<1>6. Owned' /\ Served'
  BY <1>3, <1>5, SameTurn DEF Disconnect
<1> QED BY <1>2, <1>4, <1>6 DEF AInv

\* An item that is put is in the queue or dropped.
LEMMA PutFacts ==
  ASSUME TypeOK, NEW c \in Clients, NEW item \in Items
  PROVE  Put(c, item) \in Seq(Items) /\ Range(Put(c, item)) \subseteq Range(outq[c]) \cup {item}
<1>1. outq[c] \in Seq(Items)
  BY DEF TypeOK
<1>2. Append(outq[c], item) \in Seq(Items) /\ Range(Append(outq[c], item)) = Range(outq[c]) \cup {item}
  BY <1>1, AppendFacts
<1> QED BY <1>1, <1>2 DEF Put

\* Updates come from the requester, whose prompt runs while its connection is
\* open, and hold no question.
LEMMA UpdateStep ==
  ASSUME AInv, Update
  PROVE  AInv'
<1> DEFINE item == [of |-> requester, id |-> 0, tool |-> 0]
<1>1. item \in Items /\ requester \in Clients
  BY ConnectionAssumption DEF AInv, Owned, Update, Items
<1>2. outq \in [Clients -> Seq(Items)]
  BY DEF AInv, TypeOK
<1>3. ASSUME NEW d \in Clients
      PROVE  outq'[d] \in Seq(Items) /\ Range(outq'[d]) \subseteq Range(outq[d]) \cup {item}
  <2>1. outq'[d] = outq[d] \/ outq'[d] = Put(d, item)
    BY DEF Update
  <2>2. Put(d, item) \in Seq(Items) /\ Range(Put(d, item)) \subseteq Range(outq[d]) \cup {item}
    BY <1>1, PutFacts DEF AInv
  <2> QED BY <1>2, <2>1, <2>2
<1>4. outq' \in [Clients -> Seq(Items)]
  BY <1>3 DEF Update
<1>5. TypeOK'
  BY <1>4 DEF AInv, TypeOK, Update, session
<1>6. ASSUME NEW d \in Clients
      PROVE  Held(d)' \subseteq Held(d) /\ Sources(d)' \subseteq Sources(d) \cup {requester}
  <2>1. Held(d)' = shown[d] \cup Questions(outq'[d]) /\ Sources(d)' = {i.of : i \in Range(outq'[d])}
    BY DEF Held, Questions, Sources, Update
  <2>2. item.tool = 0 /\ item.of = requester
    OBVIOUS
  <2>3. Questions(outq'[d]) \subseteq Questions(outq[d])
    BY <1>3, <2>2 DEF Questions
  <2> QED BY <1>3, <2>1, <2>2, <2>3 DEF Held, Sources
<1>7. Numbered' /\ Awaited' /\ Decided'
  BY <1>6, SameAsking DEF Update, session
<1>8. Owned'
  BY DEF AInv, Owned, Update, session
<1>9. Served'
  BY <1>6 DEF AInv, Owned, Served, Update, session
<1> QED BY <1>5, <1>7, <1>8, <1>9 DEF AInv

\* The new request has a number of its own: nobody was shown another tool
\* under it.
LEMMA AskStep ==
  ASSUME AInv, Ask
  PROVE  AInv'
<1>1. PICK c \in Clients : c = Head(senders)
  BY RangeFacts DEF AInv, TypeOK, Ask
<1>2. /\ outq \in [Clients -> Seq(Items)] /\ lastId \in [Clients -> 0..MaxAsks]
      /\ pending \in [Clients -> SUBSET (1..MaxAsks)] /\ shown \in [Clients -> SUBSET Shown]
      /\ tool \in 0..MaxAsks /\ MaxAsks \in Nat
  BY ConnectionAssumption DEF AInv, TypeOK
<1>3. tool + 1 \in 1..MaxAsks
      /\ \E n \in 1..MaxAsks : n = lastId[c] + 1 /\ n <= tool + 1 /\ NextId(c) = n
  BY <1>2 DEF AInv, Numbered, Ask, NextId
<1>id. PICK id \in 1..MaxAsks : id = lastId[c] + 1 /\ id <= tool + 1 /\ NextId(c) = id
  BY <1>3
<1> DEFINE item == [of |-> requester, id |-> id, tool |-> tool + 1]
<1>4. item \in Items /\ requester \in Clients /\ turn = "running"
      /\ item.tool = tool + 1 /\ item.id = id /\ item.of = requester
  BY <1>2, <1>3, <1>id DEF AInv, Owned, Ask, Items
<1>5. /\ outq' = [outq EXCEPT ![c] = Put(c, item)]
      /\ lastId' = [lastId EXCEPT ![c] = id]
      /\ pending' = [pending EXCEPT ![c] = @ \cup {id}]
      /\ asked' = [to |-> c, id |-> id]
      /\ tool' = tool + 1 /\ turn' = "asking" /\ future' = "pending"
      /\ UNCHANGED <<conn, calls, shown, senders, requester, stopping, allowed, granted>>
  BY <1>id, <1>1 DEF Ask
<1> HIDE DEF item
<1>6. Put(c, item) \in Seq(Items) /\ Range(Put(c, item)) \subseteq Range(outq[c]) \cup {item}
  BY <1>4, PutFacts DEF AInv
<1>7. TypeOK'
  <2>1. outq' \in [Clients -> Seq(Items)]
    BY <1>2, <1>5, <1>6
  <2>2. lastId' \in [Clients -> 0..MaxAsks] /\ pending' \in [Clients -> SUBSET (1..MaxAsks)]
    BY <1>2, <1>3, <1>id, <1>5
  <2>3. asked' \in [to: Clients \cup {NoClient}, id: 0..MaxAsks] /\ tool' \in 0..MaxAsks
    BY <1>1, <1>2, <1>3, <1>id, <1>5
  <2> QED BY <1>5, <2>1, <2>2, <2>3 DEF AInv, TypeOK
<1> DEFINE question == [id |-> id, tool |-> tool + 1]
<1>8. question.id = id /\ question.tool = tool + 1
  OBVIOUS
<1>9. Questions(Put(c, item)) \subseteq Questions(outq[c]) \cup {question}
  BY <1>4, <1>6 DEF Questions
<1> HIDE DEF question
<1>10. Held(c)' \subseteq Held(c) \cup {question}
  <2>1. Held(c)' = shown[c] \cup Questions(outq'[c])
    BY <1>5 DEF Held, Questions
  <2>2. outq'[c] = Put(c, item)
    BY <1>1, <1>2, <1>5
  <2> QED BY <1>9, <2>1, <2>2 DEF Held
<1>11. ASSUME NEW d \in Clients, d # c
       PROVE  Held(d)' = Held(d) /\ lastId'[d] = lastId[d] /\ Sources(d)' = Sources(d)
  <2>1. outq'[d] = outq[d] /\ shown'[d] = shown[d] /\ lastId'[d] = lastId[d]
    BY <1>2, <1>5, <1>11
  <2> QED BY <2>1 DEF Held, Questions, Sources
<1>12. lastId'[c] = id
  BY <1>1, <1>2, <1>5
<1>13. \A q \in Held(c) : q.id \in 1..lastId[c]
  BY <1>1 DEF AInv, Numbered
<1>14. lastId[c] \in Nat
  BY <1>1, <1>2
<1>15. Numbered'
  <2>1. ASSUME NEW d \in Clients PROVE lastId'[d] <= tool'
    <3>1. lastId[d] \in 0..MaxAsks /\ lastId[d] <= tool
      BY <1>2 DEF AInv, Numbered
    <3> QED BY <1>2, <1>3, <1>id, <1>5, <1>11, <1>12, <3>1
  <2>2. ASSUME NEW d \in Clients, NEW q \in Held(d)' PROVE q.id \in 1..lastId'[d]
    <3>1. CASE d = c
      BY <1>3, <1>id, <1>8, <1>10, <1>12, <1>13, <1>14, <2>2, <3>1
    <3>2. CASE d # c
      BY <1>11, <2>2, <3>2 DEF AInv, Numbered
    <3> QED BY <3>1, <3>2
  <2> QED BY <2>1, <2>2 DEF Numbered
<1>16. Awaited'
  <2>1. asked'.to = c /\ asked'.id = id /\ id \in 1..lastId'[c]
    BY <1>3, <1>id, <1>5, <1>12
  <2>2. ASSUME NEW q \in Held(c)', q.id = id PROVE q.tool = tool'
    <3>1. q \in Held(c) \/ q = question
      BY <1>10, <2>2
    <3>2. q \notin Held(c)
      BY <1>3, <1>id, <1>13, <1>14, <2>2
    <3> QED BY <1>5, <1>8, <3>1, <3>2
  <2>3. \A q \in shown'[c] \cup Questions(outq'[c]) : q.id = id => q.tool = tool'
    BY <2>2 DEF Held
  <2> QED BY <1>5, <2>1, <2>3 DEF Awaited, Held
<1>17. Decided'
  BY <1>5 DEF AInv, Decided, GrantedWasAllowed
<1>18. Owned'
  BY <1>4, <1>5 DEF AInv, Owned
<1>19. Served'
  <2>1. ASSUME NEW d \in Clients PROVE Sources(d)' \subseteq Sources(d) \cup {requester}
    <3>1. CASE d = c
      <4>1. outq'[d] = Put(c, item)
        BY <1>1, <1>2, <1>5, <3>1
      <4>2. Sources(d)' = {i.of : i \in Range(outq'[d])}
        BY DEF Sources
      <4> QED BY <1>4, <1>6, <3>1, <4>1, <4>2 DEF Sources
    <3>2. CASE d # c
      BY <1>11, <3>2
    <3> QED BY <3>1, <3>2
  <2> QED BY <1>4, <1>5, <2>1 DEF AInv, Owned, Served
<1> QED BY <1>7, <1>15, <1>16, <1>17, <1>18, <1>19 DEF AInv

\* A turn that finds no client to ask goes on without asking.
LEMMA AskNobodyStep ==
  ASSUME AInv, AskNobody
  PROVE  AInv'
<1>1. tool \in 0..MaxAsks /\ MaxAsks \in Nat /\ lastId \in [Clients -> 0..MaxAsks]
  BY ConnectionAssumption DEF AInv, TypeOK
<1>2. TypeOK'
  BY <1>1 DEF AInv, TypeOK, AskNobody, wire
<1>3. \A d \in Clients : Held(d)' = Held(d) /\ Sources(d)' = Sources(d)
  BY SameHeld DEF AskNobody, wire
<1>4. Numbered'
  BY <1>1, <1>3 DEF AInv, Numbered, AskNobody, wire
<1>5. Awaited'
  BY DEF AInv, Awaited, AskNobody, NoAsk
<1>6. Decided'
  BY DEF AInv, Awaited, Decided, GrantedWasAllowed, AskNobody
<1>7. Owned' /\ Served'
  BY <1>3, SameTurn DEF AskNobody, wire
<1> QED BY <1>2, <1>4, <1>5, <1>6, <1>7 DEF AInv

\* An answer decides about the request the turn awaits only when it was given
\* to that request, and so about the turn's tool.
LEMMA AnswerStep ==
  ASSUME AInv, NEW c \in Clients, NEW s \in shown[c], NEW answer \in Answers,
         Answer(c, s, answer)
  PROVE  AInv'
<1>1. s \in Shown /\ s \in Held(c)
  BY DEF AInv, TypeOK, Held
<1>2. TypeOK'
  <2>1. allowed' \subseteq Tools
    BY <1>1 DEF AInv, TypeOK, Answer, Shown
  <2>2. future' \in {"none", "pending", "allow", "reject", "cancelled"}
    BY DEF AInv, TypeOK, Answer, Decision
  <2> QED BY <2>1, <2>2 DEF AInv, TypeOK, Answer, wire
<1>3. \A d \in Clients : Held(d)' = Held(d) /\ Sources(d)' = Sources(d)
  BY SameHeld DEF Answer, wire
<1>4. Numbered'
  BY <1>3 DEF AInv, Numbered, Answer, wire
<1>5. Awaited'
  <2>1. CASE turn = "asking"
    BY <1>3, <2>1 DEF AInv, Awaited, Answer, wire
  <2>2. CASE turn # "asking"
    BY <2>2 DEF AInv, Awaited, Answer
  <2> QED BY <2>1, <2>2
<1>6. allowed \subseteq allowed'
  BY DEF Answer
<1>7. Decided'
  <2>1. ASSUME future' = "allow" PROVE tool' \in allowed'
    <3>1. CASE future = "allow"
      BY <1>6, <3>1 DEF AInv, Decided, Answer
    <3>2. CASE future # "allow"
      <4>1. asked = [to |-> c, id |-> s.id] /\ future = "pending" /\ answer = "allow"
        BY <2>1, <3>2 DEF Answer, Decision
      <4>2. turn = "asking" /\ asked.to = c /\ asked.id = s.id
        BY <4>1 DEF AInv, Awaited
      <4>3. s.tool = tool
        BY <1>1, <4>2 DEF AInv, Awaited
      <4> QED BY <4>1, <4>3 DEF Answer
    <3> QED BY <3>1, <3>2
  <2> QED BY <1>6, <2>1 DEF AInv, Decided, GrantedWasAllowed, Answer
<1>8. Owned' /\ Served'
  BY <1>3, SameTurn DEF Answer, wire
<1> QED BY <1>2, <1>4, <1>5, <1>7, <1>8 DEF AInv

\* What the clients would be shown are requests.
LEMMA PoppedTyped ==
  ASSUME TypeOK
  PROVE  Popped \in [Clients -> SUBSET (1..MaxAsks)]
BY DEF TypeOK, Popped

\* The turn goes on with the answer to what it asked.
LEMMA TurnResumesStep ==
  ASSUME AInv, TurnResumes
  PROVE  AInv'
<1>1. NoAsk \in [to: Clients \cup {NoClient}, id: 0..MaxAsks]
  BY ConnectionAssumption DEF NoAsk
<1>2. future = "allow" => tool \in allowed
  BY DEF AInv, Decided
<1>3. granted' \subseteq allowed /\ allowed \subseteq Tools
  BY <1>2 DEF AInv, Decided, GrantedWasAllowed, TypeOK, TurnResumes
<1>4. TypeOK'
  BY <1>1, <1>3, PoppedTyped DEF AInv, TypeOK, TurnResumes
<1>5. \A d \in Clients : Held(d)' = Held(d) /\ Sources(d)' = Sources(d)
  BY SameHeld DEF TurnResumes
<1>6. Numbered'
  BY <1>5 DEF AInv, Numbered, TurnResumes
<1>7. Awaited'
  BY DEF Awaited, TurnResumes, NoAsk
<1>8. Decided'
  BY <1>3 DEF Decided, GrantedWasAllowed, TurnResumes
<1>9. Owned'
  BY DEF AInv, Owned, TurnResumes
<1>10. Served'
  BY <1>5 DEF AInv, Served, TurnResumes
<1> QED BY <1>4, <1>6, <1>7, <1>8, <1>9, <1>10 DEF AInv

\* A prompt whose turn is over is still not answered.
LEMMA TurnOverStep ==
  ASSUME AInv, TurnEnds \/ TurnStops
  PROVE  AInv'
<1>1. NoAsk \in [to: Clients \cup {NoClient}, id: 0..MaxAsks]
  BY ConnectionAssumption DEF NoAsk
<1>2. calls \in [Clients -> [Kinds -> {"none", "running", "done"}]] /\ "prompt" \in Kinds
  BY DEF AInv, TypeOK, Kinds
<1>3. calls' \in [Clients -> [Kinds -> {"none", "running", "done"}]]
  BY <1>2 DEF TurnEnds, TurnStops, TurnOver
<1>4. \A d \in Clients : calls'[d]["prompt"] = "none" <=> calls[d]["prompt"] = "none"
  BY <1>2 DEF TurnEnds, TurnStops, TurnOver
<1>5. pending' \in [Clients -> SUBSET (1..MaxAsks)]
  BY PoppedTyped DEF AInv, TypeOK, TurnEnds, TurnStops
<1>6. /\ UNCHANGED <<conn, outq, lastId, shown, senders, tool, allowed, granted>>
      /\ turn' = "idle" /\ requester' = NoClient /\ stopping' = FALSE
      /\ asked' = NoAsk /\ future' = "none"
  BY DEF TurnEnds, TurnStops, TurnOver
<1>7. TypeOK'
  BY <1>1, <1>3, <1>5, <1>6 DEF AInv, TypeOK
<1>8. \A d \in Clients : Held(d)' = Held(d) /\ Sources(d)' = Sources(d)
  BY <1>6, SameHeld
<1>9. Numbered'
  BY <1>6, <1>8 DEF AInv, Numbered
<1>10. Awaited' /\ Owned'
  BY <1>6 DEF Awaited, Owned, NoAsk
<1>11. Decided'
  BY <1>6 DEF AInv, Decided, GrantedWasAllowed
<1>12. Served'
  BY <1>4, <1>6, <1>8 DEF AInv, Served
<1> QED BY <1>7, <1>9, <1>10, <1>11, <1>12 DEF AInv

\* The dispatcher's sweep cancels the requests of a closed connection.
LEMMA SweepStep ==
  ASSUME AInv, NEW c \in Clients, Sweep(c)
  PROVE  AInv'
<1>1. TypeOK'
  BY DEF AInv, TypeOK, Sweep
<1>2. \A d \in Clients : Held(d)' = Held(d) /\ Sources(d)' = Sources(d)
  BY SameHeld DEF Sweep
<1>3. Numbered'
  BY <1>2 DEF AInv, Numbered, Sweep
<1>4. Awaited'
  <2>1. CASE turn = "asking"
    BY <1>2, <2>1 DEF AInv, Awaited, Sweep
  <2>2. CASE turn # "asking"
    BY <2>2 DEF AInv, Awaited, Sweep
  <2> QED BY <2>1, <2>2
<1>5. Decided'
  BY DEF AInv, Decided, GrantedWasAllowed, Sweep
<1>6. \A d \in Clients : conn'[d] = "open" => conn[d] = "open"
  BY DEF AInv, TypeOK, Sweep
<1>7. Owned' /\ Served'
  BY <1>2, <1>6, SameTurn DEF Sweep
<1> QED BY <1>1, <1>3, <1>4, <1>5, <1>7 DEF AInv

\* A sequence without one of its elements.
LEMMA RemoveAtTyped ==
  ASSUME NEW S, NEW q \in Seq(S), NEW i \in DOMAIN q
  PROVE  RemoveAt(q, i) \in Seq(S)
<1>1. DOMAIN q = 1..Len(q) /\ Len(q) \in Nat
  BY LenProperties
<1>2. SubSeq(q, 1, i - 1) \in Seq(S)
  BY <1>1, SubSeqProperties
<1>3. SubSeq(q, i + 1, Len(q)) \in Seq(S)
  BY <1>1, SubSeqProperties
<1> QED BY <1>2, <1>3, ConcatProperties DEF RemoveAt

\* A client that left is no sender any more.
LEMMA UnbindStep ==
  ASSUME AInv, NEW c \in Clients, Unbind(c)
  PROVE  AInv'
<1>1. senders' \in Seq(Clients)
  <2>1. senders \in Seq(Clients)
    BY DEF AInv, TypeOK
  <2>2. CASE c \notin Range(senders)
    BY <2>1, <2>2 DEF Unbind
  <2>3. CASE c \in Range(senders)
    <3>1. \E i \in DOMAIN senders : senders[i] = c
      BY <2>3 DEF Range
    <3>2. (CHOOSE i \in DOMAIN senders : senders[i] = c) \in DOMAIN senders
      BY <3>1
    <3> QED BY <2>1, <2>3, <3>2, RemoveAtTyped DEF Unbind
  <2> QED BY <2>2, <2>3
<1>2. TypeOK'
  BY <1>1 DEF AInv, TypeOK, Unbind
<1>3. Numbered' /\ Awaited' /\ Decided'
  BY SameHeld, SameAsking DEF Unbind
<1>4. \A d \in Clients : conn'[d] = "open" => conn[d] = "open"
  BY DEF AInv, TypeOK, Unbind
<1>5. Owned' /\ Served'
  BY <1>4, SameHeld, SameTurn DEF Unbind
<1> QED BY <1>2, <1>3, <1>5 DEF AInv

-----------------------------------------------------------------------------
(* The theorems                                                            *)

\* There is nothing at first.
LEMMA InitAInv ==
  ASSUME Init
  PROVE  AInv
<1>1. <<>> \in Seq(Items) /\ <<>> \in Seq(Clients) /\ Range(<<>>) = {} /\ Questions(<<>>) = {}
  <2>1. Range(<<>>) = {}
    BY DEF Range
  <2> QED BY <2>1, EmptySeq, QuestionsFacts
<1>2. TypeOK
  <2>1. Idle \in [Kinds -> {"none", "running", "done"}]
    BY DEF Idle
  <2>2. NoAsk \in [to: Clients \cup {NoClient}, id: 0..MaxAsks] /\ 0 \in 0..MaxAsks
    BY ConnectionAssumption DEF NoAsk
  <2>3. calls \in [Clients -> [Kinds -> {"none", "running", "done"}]]
    BY <2>1 DEF Init
  <2>4. lastId \in [Clients -> 0..MaxAsks] /\ pending \in [Clients -> SUBSET (1..MaxAsks)]
    BY <2>2 DEF Init
  <2>5. outq \in [Clients -> Seq(Items)] /\ shown \in [Clients -> SUBSET Shown]
    BY <1>1 DEF Init
  <2>6. allowed \subseteq Tools /\ granted \subseteq Tools /\ senders \in Seq(Clients)
    BY <1>1 DEF Init
  <2> QED BY <2>2, <2>3, <2>4, <2>5, <2>6 DEF Init, TypeOK
<1>3. \A c \in Clients : Held(c) = {} /\ Sources(c) = {}
  BY <1>1 DEF Init, Held, Sources
<1>4. Numbered
  BY <1>3 DEF Init, Numbered
<1>5. Awaited /\ Decided /\ Owned /\ Served
  BY <1>3 DEF Init, Awaited, Decided, GrantedWasAllowed, Owned, Served, NoAsk
<1> QED BY <1>2, <1>4, <1>5 DEF AInv

\* A step that changes no variable leaves the invariant alone.
LEMMA Stutter ==
  ASSUME AInv, UNCHANGED vars
  PROVE  AInv'
<1>1. UNCHANGED <<conn, calls, outq, lastId, pending, shown, senders, turn, requester,
                  stopping, asked, future, tool, granted, allowed>>
  BY DEF vars, wire, session
<1>2. TypeOK'
  BY <1>1 DEF AInv, TypeOK
<1>3. Numbered' /\ Awaited' /\ Decided'
  BY <1>1, SameHeld, SameAsking
<1>4. Owned' /\ Served'
  BY <1>1, SameHeld, SameTurn
<1> QED BY <1>2, <1>3, <1>4 DEF AInv

\* The invariant of the connections: every step preserves it.
LEMMA Invariance == Spec => []AInv
<1>1. Init => AInv
  BY InitAInv
<1>2. AInv /\ [Next]_vars => AInv'
  <2>1. SUFFICES ASSUME AInv, Next PROVE AInv'
    BY Stutter
  <2>2. CASE \E c \in Clients : Prompt(c) \/ Call(c) \/ Binds(c) \/ CallEnds(c) \/ CancelRequest(c)
    BY <2>1, <2>2, PromptStep, OtherRequestStep
  <2>3. CASE \E c \in Clients : Deliver(c) \/ (\E k \in Kinds : Respond(c, k)) \/ CancelSession(c)
    BY <2>1, <2>3, DeliverStep, RespondStep, CancelSessionStep
  <2>4. CASE \E c \in Clients : \E s \in shown[c], a \in Answers : Answer(c, s, a)
    BY <2>1, <2>4, AnswerStep
  <2>5. CASE \E c \in Clients : Disconnect(c) \/ Sweep(c) \/ Unbind(c)
    BY <2>1, <2>5, DisconnectStep, SweepStep, UnbindStep
  <2>6. CASE Update \/ Ask \/ AskNobody \/ TurnResumes \/ TurnEnds \/ TurnStops
    BY <2>1, <2>6, UpdateStep, AskStep, AskNobodyStep, TurnResumesStep, TurnOverStep
  <2> QED BY <2>1, <2>2, <2>3, <2>4, <2>5, <2>6 DEF Next
<1> QED BY <1>1, <1>2, PTL DEF Spec

\* Every variable keeps its domain; in particular the ids of a connection's
\* requests never outrun the tools that were asked for (_id_counter).
THEOREM ConnectionsTyped == Spec => []TypeOK
<1>1. AInv => TypeOK
  BY DEF AInv
<1> QED BY <1>1, Invariance, PTL

\* However late or often clients answer, and whichever of them leave: a turn
\* runs a tool only if a user who was shown that tool allowed it.
THEOREM PermissionsMeant == Spec => []GrantedWasAllowed
<1>1. AInv => GrantedWasAllowed
  BY DEF AInv, Decided
<1> QED BY <1>1, Invariance, PTL

\* However many requests of a client drain its queue: none of a turn's output
\* is left in it when its prompt has been answered.
THEOREM TurnsDelivered == Spec => []OwnTurnDelivered
<1>1. AInv => OwnTurnDelivered
  BY DEF AInv, Served, Sources, OwnTurnDelivered, Range
<1> QED BY <1>1, Invariance, PTL
=============================================================================
