---------------------------- MODULE GatewayAdapter ----------------------------
(***************************************************************************)
(* A gateway adapter: messages of a chat platform, each handled by a task  *)
(* of its own, in the order in which they arrive.                          *)
(*                                                                         *)
(* A key is a peer with a thread.  Its first message creates a session,    *)
(* behind a lock of the key; the mapping is written to disk.  A prompt is  *)
(* a turn of the session, which may have to be loaded first.  A turn may   *)
(* ask the user: the question is sent, then registered as the key's        *)
(* pending permission, and the next message of the key is the answer.      *)
(*                                                                         *)
(* Messages, sessions, session objects and asks are numbered.  The turns   *)
(* of an object are a FIFO whose head runs (SessionTurns).                 *)
(***************************************************************************)
EXTENDS Naturals, FiniteSets, Sequences, SequencesExt

CONSTANTS
  Keys,          \* (peer_id, thread_id)
  MaxTexts,      \* bound on the prompts and commands
  MaxAsks,       \* bound on the permission requests
  Departures,    \* what may go differently from a plain run
  MaxDepartures  \* bound on how often it does

(* early     the user answers before the question is registered            *)
(* crossing  a text is on its way when a question is sent                  *)
(* chatter   a text is sent while a question is open                       *)
(* twice     a question is answered that has been answered                 *)
(* crossed   a prompt comes while the session is loaded for another        *)
(* cancel    an ACP client cancels the turns of the session                *)
(* failed    the session cannot be created, or not be loaded               *)
(* unsaved   the mapping cannot be written                                 *)
(* crash     the kernel is killed and started again                        *)
(* orphaned  and so, while a session is being created                      *)
AllDepartures == {"early", "crossing", "chatter", "twice", "crossed", "cancel",
                  "failed", "unsaved", "crash", "orphaned"}

ASSUME GatewayAssumption ==
  /\ IsFiniteSet(Keys) /\ 0 \notin Keys
  /\ MaxTexts \in Nat /\ MaxAsks \in Nat /\ MaxDepartures \in Nat
  /\ Departures \subseteq AllDepartures

VARIABLES
  departs,   \* the departures so far (history)
  spent,     \* and how often there was one (bound)
  msgs,      \* the messages: their key, what they are, the ask they answer
  place,     \* where each message is
  sessions,  \* _peer_sessions: the session of each key, or 0
  saved,     \* peer_sessions.json
  owner,     \* the keys for which sessions were created (history)
  live,      \* SessionManager._sessions: the object of each session, or 0
  line,      \* the turns of each object
  asks,      \* the permission requests: their turn, state and answer
  pending    \* _pending_permissions: the ask of each key, or 0

channel  == <<msgs, place>>
mapping  == <<sessions, saved, owner>>
objects  == <<live, line>>
requests == <<asks, pending>>
vars == <<departs, spent, channel, mapping, objects, requests>>

When(c, d) == IF c THEN {d} ELSE {}

\* The step departs from a plain run in the ways ds.
Departs(ds) ==
  /\ ds \subseteq Departures /\ spent + Cardinality(ds) <= MaxDepartures
  /\ departs' = departs \cup ds /\ spent' = spent + Cardinality(ds)

Plain == UNCHANGED <<departs, spent>>

Places == {"sent", "waiting", "creating", "loading", "turn", "ending",
           "over", "stuck", "lost"}

Of(k) == {m \in DOMAIN msgs : msgs[m].key = k}
At(k, p) == {m \in Of(k) : place[m] = p}

KeyOf(a)  == msgs[asks[a].turn].key
Open(a)   == asks[a].state \in {"sending", "waiting"}
AsksOf(m) == {a \in DOMAIN asks : asks[a].turn = m}
Runs(m)   == \E o \in DOMAIN line : line[o] # <<>> /\ Head(line[o]) = m

Init ==
  /\ departs = {} /\ spent = 0
  /\ msgs = <<>> /\ place = <<>>
  /\ sessions = [k \in Keys |-> 0] /\ saved = sessions /\ owner = <<>>
  /\ live = <<>> /\ line = <<>>
  /\ asks = <<>> /\ pending = [k \in Keys |-> 0]

-----------------------------------------------------------------------------
(* The user                                                                *)

Send(k, is, to) ==
  /\ msgs' = Append(msgs, [key |-> k, is |-> is, to |-> to])
  /\ place' = Append(place, "sent")
  /\ UNCHANGED <<mapping, objects, requests>>

\* A prompt, or a slash command.
Text(k, is) ==
  /\ Cardinality({m \in DOMAIN msgs : msgs[m].is # "reply"}) < MaxTexts
  /\ Departs(When(\E a \in DOMAIN asks : KeyOf(a) = k /\ Open(a), "chatter"))
  /\ Send(k, is, 0)

\* The answer to a question the user has got.
Reply(a) ==
  /\ Departs(When(asks[a].state = "sending", "early")
       \cup When(~Open(a) \/ \E m \in DOMAIN msgs : msgs[m].to = a, "twice"))
  /\ Send(KeyOf(a), "reply", a)

-----------------------------------------------------------------------------
(* _handle                                                                 *)

\* With the key's session: a command is answered, a prompt becomes a turn of
\* the object there is.
Dispatch(m, s) ==
  IF msgs[m].is = "command"
  THEN /\ place' = [place EXCEPT ![m] = "over"] /\ UNCHANGED objects /\ Plain
  ELSE IF live[s] = 0
  THEN /\ Departs(When(At(msgs[m].key, "loading") # {}, "crossed"))
       /\ place' = [place EXCEPT ![m] = "loading"] /\ UNCHANGED objects
  ELSE /\ place' = [place EXCEPT ![m] = "turn"]
       /\ line' = [line EXCEPT ![live[s]] = Append(@, m)]
       /\ Plain /\ UNCHANGED live

\* Behind the lock: the session of the key, or create_for_gateway.
Behind(m) ==
  LET s == sessions[msgs[m].key]
  IN  IF s # 0 THEN Dispatch(m, s)
      ELSE place' = [place EXCEPT ![m] = "creating"] /\ Plain /\ UNCHANGED objects

\* Variant: there is no lock.
NeverLocked(k) == FALSE

Locked(k) == At(k, "creating") # {}

\* Variant: the request stays registered until its turn goes on.
AnswerOnly(m, a) ==
  /\ UNCHANGED pending
  /\ IF asks[a].state = "waiting"
     THEN /\ asks' = [asks EXCEPT ![a].state = "answered", ![a].by = m]
          /\ place' = [place EXCEPT ![m] = "over"]
     ELSE place' = [place EXCEPT ![m] = "lost"] /\ UNCHANGED asks
  /\ Plain /\ UNCHANGED objects

\* A pending permission takes the message, unless its future is cancelled.
Answer(m, a) ==
  /\ pending' = [pending EXCEPT ![KeyOf(a)] = 0]
  /\ IF asks[a].state = "waiting"
     THEN /\ asks' = [asks EXCEPT ![a].state = "answered", ![a].by = m]
          /\ place' = [place EXCEPT ![m] = "over"]
     ELSE place' = [place EXCEPT ![m] = "lost"] /\ UNCHANGED asks
  /\ Plain /\ UNCHANGED objects

\* Variant: a message waits only if the lock is taken at this moment.
HandleAtOnce(m) ==
  LET k == msgs[m].key
  IN  /\ place[m] = "sent" /\ \A n \in At(k, "sent") : m <= n
      /\ IF pending[k] # 0 THEN Answer(m, pending[k])
         ELSE /\ IF Locked(k) THEN place' = [place EXCEPT ![m] = "waiting"] /\ Plain /\ UNCHANGED objects
                 ELSE Behind(m)
              /\ UNCHANGED requests
      /\ UNCHANGED <<msgs, mapping>>

\* The task of a message gets as far as it can without waiting.
Handle(m) ==
  LET k == msgs[m].key
  IN  /\ place[m] = "sent" /\ \A n \in At(k, "sent") : m <= n
      /\ IF pending[k] # 0 THEN Answer(m, pending[k])
         ELSE /\ IF Locked(k) \/ At(k, "waiting") # {}
                 THEN place' = [place EXCEPT ![m] = "waiting"] /\ Plain /\ UNCHANGED objects
                 ELSE Behind(m)
              /\ UNCHANGED requests
      /\ UNCHANGED <<msgs, mapping>>

\* The lock goes to the first in line.
Enter(m) ==
  LET k == msgs[m].key
  IN  /\ place[m] = "waiting" /\ ~Locked(k) /\ \A n \in At(k, "waiting") : m <= n
      /\ Behind(m)
      /\ UNCHANGED <<msgs, mapping, requests>>

\* The session is there: it is mapped, the mapping is written, the lock goes.
Created(m) ==
  LET k == msgs[m].key
      s == Len(owner) + 1
      o == Len(line) + 1
  IN  /\ place[m] = "creating" /\ Plain
      /\ owner' = Append(owner, k)
      /\ sessions' = [sessions EXCEPT ![k] = s] /\ saved' = sessions'
      /\ live' = Append(live, o)
      /\ IF msgs[m].is = "command"
         THEN place' = [place EXCEPT ![m] = "over"] /\ line' = Append(line, <<>>)
         ELSE place' = [place EXCEPT ![m] = "turn"] /\ line' = Append(line, <<m>>)
      /\ UNCHANGED <<msgs, requests>>

\* Outside the try: the task ends without a word.
CreateFails(m) ==
  /\ place[m] = "creating" /\ Departs({"failed"})
  /\ place' = [place EXCEPT ![m] = "lost"]
  /\ UNCHANGED <<msgs, mapping, objects, requests>>

\* Nor is there one when the mapping cannot be written.
PersistFails(m) ==
  LET k == msgs[m].key
  IN  /\ place[m] = "creating" /\ Departs({"unsaved"})
      /\ owner' = Append(owner, k)
      /\ sessions' = [sessions EXCEPT ![k] = Len(owner) + 1] /\ UNCHANGED saved
      /\ live' = Append(live, Len(line) + 1) /\ line' = Append(line, <<>>)
      /\ place' = [place EXCEPT ![m] = "lost"]
      /\ UNCHANGED <<msgs, requests>>

\* _load_from_disk: an object of its own, in the place of any other.
Loaded(m) ==
  /\ place[m] = "loading" /\ Plain
  /\ live' = [live EXCEPT ![sessions[msgs[m].key]] = Len(line) + 1]
  /\ line' = Append(line, <<m>>)
  /\ place' = [place EXCEPT ![m] = "turn"]
  /\ UNCHANGED <<msgs, mapping, requests>>

\* The user gets an error message.
LoadFails(m) ==
  /\ place[m] = "loading" /\ Departs({"failed"})
  /\ place' = [place EXCEPT ![m] = "over"]
  /\ UNCHANGED <<msgs, mapping, objects, requests>>

-----------------------------------------------------------------------------
(* The turns and their questions                                           *)

\* Variant: the calls of a turn ask without regard to one another.
AsksAtOnce(m) ==
  LET k == msgs[m].key
  IN  /\ place[m] = "turn" /\ Runs(m) /\ Len(asks) < MaxAsks
      /\ Departs(When(\E n \in At(k, "sent") : msgs[n].is # "reply", "crossing"))
      /\ asks' = Append(asks, [turn |-> m, state |-> "sending", by |-> 0])
      /\ UNCHANGED <<channel, mapping, objects, pending>>

\* on_permission, one at a time: the question is being sent.
Asks(m) ==
  LET k == msgs[m].key
  IN  /\ place[m] = "turn" /\ Runs(m) /\ Len(asks) < MaxAsks
      /\ \A a \in AsksOf(m) : asks[a].state = "over"
      /\ Departs(When(\E n \in At(k, "sent") : msgs[n].is # "reply", "crossing"))
      /\ asks' = Append(asks, [turn |-> m, state |-> "sending", by |-> 0])
      /\ UNCHANGED <<channel, mapping, objects, pending>>

\* It was sent: its future is registered.
Registers(a) ==
  /\ asks[a].state = "sending" /\ Plain
  /\ asks' = [asks EXCEPT ![a].state = "waiting"]
  /\ pending' = [pending EXCEPT ![KeyOf(a)] = a]
  /\ UNCHANGED <<channel, mapping, objects>>

\* Variant: a request whose turn was cancelled stays registered.
ReturnsOnly(a) ==
  /\ asks[a].state \in {"answered", "cancelled"} /\ Plain
  /\ asks' = [asks EXCEPT ![a].state = "over"]
  /\ UNCHANGED <<channel, mapping, objects, pending>>

\* The turn goes on, or unwinds.
Returns(a) ==
  /\ asks[a].state \in {"answered", "cancelled"} /\ Plain
  /\ asks' = [asks EXCEPT ![a].state = "over"]
  /\ pending' = [pending EXCEPT ![KeyOf(a)] = 0]
  /\ UNCHANGED <<channel, mapping, objects>>

\* Its text is sent, and the next turn of the object runs.
TurnEnds(m) ==
  /\ place[m] \in {"turn", "ending"} /\ Runs(m) /\ Plain
  /\ \A a \in AsksOf(m) : asks[a].state = "over"
  /\ place' = [place EXCEPT ![m] = "over"]
  /\ line' = [o \in DOMAIN line |->
       IF line[o] # <<>> /\ Head(line[o]) = m THEN Tail(line[o]) ELSE line[o]]
  /\ UNCHANGED <<msgs, mapping, live, requests>>

\* session/cancel by a client of the session: the turn that runs is cancelled
\* with its question; the turns behind it are answered, but their handlers
\* await texts that never come.
Cancel(s) ==
  LET o == live[s]
  IN  /\ o # 0 /\ line[o] # <<>> /\ Departs({"cancel"})
      /\ place' = [m \in DOMAIN place |->
           IF m = Head(line[o]) THEN "ending"
           ELSE IF m \in ToSet(line[o]) THEN "stuck" ELSE place[m]]
      /\ line' = [line EXCEPT ![o] = <<Head(@)>>]
      /\ asks' = [a \in DOMAIN asks |->
           IF asks[a].turn # Head(line[o]) \/ asks[a].state = "over" THEN asks[a]
           ELSE [asks[a] EXCEPT !.state = IF @ = "sending" THEN "over" ELSE "cancelled"]]
      /\ UNCHANGED <<msgs, mapping, live, pending>>

\* _maybe_evict, of a session without turns and clients.
Evict(s) ==
  /\ live[s] # 0 /\ line[live[s]] = <<>> /\ Plain
  /\ live' = [live EXCEPT ![s] = 0]
  /\ UNCHANGED <<channel, mapping, line, requests>>

\* The kernel is killed, and start() loads the mapping; a session that was
\* being created may be there, without a key.
Restart ==
  /\ sessions' = saved /\ UNCHANGED saved
  /\ \/ Departs({"crash"}) /\ UNCHANGED owner
     \/ \E ks \in SUBSET {k \in Keys : Locked(k)} :
          ks # {} /\ Departs({"orphaned"}) /\ owner' = owner \o SetToSeq(ks)
  /\ live' = [s \in DOMAIN owner' |-> 0]
  /\ line' = [o \in DOMAIN line |-> <<>>]
  /\ place' = [m \in DOMAIN place |-> IF place[m] = "over" THEN "over" ELSE "lost"]
  /\ asks' = [a \in DOMAIN asks |-> [asks[a] EXCEPT !.state = "over"]]
  /\ pending' = [k \in Keys |-> 0]
  /\ UNCHANGED msgs

-----------------------------------------------------------------------------
Next ==
  \/ \E k \in Keys, is \in {"prompt", "command"} : Text(k, is)
  \/ \E a \in DOMAIN asks : Reply(a)
  \/ \E m \in DOMAIN msgs : Handle(m)
  \/ \E m \in DOMAIN msgs : Enter(m)
  \/ \E m \in DOMAIN msgs : Created(m)
  \/ \E m \in DOMAIN msgs : CreateFails(m)
  \/ \E m \in DOMAIN msgs : PersistFails(m)
  \/ \E m \in DOMAIN msgs : Loaded(m)
  \/ \E m \in DOMAIN msgs : LoadFails(m)
  \/ \E m \in DOMAIN msgs : Asks(m)
  \/ \E a \in DOMAIN asks : Registers(a)
  \/ \E a \in DOMAIN asks : Returns(a)
  \/ \E m \in DOMAIN msgs : TurnEnds(m)
  \/ \E s \in DOMAIN live : Cancel(s)
  \/ \E s \in DOMAIN live : Evict(s)
  \/ Restart

Task(m) == Handle(m) \/ Enter(m) \/ Created(m) \/ Loaded(m) \/ TurnEnds(m)

\* A question that was asked once and is open gets an answer.
FirstReply(a) ==
  /\ asks[a].state = "waiting" /\ \A m \in DOMAIN msgs : msgs[m].to # a
  /\ Reply(a)

\* The event loop schedules the tasks, the platform and the disk answer,
\* turns end, and users answer.
Fairness ==
  /\ \A m \in 1..(MaxTexts + MaxAsks) : WF_vars(m \in DOMAIN msgs /\ Task(m))
  /\ \A a \in 1..MaxAsks : WF_vars(a \in DOMAIN asks /\ (Registers(a) \/ Returns(a)))
  /\ \A a \in 1..MaxAsks : WF_vars(a \in DOMAIN asks /\ FirstReply(a))

Spec == Init /\ [][Next]_vars /\ Fairness

-----------------------------------------------------------------------------
(* Properties                                                              *)

Tolerates(ds) == departs \subseteq ds

\* The domains of the variables; a pending permission is a request of its key
\* that waits, or whose turn was cancelled before it could be removed.
TypeOK ==
  /\ departs \subseteq Departures /\ spent \in 0..MaxDepartures
  /\ DOMAIN place = DOMAIN msgs /\ \A m \in DOMAIN place : place[m] \in Places
  /\ \A m \in DOMAIN msgs : /\ msgs[m].key \in Keys /\ msgs[m].to \in 0..Len(asks)
                            /\ (msgs[m].is = "reply") = (msgs[m].to # 0)
  /\ \A k \in Keys : {sessions[k], saved[k]} \subseteq {0} \cup {s \in DOMAIN owner : owner[s] = k}
  /\ DOMAIN live = DOMAIN owner /\ \A s \in DOMAIN live : live[s] \in 0..Len(line)
  /\ \A o \in DOMAIN line : \A m \in ToSet(line[o]) : place[m] \in {"turn", "ending"}
  /\ \A k \in Keys : pending[k] # 0 =>
       pending[k] \in DOMAIN asks /\ KeyOf(pending[k]) = k /\ asks[pending[k]].state \in {"waiting", "cancelled"}

\* A conversation has one session, over restarts too: however many messages
\* come before it exists, and whatever becomes of them, one creates it and its
\* mapping outlives the kernel.
OneSession ==
  Tolerates(AllDepartures \ {"unsaved", "orphaned"}) =>
    \A s, t \in DOMAIN owner : owner[s] = owner[t] => s = t

\* A question is decided by its own answer, and an answer is never taken for
\* a prompt: not by an earlier question's reply, nor by a text behind one.
AnswersMeant ==
  Tolerates({"failed", "unsaved"}) =>
    /\ \A a \in DOMAIN asks : asks[a].by # 0 => msgs[asks[a].by].to = a
    /\ \A m \in DOMAIN msgs : msgs[m].is = "reply" => place[m] \in {"sent", "over"}

\* The prompts of a conversation become turns in the order in which they came,
\* those that waited for the session before those that did not.
InOrder ==
  Tolerates(AllDepartures \ {"crossed"}) =>
    /\ \A o \in DOMAIN line : \A i, j \in DOMAIN line[o] : i < j => line[o][i] < line[o][j]
    /\ \A n \in DOMAIN msgs : place[n] = "turn" =>
         \A m \in Of(msgs[n].key) : m < n => place[m] \notin {"sent", "waiting", "creating", "loading"}

\* Every message is answered: as a command, as a turn, as an answer or with an
\* error; the user's own words do not stand in the way.
Heard ==
  \A m \in 1..(MaxTexts + MaxAsks) :
    m \in DOMAIN msgs ~> ~Tolerates({"crossing", "chatter"}) \/ (m \in DOMAIN msgs /\ place[m] = "over")
=============================================================================
