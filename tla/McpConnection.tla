----------------------------- MODULE McpConnection -----------------------------
(***************************************************************************)
(* The connection of one MCP server: the manager's entry for it, and the   *)
(* clients that were made for it.                                          *)
(*                                                                         *)
(* A client opens a connection, reads it in a task (the reader), and       *)
(* shakes hands.  A reader that ends, unless the client is being closed,   *)
(* starts a reconnect loop; the loop closes the transport, opens it again, *)
(* starts a reader and shakes hands.  The manager makes a new client at    *)
(* startup, when the server is added, when a sweep finds the entry failed, *)
(* when the user has authorized it, and when a call needed a new token.    *)
(*                                                                         *)
(* Clients and their connections (links) have numbers, which are given out *)
(* again when nothing of a client or a link is left.  A link has one       *)
(* reader, which starts one loop at most, so both are known by the link.   *)
(***************************************************************************)
EXTENDS Naturals, FiniteSets

CONSTANTS
  Calls,         \* tool calls
  MaxClients,    \* bound on the clients at a time
  MaxLinks,      \* bound on the connections at a time
  MaxAttempts,   \* max_reconnect_attempts
  Departures,    \* what may go differently from a plain run
  MaxDepartures  \* bound on how often it does

(* flaky        a connection fails while a reconnect loop shakes hands     *)
(* exhausted    a reconnect loop gives up                                  *)
(* garbled      a reader crashes on a frame; the connection stays open     *)
(* expired      an HTTP server drops the session, which the reader does    *)
(*              not notice                                                 *)
(* unannounced  a new client cannot send "initialized"                     *)
(* unauthorized a connected client is refused, and no token is to be had   *)
(* twins        the server is connected by two tasks at a time             *)
(* removed      the server is removed while it is being connected          *)
(* late         a call is made of a client that is being closed            *)
AllDepartures == {"flaky", "exhausted", "garbled", "expired", "unannounced",
                  "unauthorized", "twins", "removed", "late"}

ASSUME McpAssumption ==
  /\ MaxClients \in Nat /\ MaxLinks \in Nat
  /\ MaxAttempts \in Nat \ {0} /\ MaxDepartures \in Nat
  /\ Departures \subseteq AllDepartures

Clients  == 1..MaxClients
Links    == 1..MaxLinks
Builders == {"startup", "config", "health", "oauth", "caller"}

VARIABLES
  departs,    \* the departures so far (history)
  spent,      \* and how often there was one (bound)
  configured, \* the server is in _configs
  entry,      \* _connections: "connected", "failed", "auth", or "none"
  client,     \* the client of a connected entry, 0 for another
  pc,         \* where each task is that connects the server
  mine,       \* the client that it closes or makes
  verdict,    \* what it will return when that client is closed
  transport,  \* the link of each client's transport, 0 if it is closed
  connected,  \* the clients with _connected set
  closing,    \* how far close() is: "no", "begun", "waiting" (for the transport)
  readTask,   \* _read_task: the link it reads, 0 if it is done
  loopTask,   \* _reconnect_task: the link whose reader started it, or 0
  owner,      \* the client of each link
  up,         \* the links that are open at both ends
  reader,     \* "on", "deaf" on an expired session, or "off"
  loop,       \* the loop that the reader started
  attempt,    \* its attempt
  shaken,     \* the link on which it shakes hands
  sent        \* the link on which each call waits, 0 if it does not

served  == <<entry, client>>
manager == <<configured, served, pc, mine, verdict>>
objects == <<transport, connected, closing, readTask, loopTask>>
wires   == <<owner, up, reader>>
loops   == <<loop, attempt, shaken>>
vars == <<departs, spent, manager, objects, wires, loops, sent>>

When(c, d) == IF c THEN {d} ELSE {}

\* The step departs from a plain run in the ways ds.
Departs(ds) ==
  /\ ds \subseteq Departures /\ spent + Cardinality(ds) <= MaxDepartures
  /\ departs' = departs \cup ds /\ spent' = spent + Cardinality(ds)

Plain == UNCHANGED <<departs, spent>>

\* A task that has chosen what to close and has not written the entry yet.
Busy(b)      == pc[b] \notin {"idle", "looked"}
OthersBusy(b) == \E o \in Builders \ {b} : Busy(o)

Waiting(c)   == {q \in Calls : sent[q] # 0 /\ owner[sent[q]] = c}
Released(qs) == [q \in Calls |-> IF q \in qs THEN 0 ELSE sent[q]]

Init ==
  /\ departs = {} /\ spent = 0
  /\ configured = TRUE /\ entry = "none" /\ client = 0
  /\ pc = [b \in Builders |-> IF b = "startup" THEN "connecting" ELSE "idle"]
  /\ mine = [b \in Builders |-> 0] /\ verdict = [b \in Builders |-> "failed"]
  /\ transport = [c \in Clients |-> 0] /\ connected = {}
  /\ closing = [c \in Clients |-> "no"]
  /\ readTask = [c \in Clients |-> 0] /\ loopTask = [c \in Clients |-> 0]
  /\ owner = [k \in Links |-> 0]
  /\ up = {} /\ reader = [k \in Links |-> "off"]
  /\ loop = [k \in Links |-> "none"] /\ attempt = [k \in Links |-> 0]
  /\ shaken = [k \in Links |-> 0]
  /\ sent = [q \in Calls |-> 0]

-----------------------------------------------------------------------------
(* One client                                                              *)

Readers(c) == {k \in Links : owner[k] = c /\ reader[k] # "off"}
LoopsOf(c) == {l \in Links : owner[l] = c /\ loop[l] # "none"}
Open(c)    == {k \in up : owner[k] = c}

\* Nothing is left of a client that was closed, nor of a link.
IsGone(c) ==
  /\ client # c /\ transport[c] = 0 /\ closing[c] = "no" /\ \A b \in Builders : mine[b] # c
  /\ Open(c) \cup Readers(c) \cup LoopsOf(c) = {}
IsFree(k) ==
  /\ k \notin up /\ reader[k] = "off" /\ loop[k] = "none"
  /\ \A c \in Clients : transport[c] # k
  /\ \A l \in Links : shaken[l] # k
  /\ \A q \in Calls : sent[q] # k

NewClient(c) == IsGone(c) /\ \A d \in 1..(c - 1) : ~IsGone(d)
NewLink(k)   == IsFree(k) /\ \A j \in 1..(k - 1) : ~IsFree(j)

\* Transport.connect, and the task that reads the link k.
OpenLink(c, k) ==
  /\ NewLink(k)
  /\ owner' = [owner EXCEPT ![k] = c]
  /\ up' = up \cup {k} /\ reader' = [reader EXCEPT ![k] = "on"]
  /\ transport' = [transport EXCEPT ![c] = k]
  /\ readTask' = [readTask EXCEPT ![c] = k]
  /\ connected' = connected \cup {c}

\* Variant: only the reader is cancelled.
BeginCloseOfReader(c) ==
  /\ closing' = [closing EXCEPT ![c] = "begun"]
  /\ connected' = connected \ {c}
  /\ sent' = Released(Waiting(c))
  /\ reader' = [k \in Links |-> IF k = readTask[c] THEN "off" ELSE reader[k]]
  /\ readTask' = [readTask EXCEPT ![c] = 0]
  /\ UNCHANGED <<transport, loopTask, loops, owner, up>>

\* close(), up to its first await: the latest loop and the latest reader are
\* cancelled, and the step they take next is their last.
BeginClose(c) ==
  /\ closing' = [closing EXCEPT ![c] = "begun"]
  /\ connected' = connected \ {c}
  /\ sent' = Released(Waiting(c))
  /\ loop' = [k \in Links |-> IF k = loopTask[c] THEN "none" ELSE loop[k]]
  /\ attempt' = [k \in Links |-> IF k = loopTask[c] THEN 0 ELSE attempt[k]]
  /\ shaken' = [k \in Links |-> IF k = loopTask[c] THEN 0 ELSE shaken[k]]
  /\ loopTask' = [loopTask EXCEPT ![c] = 0]
  /\ reader' = [k \in Links |-> IF k = readTask[c] THEN "off" ELSE reader[k]]
  /\ readTask' = [readTask EXCEPT ![c] = 0]
  /\ UNCHANGED <<transport, owner, up>>

CloseTransport(c) ==
  /\ closing[c] = "begun"
  /\ closing' = [closing EXCEPT ![c] = "waiting"]
  /\ up' = up \ {transport[c]} /\ transport' = [transport EXCEPT ![c] = 0]
  /\ Plain
  /\ UNCHANGED <<manager, connected, readTask, loopTask, owner, reader, loops, sent>>

CloseEnds(c) ==
  /\ closing[c] = "waiting" /\ closing' = [closing EXCEPT ![c] = "no"]
  /\ Plain
  /\ UNCHANGED <<manager, transport, connected, readTask, loopTask, wires, loops, sent>>

\* Variant: the calls that wait are not told.
EndReaderUntold(k) ==
  LET c == owner[k] IN
  /\ reader' = [reader EXCEPT ![k] = "off"]
  /\ readTask' = [readTask EXCEPT ![c] = IF @ = k THEN 0 ELSE @]
  /\ connected' = connected \ {c}
  /\ loop' = [loop EXCEPT ![k] = "sleeping"]
  /\ attempt' = [attempt EXCEPT ![k] = 1]
  /\ loopTask' = [loopTask EXCEPT ![c] = k]
  /\ UNCHANGED <<manager, transport, closing, owner, up, shaken, sent>>

\* Variant: no loop is started.
EndReaderForGood(k) ==
  LET c == owner[k] IN
  /\ reader' = [reader EXCEPT ![k] = "off"]
  /\ readTask' = [readTask EXCEPT ![c] = IF @ = k THEN 0 ELSE @]
  /\ connected' = connected \ {c} /\ sent' = Released(Waiting(c))
  /\ UNCHANGED <<manager, transport, closing, owner, up, loopTask, loops>>

\* The finally clause of _read_loop.
EndReader(k) ==
  LET c == owner[k] IN
  /\ reader' = [reader EXCEPT ![k] = "off"]
  /\ readTask' = [readTask EXCEPT ![c] = IF @ = k THEN 0 ELSE @]
  /\ IF closing[c] = "no"
     THEN /\ connected' = connected \ {c}
          /\ sent' = Released(Waiting(c))
          /\ loop' = [loop EXCEPT ![k] = "sleeping"]
          /\ attempt' = [attempt EXCEPT ![k] = 1]
          /\ loopTask' = [loopTask EXCEPT ![c] = k]
     ELSE UNCHANGED <<connected, sent, loop, attempt, loopTask>>
  /\ UNCHANGED <<manager, transport, closing, owner, up, shaken>>

ShakenOn(k) == \E l \in Links : loop[l] = "shaking" /\ shaken[l] = k

\* receive() raises on a link that is down; the loop condition fails after a
\* message when the client was marked as not connected.
ReaderEnds(k) ==
  /\ reader[k] = "on" /\ (k \notin up \/ owner[k] \notin connected)
  /\ EndReader(k)
  /\ Plain

\* A frame whose header is no number, or a message that is no object.
ReaderCrashes(k) ==
  /\ reader[k] = "on" /\ k \in up
  /\ EndReader(k)
  /\ Departs({"garbled"} \cup When(ShakenOn(k), "flaky"))

\* The server, or the way to it, fails.
LinkDies(k) ==
  /\ k \in up /\ up' = up \ {k}
  /\ Departs(When(ShakenOn(k), "flaky"))
  /\ UNCHANGED <<manager, objects, owner, reader, loops, sent>>

\* A 404 answers a POST: the queue that the reader awaits is not told.
SessionExpires(k) ==
  /\ k \in up /\ reader[k] = "on" /\ \A q \in Calls : sent[q] # k
  /\ up' = up \ {k} /\ reader' = [reader EXCEPT ![k] = "deaf"]
  /\ Departs({"expired"} \cup When(ShakenOn(k), "flaky"))
  /\ UNCHANGED <<manager, objects, owner, loops, sent>>

-----------------------------------------------------------------------------
(* The reconnect loop that the reader of link l has started                *)

\* The task returns.
LoopEnds(l) ==
  /\ loop' = [loop EXCEPT ![l] = "none"]
  /\ attempt' = [attempt EXCEPT ![l] = 0] /\ shaken' = [shaken EXCEPT ![l] = 0]
  /\ loopTask' = [loopTask EXCEPT ![owner[l]] = IF @ = l THEN 0 ELSE @]

\* The next attempt, or none.
Retry(l) ==
  /\ connected' = connected \ {owner[l]}
  /\ IF attempt[l] < MaxAttempts /\ closing[owner[l]] = "no"
     THEN /\ loop' = [loop EXCEPT ![l] = "sleeping"]
          /\ attempt' = [attempt EXCEPT ![l] = @ + 1]
          /\ shaken' = [shaken EXCEPT ![l] = 0]
          /\ UNCHANGED loopTask
     ELSE LoopEnds(l)

\* The sleep is over: the transport is closed, whatever it carries.
LoopWakes(l) ==
  LET c == owner[l] IN
  /\ loop[l] = "sleeping"
  /\ IF closing[c] = "no"
     THEN /\ loop' = [loop EXCEPT ![l] = "connecting"]
          /\ up' = up \ {transport[c]} /\ transport' = [transport EXCEPT ![c] = 0]
          /\ UNCHANGED <<attempt, shaken, loopTask>>
     ELSE LoopEnds(l) /\ UNCHANGED <<up, transport>>
  /\ Plain
  /\ UNCHANGED <<manager, connected, closing, readTask, owner, reader, sent>>

LoopOpens(l, k) ==
  /\ loop[l] = "connecting"
  /\ OpenLink(owner[l], k)
  /\ loop' = [loop EXCEPT ![l] = "shaking"] /\ shaken' = [shaken EXCEPT ![l] = k]
  /\ Plain
  /\ UNCHANGED <<manager, closing, loopTask, attempt, sent>>

LoopOpenFails(l) ==
  /\ loop[l] = "connecting"
  /\ Retry(l)
  /\ Departs(When(attempt[l] = MaxAttempts, "exhausted"))
  /\ UNCHANGED <<manager, transport, closing, readTask, wires, sent>>

\* Variant: the loop does not return.
LoopShakesAgain(l) ==
  /\ loop[l] = "shaking" /\ shaken[l] \in up /\ reader[shaken[l]] = "on"
  /\ loop' = [loop EXCEPT ![l] = "sleeping"] /\ shaken' = [shaken EXCEPT ![l] = 0]
  /\ Plain
  /\ UNCHANGED <<manager, objects, wires, attempt, sent>>

LoopShakes(l) ==
  /\ loop[l] = "shaking" /\ shaken[l] \in up /\ reader[shaken[l]] = "on"
  /\ LoopEnds(l)
  /\ Plain
  /\ UNCHANGED <<manager, transport, connected, closing, readTask, wires, sent>>

\* An error, a timeout, or the reader's end: the reader is not stopped.
LoopShakeFails(l) ==
  /\ loop[l] = "shaking"
  /\ Retry(l)
  /\ Departs(When(shaken[l] \in up, "flaky")
             \cup When(attempt[l] = MaxAttempts, "exhausted"))
  /\ UNCHANGED <<manager, transport, closing, readTask, wires, sent>>

\* on_auth_required: the entry is replaced, and the client left as it is.
LoopRefused(l) ==
  /\ loop[l] = "shaking" /\ shaken[l] \in up
  /\ LoopEnds(l)
  /\ connected' = connected \ {owner[l]} /\ entry' = "auth" /\ client' = 0
  /\ Departs({"unauthorized"})
  /\ UNCHANGED <<configured, pc, mine, verdict, transport, closing, readTask,
                 wires, sent>>

-----------------------------------------------------------------------------
(* The manager: tasks that connect the server                              *)

\* The entry is written; a call that got no connection then marks the server.
Outcome(b, e) ==
  /\ entry' = IF b = "caller" /\ e = "failed" THEN "auth" ELSE e
  /\ client' = IF e = "connected" THEN mine[b] ELSE 0
  /\ pc' = [pc EXCEPT ![b] = "idle"] /\ mine' = [mine EXCEPT ![b] = 0]
  /\ verdict' = [verdict EXCEPT ![b] = "failed"]

\* _sweep's list of failed servers, read before any of them is connected.
SweepLooks ==
  /\ pc["health"] = "idle" /\ pc["startup"] = "idle" /\ entry = "failed"
  /\ pc' = [pc EXCEPT !["health"] = "looked"]
  /\ Plain /\ UNCHANGED <<configured, served, mine, verdict, objects, wires, loops, sent>>

\* The tool that starts the authorization; the user takes his time.
AuthorizationStarts ==
  /\ pc["oauth"] = "idle" /\ pc["startup"] = "idle" /\ entry = "auth"
  /\ pc' = [pc EXCEPT !["oauth"] = "looked"]
  /\ Plain /\ UNCHANGED <<configured, served, mine, verdict, objects, wires, loops, sent>>

\* The user does not come back.
AuthorizationTimesOut ==
  /\ pc["oauth"] = "looked" /\ pc' = [pc EXCEPT !["oauth"] = "idle"]
  /\ Plain /\ UNCHANGED <<configured, served, mine, verdict, objects, wires, loops, sent>>

\* A call is refused, and the token is refreshed.
CallRefused ==
  /\ pc["caller"] = "idle" /\ client # 0 /\ transport[client] \in up
  /\ pc' = [pc EXCEPT !["caller"] = "looked"]
  /\ Plain /\ UNCHANGED <<configured, served, mine, verdict, objects, wires, loops, sent>>

\* No new token: the entry is replaced, whatever it is by now.
RefreshFails ==
  /\ pc["caller"] = "looked" /\ Outcome("caller", "auth")
  /\ Departs(When(client # 0, "unauthorized"))
  /\ UNCHANGED <<configured, objects, wires, loops, sent>>

\* reconnect and reconnect_with_token: the client of the entry is closed first.
Reconnect(b) ==
  /\ pc[b] = "looked"
  /\ IF ~configured
     THEN /\ pc' = [pc EXCEPT ![b] = "idle"]
          /\ IF b = "caller" THEN entry' = "auth" /\ client' = 0 ELSE UNCHANGED served
          /\ Plain /\ UNCHANGED <<mine, objects, wires, loops, sent>>
     ELSE /\ Departs(When(OthersBusy(b), "twins"))
          /\ UNCHANGED served
          /\ IF client # 0 /\ closing[client] = "no"
             THEN /\ pc' = [pc EXCEPT ![b] = "closing"] /\ mine' = [mine EXCEPT ![b] = client]
                  /\ BeginClose(client)
             ELSE /\ pc' = [pc EXCEPT ![b] = "connecting"]
                  /\ UNCHANGED <<mine, objects, wires, loops, sent>>
  /\ UNCHANGED <<configured, verdict>>

\* The old client is closed: the next is made, unless the server was removed.
OldIsClosed(b) ==
  /\ pc[b] = "closing" /\ closing[mine[b]] = "no"
  /\ pc' = [pc EXCEPT ![b] = IF b = "config" THEN "idle" ELSE "connecting"]
  /\ mine' = [mine EXCEPT ![b] = 0]
  /\ Plain /\ UNCHANGED <<configured, served, verdict, objects, wires, loops, sent>>

Opens(b, c, k) ==
  /\ pc[b] = "connecting" /\ NewClient(c) /\ OpenLink(c, k)
  /\ pc' = [pc EXCEPT ![b] = "shaking"] /\ mine' = [mine EXCEPT ![b] = c]
  /\ Plain
  /\ UNCHANGED <<configured, served, verdict, closing, loopTask, loops, sent>>

OpenFails(b) ==
  /\ pc[b] = "connecting" /\ Outcome(b, "failed")
  /\ Plain /\ UNCHANGED <<configured, objects, wires, loops, sent>>

\* The answer to "initialize" is read.
Shakes(b) ==
  /\ pc[b] = "shaking" /\ transport[mine[b]] \in up /\ reader[transport[mine[b]]] = "on"
  /\ pc' = [pc EXCEPT ![b] = "announcing"]
  /\ Plain /\ UNCHANGED <<configured, served, mine, verdict, objects, wires, loops, sent>>

\* An error, a timeout or a refusal: connect() closes the client.
ShakeFails(b, v) ==
  /\ pc[b] = "shaking"
  /\ pc' = [pc EXCEPT ![b] = "undoing"] /\ verdict' = [verdict EXCEPT ![b] = v]
  /\ BeginClose(mine[b])
  /\ Plain /\ UNCHANGED <<configured, served, mine>>

Undone(b) ==
  /\ pc[b] = "undoing" /\ closing[mine[b]] = "no" /\ Outcome(b, verdict[b])
  /\ Plain /\ UNCHANGED <<configured, objects, wires, loops, sent>>

\* "initialized" is written, which says nothing of the server.
Announces(b) ==
  /\ pc[b] = "announcing"
  /\ Outcome(b, "connected")
  /\ Plain /\ UNCHANGED <<configured, objects, wires, loops, sent>>

\* "initialized" is sent outside the try: nobody closes the client.
AnnounceFails(b, v) ==
  /\ pc[b] = "announcing" /\ Outcome(b, v)
  /\ Departs({"unannounced"})
  /\ UNCHANGED <<configured, objects, wires, loops, sent>>

Remove ==
  /\ configured /\ configured' = FALSE
  /\ pc["startup"] = "idle" /\ pc["config"] = "idle"
  /\ entry' = "none" /\ client' = 0
  /\ IF client # 0 /\ closing[client] = "no"
     THEN /\ pc' = [pc EXCEPT !["config"] = "closing"]
          /\ mine' = [mine EXCEPT !["config"] = client]
          /\ BeginClose(client)
     ELSE UNCHANGED <<pc, mine, objects, wires, loops, sent>>
  /\ Departs(When(OthersBusy("config"), "removed"))
  /\ UNCHANGED verdict

Add ==
  /\ ~configured /\ configured' = TRUE /\ pc["config"] = "idle"
  /\ pc' = [pc EXCEPT !["config"] = "connecting"]
  /\ Departs(When(OthersBusy("config"), "twins"))
  /\ UNCHANGED <<served, mine, verdict, objects, wires, loops, sent>>

-----------------------------------------------------------------------------
(* Tool calls, which have no timeout                                       *)

Call(q) ==
  /\ sent[q] = 0 /\ client # 0 /\ transport[client] \in up
  /\ sent' = [sent EXCEPT ![q] = transport[client]]
  /\ Departs(When(closing[client] # "no", "late"))
  /\ UNCHANGED <<manager, objects, wires, loops>>

Answered(q) ==
  /\ sent[q] \in up /\ reader[sent[q]] = "on"
  /\ sent' = [sent EXCEPT ![q] = 0]
  /\ Plain /\ UNCHANGED <<manager, objects, wires, loops>>

-----------------------------------------------------------------------------
Verdicts == {"failed", "auth"}

ReaderStep(k) == ReaderEnds(k) \/ ReaderCrashes(k)

LoopStep(l) ==
  \/ LoopWakes(l) \/ (\E k \in Links : LoopOpens(l, k)) \/ LoopOpenFails(l)
  \/ LoopShakes(l) \/ LoopShakeFails(l) \/ LoopRefused(l)

CloseStep(c) == CloseTransport(c) \/ CloseEnds(c)

Connects(b) ==
  \/ Reconnect(b) \/ OldIsClosed(b) \/ OpenFails(b) \/ Shakes(b)
  \/ Undone(b) \/ Announces(b)
  \/ \E c \in Clients, k \in Links : Opens(b, c, k)
  \/ \E v \in Verdicts : ShakeFails(b, v) \/ AnnounceFails(b, v)

Next ==
  \/ \E k \in Links : ReaderStep(k)
  \/ \E k \in Links : LinkDies(k) \/ SessionExpires(k)
  \/ \E l \in Links : LoopStep(l)
  \/ \E c \in Clients : CloseStep(c)
  \/ \E b \in Builders : Connects(b)
  \/ SweepLooks \/ AuthorizationStarts \/ AuthorizationTimesOut
  \/ CallRefused \/ RefreshFails \/ Remove \/ Add
  \/ \E q \in Calls : Call(q) \/ Answered(q)

\* Tasks are scheduled, sleeps end, and what is awaited of the transport
\* comes, fails or times out.
Fairness ==
  /\ WF_vars(\E k \in Links : ReaderEnds(k))
  /\ WF_vars(\E l \in Links : LoopStep(l))
  /\ WF_vars(\E c \in Clients : CloseStep(c))
  /\ WF_vars(\E b \in Builders : Connects(b))

Spec == Init /\ [][Next]_vars /\ Fairness

-----------------------------------------------------------------------------
(* Properties                                                              *)

Tolerates(ds) == departs \subseteq ds

\* The domains of the variables.
TypeOK ==
  /\ departs \subseteq Departures /\ spent \in 0..MaxDepartures
  /\ configured \in BOOLEAN
  /\ entry \in {"none", "connected"} \cup Verdicts /\ client \in 0..MaxClients
  /\ pc \in [Builders -> {"idle", "looked", "closing", "connecting", "shaking",
                          "announcing", "undoing"}]
  /\ mine \in [Builders -> 0..MaxClients] /\ verdict \in [Builders -> Verdicts]
  /\ transport \in [Clients -> 0..MaxLinks] /\ connected \subseteq Clients
  /\ closing \in [Clients -> {"no", "begun", "waiting"}]
  /\ readTask \in [Clients -> 0..MaxLinks] /\ loopTask \in [Clients -> 0..MaxLinks]
  /\ owner \in [Links -> 0..MaxClients] /\ up \subseteq Links
  /\ reader \in [Links -> {"on", "deaf", "off"}]
  /\ loop \in [Links -> {"none", "sleeping", "connecting", "shaking"}]
  /\ attempt \in [Links -> 0..MaxAttempts] /\ shaken \in [Links -> 0..MaxLinks]
  /\ sent \in [Calls -> 0..MaxLinks]

\* The clients that somebody will still close or use.
Wanted ==
  {c \in Clients : \/ configured /\ client = c
                   \/ closing[c] # "no"
                   \/ \E b \in Builders : mine[b] = c}

\* "min(2^attempt, 60) seconds between retries, up to max_reconnect_attempts":
\* a client has one loop at most, and that has no connection of its own to
\* tear down.
OneLoop ==
  Tolerates(AllDepartures \ {"flaky"}) =>
    \A c \in Clients :
      /\ \A l, m \in LoopsOf(c) : l = m
      /\ \A l \in LoopsOf(c) : loop[l] # "shaking" => Readers(c) = {}

\* "close() ... would otherwise spawn a new read loop after we clean up": a
\* client that is replaced or removed leaves no connection, reader or loop.
NoStray ==
  Tolerates({"exhausted", "garbled", "expired", "late"}) =>
    \A c \in Clients \ Wanted : Open(c) \cup Readers(c) \cup LoopsOf(c) = {}

\* A call that waits can be answered, or failed when its connection ends.
CallsAreRead ==
  Tolerates({"exhausted", "expired", "unannounced", "twins", "removed"}) =>
    \A q \in Calls : sent[q] # 0 => reader[sent[q]] # "off"

\* A server in use does not stay without a connection: the client's loop opens
\* one, or the manager replaces the client, though a reader may have crashed.
Broken == client # 0 /\ transport[client] \notin up

Recovers == Broken ~> ~Broken \/ ~Tolerates({"garbled"})
=============================================================================
