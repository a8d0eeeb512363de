--------------------------- MODULE SessionResidency ---------------------------
(***************************************************************************)
(* Which in-memory Session object stands for one stored session.           *)
(*                                                                         *)
(* The manager maps a session id to a Session object, drops the object     *)
(* when the session is idle, and builds a new one from the event log when  *)
(* a client or a gateway asks for the session again.  Objects are numbered *)
(* in the order they are built; an object that left the map may still hold *)
(* a running turn or a client's sender.  The FIFO and the life of one turn *)
(* are those of SessionTurns, cut down to what eviction looks at: no turn  *)
(* (idle), a turn that in_flight_turn does not show yet (opening), and a   *)
(* turn it shows (inflight), with a number of turns waiting behind it.     *)
(* The specification's names are its own, so that SessionProofs can extend *)
(* both modules.                                                           *)
(***************************************************************************)
EXTENDS Naturals, FiniteSets

CONSTANTS
  Clients,      \* connections that may load the session
  Gateways,     \* callers of run_turn_for_gateway
  Editors,      \* callers of session/rename: they load it and leave it
  MaxObjects,   \* bound on the Session objects built
  MaxWaiting,   \* bound on the FIFO
  MaxDue,       \* bound on the evictions under way for one object
  MaxRaces,     \* bound on the races
  Exposures     \* races the environment may bring about, see AllRaces

Loaders == Clients \cup Gateways \cup Editors
Objects == 1..MaxObjects
None    == 0        \* the session id is not in the map

(***************************************************************************)
(* "coload": the session is loaded by two callers at once, or loaded while *)
(* it is deleted.  "slowclose": closing a session waits for the shells its *)
(* turns left running.  "opening": a session is closed while a turn's      *)
(* UserMessageEvent is being written.  "force": session/delete with force, *)
(* as the cron reaper calls it.                                            *)
(***************************************************************************)
AllRaces == {"coload", "slowclose", "opening", "force"}

ASSUME ResidencyAssumption ==
  /\ Clients \cap Gateways = {}
  /\ Clients \cap Editors = {}
  /\ Gateways \cap Editors = {}
  /\ MaxObjects \in Nat \ {0} /\ MaxWaiting \in Nat /\ MaxDue \in Nat \ {0} /\ MaxRaces \in Nat
  /\ Exposures \subseteq AllRaces

VARIABLES
  stored,     \* the session has its row and its events
  current,    \* self._sessions[session_id], or None
  made,       \* number of Session objects built so far
  pc,         \* where each loader is
  senders,    \* the connections each object broadcasts to
  flight,     \* each object's turn
  waiting,    \* turns in each object's FIFO
  shells,     \* objects whose task registry has a running process
  due,        \* _maybe_evict tasks scheduled for each object
  closing,    \* evictions of each object that await its processes' end
  parked,     \* objects loaded by a caller that neither observed nor prompted
  deleting,   \* where session/delete is
  races       \* how many races there have been (history, bounded)

residencyVars == <<stored, current, made, pc, senders, flight, waiting, shells, due,
                   closing, parked, deleting, races>>

Busy(o) == flight[o] = "inflight" \/ waiting[o] > 0

ResidencyInit ==
  /\ stored = TRUE
  /\ current = None
  /\ made = 0
  /\ pc = [l \in Loaders |-> "out"]
  /\ senders = [o \in Objects |-> {}]
  /\ flight = [o \in Objects |-> "idle"]
  /\ waiting = [o \in Objects |-> 0]
  /\ shells = {}
  /\ due = [o \in Objects |-> 0]
  /\ closing = [o \in Objects |-> 0]
  /\ parked = {}
  /\ deleting = "no"
  /\ races = 0

-----------------------------------------------------------------------------
(* Helpers                                                                 *)

\* The step is a race of the kinds rs.
Races(rs) ==
  /\ rs \subseteq Exposures /\ races + Cardinality(rs) <= MaxRaces
  /\ races' = races + Cardinality(rs)

When(c, r) == IF c THEN {r} ELSE {}

\* Somebody is between its check of the map and its use of the answer.
Loading == deleting # "no" \/ \E l \in Loaders : pc[l] \in {"checking", "reading"}

MoreDue(o) == due[o] + closing[o] < MaxDue

\* _bind_connection_to_session
Bind(c, o) ==
  /\ senders' = [senders EXCEPT ![o] = @ \cup {c}]
  /\ pc' = [pc EXCEPT ![c] = "in"]
  /\ parked' = parked \ {o}
  /\ UNCHANGED <<flight, waiting>>

\* A turn arrives at object o: it opens, or joins the FIFO.
Prompted(o) ==
  /\ \/ /\ flight[o] = "idle"
        /\ flight' = [flight EXCEPT ![o] = "opening"]
        /\ UNCHANGED waiting
     \/ /\ flight[o] = "inflight" /\ waiting[o] < MaxWaiting
        /\ waiting' = [waiting EXCEPT ![o] = @ + 1]
        /\ UNCHANGED flight
  /\ parked' = parked \ {o}
  /\ UNCHANGED senders

\* What loader l does with object o once it has it.
Use(l, o) ==
  \/ l \in Clients /\ Bind(l, o)
  \/ /\ l \in Gateways /\ Prompted(o)
     /\ pc' = [pc EXCEPT ![l] = "out"]
  \/ /\ l \in Editors
     /\ pc' = [pc EXCEPT ![l] = "out"]
     /\ parked' = IF o = current THEN parked ELSE parked \cup {o}
     /\ UNCHANGED <<senders, flight, waiting>>

\* Variant: the turn in flight and the FIFO are not looked at.
EvictUnlessObserved(o, conns) ==
  IF current = None \/ conns # {}
  THEN UNCHANGED <<current, closing, races>>
  ELSE current' = None /\ UNCHANGED <<closing, races>>

\* _maybe_evict, for an object left with the senders conns.  The test is on
\* the session id, not on the object, and so is the pop.
MaybeEvict(o, conns) ==
  IF current = None \/ conns # {} \/ Busy(o)
  THEN UNCHANGED <<current, closing, races>>
  ELSE /\ Races(When(flight[o] = "opening", "opening")) /\ (o \in shells => closing[o] < MaxDue)
       /\ current' = IF o \in shells THEN current ELSE None
       /\ closing' = IF o \in shells THEN [closing EXCEPT ![o] = @ + 1]
                                     ELSE closing

-----------------------------------------------------------------------------
(* Loading: load_session, _get_or_load and _load_from_disk                 *)

\* A client always asks the store first; the others look at the map first.
LoadBegins(l) ==
  /\ pc[l] = "out" /\ Races(When(Loading, "coload"))
  /\ l \in Clients \/ current = None
  /\ pc' = [pc EXCEPT ![l] = "checking"]
  /\ UNCHANGED <<stored, current, made, senders, flight, waiting, shells, due,
                 closing, parked, deleting>>

LoadFindsResident(l) ==
  /\ pc[l] = "out" /\ l \notin Clients /\ current # None
  /\ Use(l, current)
  /\ UNCHANGED <<stored, current, made, shells, due, closing, deleting, races>>

\* get_session answers.  load_session looks at the map again, _get_or_load
\* does not.  The event loop runs the tasks it has scheduled before it waits
\* for the database, so no eviction scheduled before the read outlives it.
RecordRead(l) ==
  /\ pc[l] = "checking"
  /\ \/ /\ ~stored
        /\ pc' = [pc EXCEPT ![l] = "out"]
        /\ UNCHANGED <<senders, flight, waiting, parked>>
     \/ /\ stored /\ l \in Clients /\ current # None
        /\ Use(l, current)
     \/ /\ stored
        /\ l \notin Clients \/ current = None
        /\ \A o \in Objects : due[o] = 0
        /\ pc' = [pc EXCEPT ![l] = "reading"]
        /\ UNCHANGED <<senders, flight, waiting, parked>>
  /\ UNCHANGED <<stored, current, made, shells, due, closing, deleting, races>>

\* The events are read and the new object replaces whatever is in the map.
ObjectBuilt(l) ==
  /\ pc[l] = "reading" /\ made < MaxObjects
  /\ made' = made + 1
  /\ current' = made'
  /\ Use(l, made')
  /\ UNCHANGED <<stored, shells, due, closing, deleting, races>>

-----------------------------------------------------------------------------
(* Turns                                                                   *)

\* session/prompt: _get_or_raise, from any connection.
Prompt ==
  /\ current # None
  /\ Prompted(current)
  /\ UNCHANGED <<stored, current, made, pc, shells, due, closing, deleting, races>>

\* The UserMessageEvent is written.
TurnShows(o) ==
  /\ flight[o] = "opening"
  /\ flight' = [flight EXCEPT ![o] = "inflight"]
  /\ UNCHANGED <<stored, current, made, pc, senders, waiting, shells, due,
                 closing, parked, deleting, races>>

\* Variant: the last turn schedules no eviction.
EndsQuietly(o) ==
  /\ flight[o] = "inflight" /\ MoreDue(o)
  /\ flight' = [flight EXCEPT ![o] = IF waiting[o] > 0 THEN "opening" ELSE "idle"]
  /\ waiting' = [waiting EXCEPT ![o] = IF @ > 0 THEN @ - 1 ELSE 0]
  /\ UNCHANGED <<stored, current, made, pc, senders, shells, due, closing,
                 parked, deleting, races>>

\* Variant: the FIFO is popped without a look at whether it is empty.
EndsAlwaysPops(o) ==
  /\ flight[o] = "inflight" /\ MoreDue(o)
  /\ flight' = [flight EXCEPT ![o] = "opening"]
  /\ waiting' = [waiting EXCEPT ![o] = @ - 1]
  /\ UNCHANGED <<stored, current, made, pc, senders, shells, due, closing,
                 parked, deleting, races>>

\* The end of the finally clause: dispatch the next turn, or schedule an
\* eviction.
TurnEnds(o) ==
  /\ flight[o] = "inflight" /\ MoreDue(o)
  /\ IF waiting[o] > 0
     THEN /\ flight' = [flight EXCEPT ![o] = "opening"]
          /\ waiting' = [waiting EXCEPT ![o] = @ - 1]
          /\ UNCHANGED due
     ELSE /\ flight' = [flight EXCEPT ![o] = "idle"]
          /\ due' = [due EXCEPT ![o] = @ + 1]
          /\ UNCHANGED waiting
  /\ UNCHANGED <<stored, current, made, pc, senders, shells, closing, parked,
                 deleting, races>>

\* A tool of the turn leaves a process running in the background.
ShellStarts(o) ==
  /\ Races({"slowclose"})
  /\ flight[o] = "inflight" /\ o \notin shells
  /\ shells' = shells \cup {o}
  /\ UNCHANGED <<stored, current, made, pc, senders, flight, waiting, due,
                 closing, parked, deleting>>

ShellExits(o) ==
  /\ o \in shells
  /\ shells' = shells \ {o}
  /\ UNCHANGED <<stored, current, made, pc, senders, flight, waiting, due,
                 closing, parked, deleting, races>>

\* session/cancel: the FIFO is dropped and an eviction scheduled; the turn
\* in flight ends by TurnEnds.
CancelSession ==
  /\ current # None /\ MoreDue(current)
  /\ waiting' = [waiting EXCEPT ![current] = 0]
  /\ due' = [due EXCEPT ![current] = @ + 1]
  /\ UNCHANGED <<stored, current, made, pc, senders, flight, shells, closing,
                 parked, deleting, races>>

-----------------------------------------------------------------------------
(* Eviction, disconnection, deletion                                       *)

EvictRuns(o) ==
  /\ due[o] > 0
  /\ due' = [due EXCEPT ![o] = @ - 1]
  /\ MaybeEvict(o, senders[o])
  /\ UNCHANGED <<stored, made, pc, senders, flight, waiting, shells, parked,
                 deleting>>

\* _close_runtime returns to _maybe_evict, which pops the session id.
EvictPops(o) ==
  /\ closing[o] > 0
  /\ closing' = [closing EXCEPT ![o] = @ - 1]
  /\ current' = None
  /\ shells' = shells \ {o}
  /\ UNCHANGED <<stored, made, pc, senders, flight, waiting, due, parked,
                 deleting, races>>

\* A load the connection was waiting for is cancelled with its task.  Only
\* sessions in the map are searched for the connection's sender.
Disconnect(c) ==
  /\ pc[c] # "out"
  /\ pc' = [pc EXCEPT ![c] = "out"]
  /\ IF current # None /\ c \in senders[current]
     THEN /\ senders' = [senders EXCEPT ![current] = @ \ {c}]
          /\ MaybeEvict(current, senders[current] \ {c})
     ELSE UNCHANGED <<senders, current, closing, races>>
  /\ UNCHANGED <<stored, made, flight, waiting, shells, due, parked, deleting>>

\* session/delete, from a client or the cron reaper.
DeleteBegins ==
  /\ stored /\ deleting = "no"
  /\ Races(When(Loading, "coload")
           \cup When(current # None /\ (senders[current] # {} \/ Busy(current)), "force")
           \cup When(current # None /\ flight[current] = "opening", "opening"))
  /\ IF current = None
     THEN deleting' = "erasing" /\ UNCHANGED current
     ELSE /\ deleting' = IF current \in shells THEN "closing" ELSE "erasing"
          /\ current' = IF current \in shells THEN current ELSE None
  /\ UNCHANGED <<stored, made, pc, senders, flight, waiting, shells, due,
                 closing, parked>>

DeletePops ==
  /\ deleting = "closing"
  /\ deleting' = "erasing"
  /\ current' = None
  /\ UNCHANGED <<stored, made, pc, senders, flight, waiting, shells, due,
                 closing, parked, races>>

DeleteErases ==
  /\ deleting = "erasing"
  /\ stored' = FALSE
  /\ deleting' = "no"
  /\ UNCHANGED <<current, made, pc, senders, flight, waiting, shells, due,
                 closing, parked, races>>

-----------------------------------------------------------------------------
ResidencyNext ==
  \/ \E l \in Loaders :
       LoadBegins(l) \/ LoadFindsResident(l) \/ RecordRead(l) \/ ObjectBuilt(l)
  \/ \E o \in Objects :
       \/ TurnShows(o) \/ TurnEnds(o) \/ ShellStarts(o) \/ ShellExits(o)
       \/ EvictRuns(o) \/ EvictPops(o)
  \/ \E c \in Clients : Disconnect(c)
  \/ Prompt \/ CancelSession
  \/ DeleteBegins \/ DeletePops \/ DeleteErases

ResidencySpec == ResidencyInit /\ [][ResidencyNext]_residencyVars
-----------------------------------------------------------------------------
(* Properties                                                              *)

\* The domains of the variables.
ResidencyTypeOK ==
  /\ stored \in BOOLEAN
  /\ current \in Objects \cup {None}
  /\ made \in 0..MaxObjects
  /\ pc \in [Loaders -> {"out", "checking", "reading", "in"}]
  /\ senders \in [Objects -> SUBSET Clients]
  /\ flight \in [Objects -> {"idle", "opening", "inflight"}]
  /\ waiting \in [Objects -> 0..MaxWaiting]
  /\ shells \subseteq Objects
  /\ due \in [Objects -> 0..MaxDue]
  /\ closing \in [Objects -> 0..MaxDue]
  /\ parked \subseteq Objects
  /\ deleting \in {"no", "closing", "erasing"}
  /\ races \in 0..MaxRaces

\* A session stays in memory for a reason: someone observes it, a turn of it
\* is under way, or an eviction or a deletion is on its way.  on_disconnect,
\* cancel and the end of a turn must between them never miss the moment it
\* falls idle.  (A rename that loads a session parks it there.)
ResidentForAReason ==
  current # None =>
    \/ senders[current] # {} \/ flight[current] # "idle"
    \/ due[current] > 0 \/ closing[current] > 0
    \/ current \in parked
    \/ deleting # "no"

\* A turn runs on the object the map holds: what it appends to its history
\* and its log is what the next turn and the next load see.
TurnsAtHome ==
  races = 0 => \A o \in Objects : flight[o] # "idle" \/ waiting[o] > 0 => o = current

=============================================================================
