---------------------------- MODULE ConversationLog ----------------------------
(***************************************************************************)
(* The history of one session: the messages the orchestrator sends to the  *)
(* model, and the event log from which a restarted kernel rebuilds them.   *)
(*                                                                         *)
(* run_query appends each message to the history and yields it; the turn   *)
(* runner writes it to the log and only then resumes the query loop.  The  *)
(* loop also rewrites the history: it drops old read-only tool calls, has  *)
(* old messages summarised, and takes back an answer that was cut off.     *)
(* A user's own executions append to the same history at any time.         *)
(*                                                                         *)
(* Events that carry no message are left out; the text of a message is its *)
(* number.  A call of an answer is a pair <<answer, n>>: n = 1 only reads, *)
(* n = 2 may change something.                                             *)
(***************************************************************************)
EXTENDS Naturals, FiniteSets, Sequences, SequencesExt, Functions

CONSTANTS
  KeepRecent,     \* user messages that compaction leaves alone
  Asks,           \* the sets of calls an answer may have
  MaxMessages,    \* bound on the messages made
  MaxRetries,     \* bound on the retries of a turn, of each kind
  Departures,     \* what may go differently from a plain run
  MaxDepartures   \* bound on how often it does

(* crash    the process stops at any time, not only when the session idles *)
(* lost     a tool call ends without a result                              *)
(* cut      compaction summarises a call and leaves its results            *)
(* micro    read-only calls are dropped and no summary follows             *)
(* reactive the provider refuses the prompt and the history is summarised  *)
(* context  a user's execution appends while a turn runs, or is written    *)
(* outside  a cancel finds the runner, not the query loop, at an await     *)
(* unlogged a write fails, or a sub-agent's depth is left behind           *)
(* abandon  the turn ends after an answer was taken back for a retry       *)
AllDepartures == {"crash", "lost", "cut", "micro", "reactive", "context",
                  "outside", "unlogged", "abandon"}

ASSUME LogAssumption ==
  /\ KeepRecent \in Nat \ {0}
  /\ MaxMessages \in Nat /\ MaxRetries \in Nat /\ MaxDepartures \in Nat
  /\ Asks \subseteq SUBSET {1, 2}
  /\ Departures \subseteq AllDepartures

Numbers  == 1..MaxMessages
Calls    == Numbers \X {1, 2}
Messages == [by: {"user", "assistant", "results", "summary"}, n: 0..MaxMessages,
             calls: SUBSET Calls]
Phases   == {"idle", "prepare", "compacting", "streaming", "recompacting",
             "stop", "tools", "writing"}

VARIABLES
  departs,   \* the departures so far (history)
  spent,     \* and how often there was one (bound)
  mem,       \* ConversationHistory._messages
  kinds,     \* _tool_kinds: the calls whose kind is known
  log,       \* rows in the order of their timestamps, written or not
  last,      \* session.last_event_id, as a row number
  phase,     \* where the query loop is
  after,     \* where it goes when its event is written
  cut,       \* messages before the boundary, while a summary is made
  retries,   \* turn.reactive_retries and turn.max_tokens_retries
  popped,    \* the answer taken back, until another one replaces it
  leaked,    \* session.subagent_depth > 0 though no sub-agent runs
  made       \* messages made (bound)

turn == <<phase, after, cut, retries, leaked>>
vars == <<departs, spent, mem, kinds, log, last, turn, popped, made>>

When(c, d) == IF c THEN {d} ELSE {}

\* The step departs from a plain run in the ways ds.
Departs(ds) ==
  /\ ds \subseteq Departures /\ spent + Cardinality(ds) <= MaxDepartures
  /\ departs' = departs \cup ds /\ spent' = spent + Cardinality(ds)

None   == [by |-> "none", n |-> 0, calls |-> {}]
Quiet  == [reactive |-> 0, tokens |-> 0]

Message(by, calls) == [by |-> by, n |-> made + 1, calls |-> calls]
Summary == [by |-> "summary", n |-> 0, calls |-> {}]

-----------------------------------------------------------------------------
(* The history                                                             *)

IsAnswer(m) == m.by = "assistant"

\* isinstance(msg, UserMessage): a message of tool results is one too.
UsersOf(h) == {i \in DOMAIN h : ~IsAnswer(h[i])}

\* find_compaction_boundary: the messages before the KeepRecent last users.
Boundary(h) ==
  LET users == UsersOf(h)
  IN  IF Cardinality(users) <= KeepRecent THEN 0
      ELSE (CHOOSE i \in users : Cardinality({j \in users : j >= i}) = KeepRecent) - 1

\* replace_with_compacted.
Compacted(h, before) ==
  IF before = 0 THEN h ELSE <<Summary>> \o SubSeq(h, before + 1, Len(h))

\* Results come with the answer whose calls they are for.
ResultsHaveTheirCalls(h) ==
  \A i \in DOMAIN h : h[i].by = "results" =>
    \E j \in 1..(i - 1) : IsAnswer(h[j]) /\ h[i].calls \subseteq h[j].calls

\* A boundary that leaves the results of a call without the call.
Cuts(h, before) ==
  ~ResultsHaveTheirCalls(SubSeq(h, before + 1, Len(h)))

OnlyReads(m) == IsAnswer(m) /\ m.calls # {} /\ \A c \in m.calls : c[2] = 1 /\ c \in kinds

\* The pairs before the boundary that remove_read_only_pairs takes out.
Pairs(h) ==
  UNION {{i, i + 1} : i \in {j \in 1..(Boundary(h) - 1) :
                              OnlyReads(h[j]) /\ h[j + 1].by = "results"}}

\* The history up to its i-th message, with a note where the first one was.
Noted(h, gone) ==
  LET first == CHOOSE i \in gone : \A j \in gone : i <= j
      kept[i \in 0..Len(h)] ==
        IF i = 0 THEN <<>>
        ELSE IF i = first THEN Append(kept[i - 1], Summary)
        ELSE IF i \in gone THEN kept[i - 1]
        ELSE Append(kept[i - 1], h[i])
  IN  kept

Microcompacted(h) == IF Pairs(h) = {} THEN h ELSE Noted(h, Pairs(h))[Len(h)]

\* The calls of the last answer, answered or not.
CallsOfLast(h) ==
  LET answers == {i \in DOMAIN h : IsAnswer(h[i])}
  IN  IF answers = {} THEN {}
      ELSE h[CHOOSE i \in answers : \A j \in answers : j <= i].calls

\* pending_tool_use_ids: calls of the last answer that no later message answers.
Pending(h) ==
  LET answers == {i \in DOMAIN h : IsAnswer(h[i])}
      final   == CHOOSE i \in answers : \A j \in answers : j <= i
  IN  IF answers = {} THEN {}
      ELSE h[final].calls \ UNION {h[i].calls : i \in {j \in DOMAIN h : j > final}}

-----------------------------------------------------------------------------
(* The log                                                                 *)

\* Variant: the head has moved to the new event.
RowAtHead(writer, messages, snapshot) ==
  [writer |-> writer, messages |-> messages, snapshot |-> snapshot,
   state |-> "open", parent |-> Len(log) + 1]

Row(writer, messages, snapshot) ==
  [writer |-> writer, messages |-> messages, snapshot |-> snapshot,
   state |-> "open", parent |-> last]

\* Variant: every message is appended.
AppendRow(h, row) == IF row.snapshot THEN row.messages ELSE h \o row.messages

\* Variant: two messages of one role in a row are one.
MergeRoles(h, row) ==
  IF row.snapshot THEN row.messages
  ELSE IF h # <<>> /\ Last(h).by = row.messages[1].by THEN Front(h) \o row.messages
  ELSE h \o row.messages

\* _LoadedSessionState.apply: a snapshot replaces the history; of two answers
\* in a row the earlier one was taken back.
Apply(h, row) ==
  CASE row.snapshot -> row.messages
    [] ~row.snapshot /\ h # <<>> /\ IsAnswer(Last(h)) /\ IsAnswer(row.messages[1]) ->
         Front(h) \o row.messages
    [] OTHER -> h \o row.messages

\* The history after the first i rows; only what was written is read.
Replay(rows) ==
  LET h[i \in 0..Len(rows)] ==
        IF i = 0 THEN <<>>
        ELSE IF rows[i].state = "written" THEN Apply(h[i - 1], rows[i])
        ELSE h[i - 1]
  IN  h

Reload(rows) == Replay(rows)[Len(rows)]

\* The rows as they are once every open write has gone through.
Settled == [i \in DOMAIN log |-> [log[i] EXCEPT !.state = IF @ = "open" THEN "written" ELSE @]]

OpenRows   == {i \in DOMAIN log : log[i].state = "open"}
OpenOf(w)  == {i \in OpenRows : log[i].writer = w}
Become(i, state) == [log EXCEPT ![i].state = state]

-----------------------------------------------------------------------------
Init ==
  /\ departs = {} /\ spent = 0
  /\ mem = <<>> /\ kinds = {}
  /\ log = <<>> /\ last = 0
  /\ phase = "idle" /\ after = "idle" /\ cut = 0 /\ retries = Quiet
  /\ popped = None /\ leaked = FALSE
  /\ made = 0

-----------------------------------------------------------------------------
(* Steps of the query loop                                                 *)

\* The loop goes on; at "idle" the turn is over and its runner cleans up.
Go(next) ==
  /\ phase' = next /\ after' = "idle" /\ cut' = 0
  /\ retries' = IF next = "idle" THEN Quiet ELSE retries
  /\ popped' = IF next = "idle" THEN None ELSE popped

\* A history event is yielded: the runner writes it, unless it takes it for an
\* event of a sub-agent.
Yields(h, messages, snapshot, deep, next) ==
  /\ mem' = h
  /\ IF deep THEN Go(next) /\ UNCHANGED log
     ELSE /\ log' = Append(log, Row("turn", messages, snapshot))
          /\ phase' = "writing" /\ after' = next /\ cut' = 0
          /\ UNCHANGED <<retries, popped>>

Appends(m, deep, next) == Yields(Append(mem, m), <<m>>, FALSE, deep, next)

Abandons == When(popped # None, "abandon")

Prompt ==
  /\ phase = "idle" /\ made < MaxMessages
  /\ Departs(When(OpenRows # {}, "context"))
  /\ Appends(Message("user", {}), FALSE, "prepare")
  /\ made' = made + 1 /\ leaked' = FALSE
  /\ UNCHANGED <<kinds, last>>

\* prepare_history has nothing to do.
Ready ==
  /\ phase = "prepare"
  /\ Go("streaming")
  /\ UNCHANGED <<departs, spent, mem, kinds, log, last, leaked, made>>

\* Above the threshold; below it again without a summary.
Microcompact ==
  /\ phase = "prepare" /\ Departs({"micro"})
  /\ mem' = Microcompacted(mem) /\ mem' # mem
  /\ Go("streaming")
  /\ UNCHANGED <<kinds, log, last, leaked, made>>

\* Above the threshold: the boundary is fixed before the summary is awaited.
StartSummary ==
  /\ phase = "prepare"
  /\ LET h == Microcompacted(mem)
     IN  /\ Departs(When(h # mem, "micro") \cup When(Cuts(h, Boundary(h)), "cut"))
         /\ mem' = h /\ cut' = Boundary(h)
  /\ phase' = "compacting"
  /\ UNCHANGED <<kinds, log, last, after, retries, popped, leaked, made>>

Summarise ==
  /\ phase = "compacting"
  /\ LET h == Compacted(mem, cut) IN Yields(h, h, TRUE, leaked, "streaming")
  /\ UNCHANGED <<departs, spent, kinds, last, leaked, made>>

Answer ==
  /\ phase = "streaming" /\ made < MaxMessages
  /\ \E picks \in Asks :
       LET m    == Message("assistant", {made + 1} \X picks)
           next == IF picks = {} THEN "stop" ELSE "tools"
       IN  /\ mem' = Append(mem, m)
           /\ IF leaked THEN phase' = next /\ after' = "idle" /\ UNCHANGED log
              ELSE /\ log' = Append(log, Row("turn", <<m>>, FALSE))
                   /\ phase' = "writing" /\ after' = next
  /\ popped' = None /\ made' = made + 1
  /\ UNCHANGED <<departs, spent, kinds, last, cut, retries, leaked>>

\* append_assistant skips an answer without content.
EmptyAnswer ==
  /\ phase = "streaming"
  /\ Go("stop")
  /\ UNCHANGED <<departs, spent, mem, kinds, log, last, leaked, made>>

\* Cut off at max_tokens: pop_last_assistant, and again with more room.
Retry ==
  /\ phase = "stop" /\ retries.tokens < MaxRetries
  /\ IF mem # <<>> /\ IsAnswer(Last(mem))
     THEN mem' = Front(mem) /\ popped' = Last(mem)
     ELSE UNCHANGED <<mem, popped>>
  /\ retries' = [retries EXCEPT !.tokens = @ + 1]
  /\ phase' = "prepare"
  /\ UNCHANGED <<departs, spent, kinds, log, last, after, cut, leaked, made>>

\* PromptTooLongError, MediaSizeError: the history is summarised and no
\* snapshot of it is yielded.
Refused ==
  /\ phase = "streaming" /\ retries.reactive < MaxRetries
  /\ Departs({"reactive"} \cup When(Cuts(mem, Boundary(mem)), "cut"))
  /\ cut' = Boundary(mem)
  /\ retries' = [retries EXCEPT !.reactive = @ + 1]
  /\ phase' = "recompacting"
  /\ UNCHANGED <<mem, kinds, log, last, after, popped, leaked, made>>

Recompact ==
  /\ phase = "recompacting"
  /\ mem' = Compacted(mem, cut)
  /\ Go("prepare")
  /\ UNCHANGED <<departs, spent, kinds, log, last, leaked, made>>

\* max_turns, a provider error, or the end of a turn without calls.
End ==
  /\ phase \in {"prepare", "streaming", "stop"} /\ Departs(Abandons)
  /\ Go("idle") /\ leaked' = FALSE
  /\ UNCHANGED <<mem, kinds, log, last, made>>

\* The executor's stream ends; append_tool_results skips an empty list.
ToolsDone ==
  /\ phase = "tools" /\ made < MaxMessages
  /\ \E done \in SUBSET CallsOfLast(mem), deep \in BOOLEAN :
       /\ leaked => deep
       /\ Departs(When(done # CallsOfLast(mem), "lost") \cup When(deep # leaked, "unlogged"))
       /\ leaked' = deep /\ kinds' = kinds \cup done
       /\ IF done = {} THEN Go("prepare") /\ UNCHANGED <<mem, log>>
          ELSE Appends(Message("results", done), deep, "prepare")
  /\ made' = made + 1
  /\ UNCHANGED <<last>>

\* Variant: the open calls are left as they are.
CancelOnly ==
  /\ phase \in {"prepare", "compacting", "streaming", "recompacting", "stop", "tools"}
  /\ Departs(Abandons) /\ made < MaxMessages
  /\ Go("idle") /\ leaked' = FALSE /\ UNCHANGED <<mem, log>>
  /\ made' = made + 1
  /\ UNCHANGED <<kinds, last>>

\* The CancelledError reaches the query loop: the open calls of the last
\* answer get results that say so, and the stream ends.
Cancel ==
  /\ phase \in {"prepare", "compacting", "streaming", "recompacting", "stop", "tools"}
  /\ Departs(Abandons) /\ made < MaxMessages
  /\ IF Pending(mem) = {} THEN Go("idle") /\ UNCHANGED <<mem, log>>
     ELSE Appends(Message("results", Pending(mem)), leaked, "idle")
  /\ leaked' = FALSE /\ made' = made + 1
  /\ UNCHANGED <<kinds, last>>

\* The CancelledError is raised in the runner, at an event the loop yielded:
\* the loop is closed where it stands.  A write may have gone through.
CancelOutside ==
  /\ phase \in {"streaming", "tools", "writing"}
  /\ Departs({"outside"} \cup Abandons)
  /\ IF OpenOf("turn") = {} THEN UNCHANGED log
     ELSE \E i \in OpenOf("turn"), s \in {"written", "failed"} : log' = Become(i, s)
  /\ Go("idle") /\ leaked' = FALSE
  /\ UNCHANGED <<mem, kinds, last, made>>

-----------------------------------------------------------------------------
(* Writes, the user's executions, restarts                                 *)

Resumes(writer) ==
  IF writer = "turn" THEN Go(after) /\ leaked' = (leaked /\ after # "idle")
  ELSE UNCHANGED <<turn, popped>>

\* Variant: the head moves when the write starts.
WriteAfterHead(i) ==
  /\ log[i].state = "open"
  /\ log' = Become(i, "written")
  /\ Resumes(log[i].writer)
  /\ UNCHANGED <<departs, spent, mem, kinds, last, made>>

\* append_event commits, and last_event_id follows.
Write(i) ==
  /\ log[i].state = "open"
  /\ log' = Become(i, "written") /\ last' = i
  /\ Resumes(log[i].writer)
  /\ UNCHANGED <<departs, spent, mem, kinds, made>>

\* _persist_history_append catches what the write raises, and goes on.
WriteFails(i) ==
  /\ log[i].state = "open" /\ Departs({"unlogged"})
  /\ log' = Become(i, "failed")
  /\ Resumes(log[i].writer)
  /\ UNCHANGED <<mem, kinds, last, made>>

\* append_user_context, at the end of an execution the user started.
AppendContext ==
  /\ made < MaxMessages
  /\ OpenOf("user") = {} /\ Departs(When(phase # "idle", "context"))
  /\ LET m == Message("user", {})
     IN  mem' = Append(mem, m) /\ log' = Append(log, Row("user", <<m>>, FALSE))
  /\ made' = made + 1
  /\ UNCHANGED <<kinds, last, turn, popped>>

\* The session is loaded again, after an eviction or a crash.
Restart ==
  /\ mem # <<>>
  /\ Departs(When(phase # "idle" \/ OpenRows # {}, "crash"))
  /\ mem' = Reload(log) /\ kinds' = {}
  /\ log' = [i \in DOMAIN log |-> [log[i] EXCEPT !.state = IF @ = "open" THEN "failed" ELSE @]]
  /\ last' = LET rows == {i \in DOMAIN log : log[i].state = "written"}
             IN  IF rows = {} THEN 0 ELSE CHOOSE i \in rows : \A j \in rows : j <= i
  /\ Go("idle") /\ leaked' = FALSE
  /\ UNCHANGED <<made>>

-----------------------------------------------------------------------------
Next ==
  \/ Prompt \/ Ready \/ Microcompact \/ StartSummary \/ Summarise
  \/ Answer \/ EmptyAnswer \/ Retry \/ Refused \/ Recompact \/ End
  \/ ToolsDone \/ Cancel \/ CancelOutside
  \/ \E i \in DOMAIN log : Write(i)
  \/ \E i \in DOMAIN log : WriteFails(i)
  \/ AppendContext \/ Restart

Spec == Init /\ [][Next]_vars

-----------------------------------------------------------------------------
(* Properties.  Each holds for the departures it names, and the runs show   *)
(* that the others break it.                                               *)

Tolerates(ds) == departs \subseteq ds
After == Reload(Settled)

\* The domains of the variables.
TypeOK ==
  /\ departs \subseteq Departures /\ spent \in 0..MaxDepartures
  /\ mem \in Seq(Messages) /\ kinds \subseteq Calls
  /\ \A i \in DOMAIN log : /\ log[i].writer \in {"turn", "user"}
                           /\ log[i].messages \in Seq(Messages)
                           /\ log[i].snapshot \in BOOLEAN
                           /\ log[i].state \in {"open", "written", "failed"}
                           /\ log[i].parent \in 0..(i - 1)
  /\ last \in 0..Len(log)
  /\ phase \in Phases /\ after \in Phases
  /\ cut \in 0..Len(mem)
  /\ popped \in Messages \cup {None}
  /\ leaked \in BOOLEAN /\ made \in 0..MaxMessages

\* A session loaded again goes on with the very history it had: the log folds
\* to the messages in memory once the open writes are through, through
\* cancels, summaries and restarts.  While a retry is under way they may also
\* hold the answer that was taken back.
ReloadIsMemory ==
  Tolerates({"crash", "cut"}) =>
    \/ After = mem
    \/ popped # None /\ After = Append(mem, popped)

\* No message of the history is missing from the log, whatever compaction,
\* retries and the user's executions do to the two.
NothingForgotten ==
  Tolerates({"crash", "cut", "context", "micro", "reactive", "abandon"}) =>
    \A i \in DOMAIN mem : mem[i].by = "summary" \/ mem[i] \in Range(After)

\* The provider gets each answer's calls with all their results right behind
\* them, and no other results.
PairsWhole(h) ==
  \A i \in DOMAIN h :
    /\ IsAnswer(h[i]) /\ h[i].calls # {} =>
         i < Len(h) /\ h[i + 1].by = "results" /\ h[i + 1].calls = h[i].calls
    /\ h[i].by = "results" =>
         i > 1 /\ IsAnswer(h[i - 1]) /\ h[i].calls = h[i - 1].calls

Paired ==
  Tolerates({"micro", "reactive", "abandon"}) /\ phase = "streaming" => PairsWhole(mem)

\* "compaction never separates an assistant + tool_result pair": results in
\* the history come with the call they answer.
ResultsHaveCalls == ResultsHaveTheirCalls(mem)

\* "the chain is contiguous": each event names the one before it as its
\* parent, as long as one writer is at work.
Chained ==
  Tolerates(AllDepartures \ {"context", "outside"}) =>
    \A i \in DOMAIN log : log[i].state = "written" =>
      /\ log[i].parent < i
      /\ \A j \in (log[i].parent + 1)..(i - 1) : log[j].state # "written"
      /\ log[i].parent = 0 \/ log[log[i].parent].state = "written"
=============================================================================
