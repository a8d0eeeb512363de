------------------------------ MODULE CronClaims ------------------------------
(***************************************************************************)
(* One durable cron task, shared by several kernels through its row of     *)
(* cron_tasks.                                                             *)
(*                                                                         *)
(* Each kernel has two coroutines that may fire the task: the scheduler    *)
(* loop, and the catch-up of its startup, which runs after the loop has    *)
(* been started.  A runner reads the row, decides on what it read, claims  *)
(* the row by a compare-and-swap on running_by, runs the turn under a      *)
(* heartbeat, records the outcome and releases the claim; each of these is *)
(* a transaction of its own, and the reads are acted on however old they   *)
(* are.  A kernel that starts again is another member of Kernels, as it    *)
(* draws a fresh kernel id.  The other tasks of a batch appear only as the *)
(* time a claimed task waits for the semaphore.                            *)
(***************************************************************************)
EXTENDS Naturals

CONSTANTS
  Kernels,     \* kernel instances, each started once at most
  StaleAfter,  \* HEARTBEAT_STALE_THRESHOLD_S, in HEARTBEAT_INTERVAL_S ticks
  CatchingUp   \* kernels whose startup looks for missed tasks

Nobody == "nobody"

ASSUME CronAssumption ==
  /\ Nobody \notin Kernels
  /\ StaleAfter \in Nat
  /\ CatchingUp \subseteq Kernels

Runners   == (Kernels \X {"loop"}) \cup (CatchingUp \X {"catchup"})
Of(r)     == r[1]
Statuses  == {"active", "paused", "expired", "completed", "deleted"}

\* Where a runner is once it has a claim.
Holding == {"queued", "running", "delivering", "counted", "settled"}
Places  == {"off", "asleep", "listed"} \cup Holding

VARIABLES
  recurring,   \* the task's kind
  status,      \* its row: status,
  next,        \*   next_fire_at: "none", "past" or "future",
  fired,       \*   whether fire_count is above 0,
  owner,       \*   running_by,
  age,         \*   time since running_heartbeat, in ticks
  kernel,      \* "unborn", "up" or "gone"
  pc,          \* where each runner is
  snap,        \* what each runner listed: whether the task is due, and
               \* whether it is a recurring one that has fired
  editor,      \* pause_task or resume_task between its read and its write
  lost         \* runners whose claim was cleared under them (history)

row  == <<status, next, fired, owner, age>>
vars == <<recurring, row, kernel, pc, snap, editor, lost>>

Snaps  == [due: BOOLEAN, fired: BOOLEAN]
NoSnap == [due |-> FALSE, fired |-> FALSE]

Capped(n, cap) == IF n > cap THEN cap ELSE n
Rest(r) == IF r[2] = "loop" THEN "asleep" ELSE "off"
Go(r, place) == pc' = [pc EXCEPT ![r] = place]

\* Runner r goes on to place, and has no use any more for what it listed.
GoWithout(r, place) == Go(r, place) /\ snap' = [snap EXCEPT ![r] = NoSnap]

\* Runner r has nothing left to do in this round.
Finish(r) == GoWithout(r, Rest(r))

\* running_by and running_heartbeat are cleared where running_by is k.
Disown(k) ==
  /\ owner' = IF owner = k THEN Nobody ELSE owner
  /\ age' = IF owner = k THEN 0 ELSE age

Holders == {r \in Runners : pc[r] \in Holding}

Init ==
  /\ recurring \in BOOLEAN
  /\ status = "active" /\ next = "future"
  /\ fired = FALSE
  /\ owner = Nobody /\ age = 0
  /\ kernel = [k \in Kernels |-> "unborn"]
  /\ pc = [r \in Runners |-> "off"]
  /\ snap = [r \in Runners |-> NoSnap]
  /\ editor = "no"
  /\ lost = {}

-----------------------------------------------------------------------------
(* Kernels and time                                                        *)

Start(k) ==
  /\ kernel[k] = "unborn"
  /\ kernel' = [kernel EXCEPT ![k] = "up"]
  /\ pc' = [r \in Runners |-> IF Of(r) = k THEN "asleep" ELSE pc[r]]
  /\ UNCHANGED <<recurring, row, snap, editor, lost>>

\* Some kernel is left to take over.
Survived(k) == \E j \in Kernels \ {k} : kernel[j] # "gone"

Leave(k) ==
  /\ kernel[k] = "up" /\ Survived(k)
  /\ kernel' = [kernel EXCEPT ![k] = "gone"]
  /\ pc' = [r \in Runners |-> IF Of(r) = k THEN "off" ELSE pc[r]]
  /\ snap' = [r \in Runners |-> IF Of(r) = k THEN NoSnap ELSE snap[r]]
  /\ lost' = {r \in lost : Of(r) # k}

\* The process dies; its claim stays in the row.
Crash(k) ==
  /\ Leave(k)
  /\ UNCHANGED <<recurring, row, editor>>

\* stop(), once startup is over: the loop is cancelled.  The finally of
\* _fire_task releases the claim, unless the task still waits for the
\* semaphore and has not entered it, or the release itself is cancelled.
Stop(k) ==
  /\ Leave(k)
  /\ k \in CatchingUp => pc[<<k, "catchup">>] = "off"
  /\ \/ /\ pc[<<k, "loop">>] \notin Holding \ {"queued", "settled"}
        /\ UNCHANGED <<owner, age>>
     \/ /\ pc[<<k, "loop">>] \in Holding
        /\ Disown(k)
  /\ UNCHANGED <<recurring, status, next, fired, editor>>

\* next_fire_at is reached.
Occurs ==
  /\ next = "future"
  /\ next' = "past"
  /\ UNCHANGED <<recurring, status, fired, owner, age, kernel, pc, snap, editor,
                 lost>>

\* HEARTBEAT_INTERVAL_S pass.  _heartbeat_loop runs from the start of the
\* turn to its end and refreshes the claims its kernel holds.
Tick ==
  /\ owner # Nobody
  /\ age' = IF \E r \in Runners : pc[r] = "running" /\ Of(r) = owner
            THEN 0 ELSE Capped(age + 1, StaleAfter + 1)
  /\ UNCHANGED <<recurring, status, next, fired, owner, kernel, pc, snap, editor, lost>>

-----------------------------------------------------------------------------
(* A round of the loop, or of the catch-up, up to the claim                *)

\* list_active, and what runner r keeps of it; by then running_by is o.
List(r, o) ==
  IF status = "active"
  THEN /\ Go(r, "listed")
       /\ snap' = [snap EXCEPT ![r] =
            [due   |-> next = "past" /\ o = Nobody,
             fired |-> recurring /\ fired]]
  ELSE Finish(r)

\* Variant: no claim is cleared.
LookWithoutCleanup(r) ==
  /\ pc[r] = "asleep"
  /\ List(r, owner)
  /\ UNCHANGED <<recurring, row, kernel, editor, lost>>

\* _cleanup_stale_claims, then list_active.
Look(r) ==
  /\ pc[r] = "asleep"
  /\ IF owner # Nobody /\ age > StaleAfter
     THEN /\ Disown(owner)
          /\ lost' = lost \cup {h \in Holders : Of(h) = owner}
     ELSE UNCHANGED <<owner, age, lost>>
  /\ List(r, owner')
  /\ UNCHANGED <<recurring, status, next, fired, kernel, editor>>

\* The max_age sweep of the loop, which comes to a task once in a round: a
\* recurring task that has not fired for long expires, and stays among the
\* due.
Expire(r) ==
  /\ pc[r] = "listed" /\ r[2] = "loop"
  /\ snap[r].fired
  /\ status' = "expired" /\ next' = "none"
  /\ IF snap[r].due
     THEN snap' = [snap EXCEPT ![r] = [due |-> TRUE, fired |-> FALSE]]
          /\ UNCHANGED pc
     ELSE Finish(r)
  /\ UNCHANGED <<recurring, fired, owner, age, kernel, editor, lost>>

NotDue(r) ==
  /\ pc[r] = "listed" /\ ~snap[r].due
  /\ Finish(r)
  /\ UNCHANGED <<recurring, row, kernel, editor, lost>>

\* The catch-up moves a missed recurring task on.  It fires a missed one-shot
\* task, and a recurring one whose repeat is exhausted.
SkipMissed(r) ==
  /\ pc[r] = "listed" /\ snap[r].due
  /\ r[2] = "catchup" /\ recurring
  /\ status' = "active" /\ next' = "future"
  /\ Finish(r)
  /\ UNCHANGED <<recurring, fired, owner, age, kernel, editor, lost>>

\* Variant: the claim does not compare before it swaps.
ClaimAnyway(r) ==
  /\ pc[r] = "listed" /\ snap[r].due
  /\ owner' = Of(r) /\ age' = 0
  /\ GoWithout(r, "queued")
  /\ UNCHANGED <<recurring, status, next, fired, kernel, editor, lost>>

\* _claim_tasks: neither next_fire_at nor anything else that was listed is
\* compared.
Claim(r) ==
  /\ pc[r] = "listed" /\ snap[r].due
  /\ IF owner = Nobody /\ status = "active"
     THEN /\ owner' = Of(r) /\ age' = 0
          /\ GoWithout(r, "queued")
     ELSE Finish(r) /\ UNCHANGED <<owner, age>>
  /\ UNCHANGED <<recurring, status, next, fired, kernel, editor, lost>>

-----------------------------------------------------------------------------
(* The execution                                                           *)

\* The semaphore is taken, the hook has run, the session exists: the
\* heartbeat and the turn start.
BeginTurn(r) ==
  /\ pc[r] = "queued"
  /\ Go(r, "running")
  /\ UNCHANGED <<recurring, row, kernel, snap, editor, lost>>

\* The turn answers, fails or times out, and the heartbeat is cancelled;
\* hook, delivery with its retries, and add_execution follow.  A heartbeat
\* that died of an error has the same effect before the turn is over.
EndTurn(r) ==
  /\ pc[r] = "running"
  /\ Go(r, "delivering")
  /\ UNCHANGED <<recurring, row, kernel, snap, editor, lost>>

\* update_fired: its WHERE names the id only.
CountFire(r) ==
  /\ pc[r] = "delivering"
  /\ fired' = TRUE
  /\ next' = IF recurring THEN "future" ELSE "none"
  /\ Go(r, "counted")
  /\ UNCHANGED <<recurring, status, owner, age, kernel, snap, editor, lost>>

\* A one-shot task is completed; so is a recurring one whose repeat is
\* exhausted, by its dates or by the count the runner listed.
Settle(r) ==
  /\ pc[r] = "counted"
  /\ \/ status' = "completed" /\ next' = "none"
     \/ recurring /\ UNCHANGED <<status, next>>
  /\ Go(r, "settled")
  /\ UNCHANGED <<recurring, fired, owner, age, kernel, snap, editor, lost>>

\* What _handle_failure writes as the status: another try, or a pause, when
\* the error is permanent, the retries of a one-shot task are used up, or
\* the next time of a recurring one cannot be computed.
AfterFailure == {"active", "paused"}

\* Variant: a failure is recorded and the claim kept.
FailureKeepsClaim(r) ==
  /\ pc[r] \in {"queued", "delivering"}
  /\ status' \in AfterFailure
  /\ next' = IF status' = "active" THEN "future" ELSE "none"
  /\ Finish(r)
  /\ UNCHANGED <<recurring, fired, owner, age, kernel, editor, lost>>

\* _handle_failure, also when no session could be made: a retry with backoff,
\* or a pause, whatever the status has become since the task was listed.
RecordFailure(r) ==
  /\ pc[r] \in {"queued", "delivering"}
  /\ status' \in AfterFailure
  /\ next' = IF status' = "active" THEN "future" ELSE "none"
  /\ Go(r, "settled")
  /\ UNCHANGED <<recurring, fired, owner, age, kernel, snap, editor, lost>>

\* _release_task: whichever runner of the kernel made the claim.
Release(r) ==
  /\ pc[r] = "settled"
  /\ Disown(Of(r))
  /\ lost' = (lost \cup {h \in Holders : owner = Of(r) /\ Of(h) = owner}) \ {r}
  /\ Finish(r)
  /\ UNCHANGED <<recurring, status, next, fired, kernel, editor>>

-----------------------------------------------------------------------------
(* pause_task, resume_task, delete_task                                    *)

EditReads ==
  /\ editor = "no"
  /\ editor' = IF status = "active" THEN "pausing" ELSE "resuming"
  /\ status \in {"active", "paused"}
  /\ UNCHANGED <<recurring, row, kernel, pc, snap, lost>>

PauseWrites ==
  /\ editor = "pausing"
  /\ status' = "paused" /\ next' = "none"
  /\ editor' = "no"
  /\ UNCHANGED <<recurring, fired, owner, age, kernel, pc, snap, lost>>

\* compute_next_fire of a one-shot schedule is its time, past or not.
ResumeWrites ==
  /\ editor = "resuming"
  /\ status' = "active"
  /\ next' \in IF recurring THEN {"future"} ELSE {"past", "future"}
  /\ editor' = "no"
  /\ UNCHANGED <<recurring, fired, owner, age, kernel, pc, snap, lost>>

Delete ==
  /\ status # "deleted"
  /\ status' = "deleted"
  /\ UNCHANGED <<recurring, next, fired, owner, age, kernel, pc, snap,
                 editor, lost>>

-----------------------------------------------------------------------------
Step(r) ==
  \/ Look(r) \/ NotDue(r) \/ SkipMissed(r) \/ Claim(r)
  \/ BeginTurn(r) \/ EndTurn(r)
  \/ CountFire(r) \/ Settle(r) \/ RecordFailure(r) \/ Release(r)

Next ==
  \/ \E k \in Kernels : Start(k) \/ Crash(k) \/ Stop(k)
  \/ \E r \in Runners : Step(r) \/ Expire(r)
  \/ Occurs \/ Tick
  \/ EditReads \/ PauseWrites \/ ResumeWrites \/ Delete

Spec == Init /\ [][Next]_vars

\* Kernels that are to be started are; the loop wakes at least every
\* MAX_SLEEP_S; a turn ends, by its timeout at the latest; time passes.
FairSpec ==
  /\ Spec
  /\ \A k \in Kernels : WF_vars(Start(k))
  /\ \A r \in Runners : WF_vars(Step(r))
  /\ WF_vars(Tick)

-----------------------------------------------------------------------------
(* Properties                                                              *)

\* The domains of the variables.
TypeOK ==
  /\ recurring \in BOOLEAN
  /\ status \in Statuses
  /\ next \in {"none", "past", "future"}
  /\ fired \in BOOLEAN
  /\ owner \in Kernels \cup {Nobody}
  /\ age \in 0..(StaleAfter + 1)
  /\ kernel \in [Kernels -> {"unborn", "up", "gone"}]
  /\ pc \in [Runners -> Places]
  /\ snap \in [Runners -> Snaps]
  /\ editor \in {"no", "pausing", "resuming"}
  /\ lost \subseteq Runners

\* No two runners, of one kernel or of two, fire the task at once, unless
\* the claim of one of them was cleared while it ran.
OneRunner ==
  \A r, s \in Holders \ lost : r = s

\* A kernel that is up holds a claim only as long as one of its runners is
\* at work for it: no path through a failed execution forgets the release.
NoLeakedClaim ==
  \A k \in Kernels :
    owner = k /\ kernel[k] = "up" => \E r \in Holders : Of(r) = k

\* A task that is due is fired, moved on or stopped, whichever kernels died
\* holding it and however long it was held.
DueIsServed == status = "active" /\ next = "past"
                 ~> status # "active" \/ next # "past"

=============================================================================
