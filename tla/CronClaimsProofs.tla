--------------------------- MODULE CronClaimsProofs ---------------------------
(***************************************************************************)
(* What holds of the claims of a cron task for any number of kernels,      *)
(* whatever the staleness threshold: claims exclude one another as long as *)
(* nobody clears them, and no kernel that is up forgets one.               *)
(***************************************************************************)
EXTENDS CronClaims, TLAPS

\* A runner whose claim was not cleared under it still is in the row.
ClaimStands == \A r \in Holders \ lost : owner = Of(r)

\* Runners that lost a claim still hold the task they lost it for.
LostHold == lost \subseteq Holders

\* A kernel that is not up runs nothing, and only a kernel that was started
\* has its name in the row.
OffWhenDown == \A r \in Runners : kernel[Of(r)] # "up" => pc[r] = "off"
OwnerBorn   == \A k \in Kernels : owner = k => kernel[k] # "unborn"

IInv == /\ TypeOK /\ OffWhenDown /\ OwnerBorn
        /\ LostHold /\ ClaimStands /\ OneRunner /\ NoLeakedClaim

(***************************************************************************)
(* What a step does to the claim.  Every step of the specification is one  *)
(* of these.                                                               *)
(***************************************************************************)
StaysOff == \A r \in Runners : pc[r] = "off" => pc'[r] = "off"

Still ==
  /\ StaysOff /\ Holders' = Holders
  /\ UNCHANGED <<owner, lost, kernel>>

Cleared ==
  /\ StaysOff /\ Holders' = Holders
  /\ owner' = Nobody
  /\ lost' = lost \cup {h \in Holders : Of(h) = owner}
  /\ UNCHANGED kernel

Claimed(r) ==
  /\ StaysOff /\ pc[r] = "listed" /\ Holders' = Holders \cup {r}
  /\ owner = Nobody /\ owner' = Of(r)
  /\ UNCHANGED <<lost, kernel>>

Released(r) ==
  /\ StaysOff /\ Holders' = Holders \ {r}
  /\ owner' = IF owner = Of(r) THEN Nobody ELSE owner
  /\ lost' = (lost \cup {h \in Holders : owner = Of(r) /\ Of(h) = owner}) \ {r}
  /\ UNCHANGED kernel

Left(k) ==
  /\ Holders' = {h \in Holders : Of(h) # k}
  /\ owner' \in {owner, IF owner = k THEN Nobody ELSE owner}
  /\ lost' = {h \in lost : Of(h) # k}
  /\ kernel' = [kernel EXCEPT ![k] = "gone"]
  /\ \A r \in Runners : pc'[r] = IF Of(r) = k THEN "off" ELSE pc[r]

Started(k) ==
  /\ kernel[k] = "unborn" /\ kernel' = [kernel EXCEPT ![k] = "up"]
  /\ Holders' = {h \in Holders : Of(h) # k}
  /\ UNCHANGED <<owner, lost>>
  /\ \A r \in Runners : Of(r) # k => pc'[r] = pc[r]

ClaimStep ==
  \/ Still \/ Cleared
  \/ \E r \in Runners : Claimed(r) \/ Released(r)
  \/ \E k \in Kernels : Left(k) \/ Started(k)

\* The empty snapshot, and the snapshot List takes.
LEMMA SnapsTyped ==
  /\ NoSnap \in Snaps
  /\ \A d, f \in BOOLEAN : [due |-> d, fired |-> f] \in Snaps
  BY DEF NoSnap, Snaps

\* The initial state has the domains of the variables.
LEMMA InitTypeOK == Init => TypeOK
<1> SUFFICES ASSUME Init PROVE TypeOK
  OBVIOUS
<1>1. pc \in [Runners -> Places] /\ kernel \in [Kernels -> {"unborn", "up", "gone"}]
  BY DEF Init, Places
<1>2. snap \in [Runners -> Snaps]
  BY SnapsTyped DEF Init
<1>3. age \in 0..(StaleAfter + 1)
  BY CronAssumption DEF Init
<1>4. fired \in BOOLEAN /\ recurring \in BOOLEAN
  BY DEF Init
<1> QED
  BY <1>1, <1>2, <1>3, <1>4 DEF Init, TypeOK, Statuses

\* A runner that finishes its round stays in the domains.
LEMMA FinishTyped ==
  ASSUME TypeOK, NEW r \in Runners, Finish(r)
  PROVE  pc' \in [Runners -> Places] /\ snap' \in [Runners -> Snaps]
  BY SnapsTyped DEF TypeOK, Finish, GoWithout, Go, Rest, Places

\* Every step keeps the domains of the variables.
LEMMA NextTypeOK == TypeOK /\ [Next]_vars => TypeOK'
<1> SUFFICES ASSUME TypeOK, [Next]_vars PROVE TypeOK'
  OBVIOUS
<1> USE CronAssumption DEF TypeOK
<1>1. ASSUME NEW k \in Kernels, Start(k) PROVE TypeOK'
  BY <1>1 DEF Start, row, Places
<1>2. ASSUME NEW k \in Kernels, Leave(k)
      PROVE /\ kernel' \in [Kernels -> {"unborn", "up", "gone"}]
            /\ pc' \in [Runners -> Places]
            /\ snap' \in [Runners -> Snaps]
            /\ lost' \subseteq Runners
  BY <1>2, SnapsTyped DEF Leave, Places
<1>3. ASSUME NEW k \in Kernels, Crash(k) PROVE TypeOK'
  BY <1>2, <1>3 DEF Crash, row
<1>4. ASSUME NEW k \in Kernels, Stop(k) PROVE TypeOK'
  BY <1>2, <1>4 DEF Stop, Disown
<1>5. ASSUME NEW r \in Runners, Step(r) \/ Expire(r) PROVE TypeOK'
  <2> USE DEF Places, Holding, Holders
  <2>0. Of(r) \in Kernels
    BY DEF Runners, Of
  <2>1. CASE Look(r)
    <3>1. CASE Finish(r)
      BY <2>1, <3>1, FinishTyped DEF Look, Disown
    <3>2. CASE status = "active"
      <4>1. (next = "past" /\ owner' = Nobody) \in BOOLEAN
            /\ (recurring /\ fired) \in BOOLEAN
        OBVIOUS
      <4>2. snap' \in [Runners -> Snaps]
        BY <2>1, <3>2, <4>1, SnapsTyped DEF Look, List
      <4>3. pc' \in [Runners -> Places]
        BY <2>1, <3>2 DEF Look, List, Go
      <4> QED
        BY <2>1, <4>2, <4>3 DEF Look, Disown
    <3> QED
      BY <2>1, <3>1, <3>2 DEF Look, List
  <2>2. CASE NotDue(r)
    BY <2>2, FinishTyped DEF NotDue, row
  <2>3. CASE SkipMissed(r)
    BY <2>3, FinishTyped DEF SkipMissed, Statuses
  <2>4. CASE Claim(r)
    <3>1. CASE Finish(r) /\ UNCHANGED <<owner, age>>
      BY <2>4, <3>1, FinishTyped DEF Claim
    <3>2. CASE GoWithout(r, "queued") /\ owner' = Of(r) /\ age' = 0
      BY <2>0, <2>4, <3>2, SnapsTyped DEF Claim, GoWithout, Go
    <3> QED
      BY <2>4, <3>1, <3>2 DEF Claim
  <2>5. CASE BeginTurn(r) \/ EndTurn(r)
    BY <2>5 DEF BeginTurn, EndTurn, Go, row
  <2>6. CASE CountFire(r)
    BY <2>6 DEF CountFire, Go
  <2>7. CASE Settle(r)
    BY <2>7 DEF Settle, Go, Statuses
  <2>8. CASE RecordFailure(r)
    BY <2>8 DEF RecordFailure, AfterFailure, Go, Statuses
  <2>9. CASE Release(r)
    BY <2>9, FinishTyped DEF Release, Disown
  <2>10. CASE Expire(r)
    <3>1. pc' \in [Runners -> Places] /\ snap' \in [Runners -> Snaps]
      BY <2>10, FinishTyped, SnapsTyped DEF Expire
    <3> QED
      BY <2>10, <3>1 DEF Expire, Statuses
  <2> QED
    BY <1>5, <2>1, <2>2, <2>3, <2>4, <2>5, <2>6, <2>7, <2>8, <2>9, <2>10 DEF Step
<1>6. CASE Tick
  BY <1>6 DEF Tick, Capped
<1>7. CASE Occurs \/ EditReads \/ PauseWrites \/ ResumeWrites \/ Delete
  BY <1>7 DEF Occurs, EditReads, PauseWrites, ResumeWrites, Delete, Statuses, row
<1>8. CASE UNCHANGED vars
  BY <1>8 DEF vars, row
<1> QED
  BY <1>1, <1>3, <1>4, <1>5, <1>6, <1>7, <1>8 DEF Next

\* The variables stay in their domains.
THEOREM ClaimsTyped == Spec => []TypeOK
<1>1. Init => TypeOK
  BY InitTypeOK
<1>2. TypeOK /\ [Next]_vars => TypeOK'
  BY NextTypeOK
<1> QED
  BY <1>1, <1>2, PTL DEF Spec

-----------------------------------------------------------------------------
(* The inductive invariant                                                 *)

\* A runner belongs to a kernel, which is not Nobody.
LEMMA RunnersOfKernels == \A r \in Runners : Of(r) \in Kernels /\ Of(r) # Nobody
  BY CronAssumption DEF Runners, Of

\* A runner that goes from one place to another is a holder by where it is.
LEMMA GoHolders ==
  ASSUME TypeOK, NEW r \in Runners, NEW place \in Places,
         pc[r] # "off", Go(r, place)
  PROVE  /\ StaysOff
         /\ Holders' = IF place \in Holding THEN Holders \cup {r}
                       ELSE Holders \ {r}
<1>1. pc' = [pc EXCEPT ![r] = place] /\ pc \in [Runners -> Places]
  BY DEF Go, TypeOK
<1>2. pc'[r] = place /\ \A s \in Runners \ {r} : pc'[s] = pc[s]
  BY <1>1
<1>3. Holders' = {s \in Runners : pc'[s] \in Holding}
  BY DEF Holders
<1> QED
  BY <1>2, <1>3 DEF StaysOff, Holders

\* Every step does one of the things of ClaimStep.
LEMMA NextClaims == TypeOK /\ [Next]_vars => ClaimStep
<1> SUFFICES ASSUME TypeOK, [Next]_vars PROVE ClaimStep
  OBVIOUS
<1>1. ASSUME NEW k \in Kernels, Start(k) PROVE Started(k)
  <2>1. \A r \in Runners : pc'[r] = IF Of(r) = k THEN "asleep" ELSE pc[r]
    BY <1>1 DEF Start
  <2> QED
    BY <1>1, <2>1 DEF Start, Started, Holders, Holding, row
<1>2. ASSUME NEW k \in Kernels, Crash(k) \/ Stop(k) PROVE Left(k)
  <2>1. \A r \in Runners : pc'[r] = IF Of(r) = k THEN "off" ELSE pc[r]
    BY <1>2 DEF Crash, Stop, Leave
  <2>2. Holders' = {h \in Holders : Of(h) # k}
    BY <2>1 DEF Holders, Holding
  <2>3. lost' = {h \in lost : Of(h) # k} /\ kernel' = [kernel EXCEPT ![k] = "gone"]
    BY <1>2 DEF Crash, Stop, Leave
  <2>4. owner' \in {owner, IF owner = k THEN Nobody ELSE owner}
    BY <1>2 DEF Crash, Stop, Disown, row
  <2> QED
    BY <2>1, <2>2, <2>3, <2>4 DEF Left
<1>3. ASSUME NEW r \in Runners, Step(r) \/ Expire(r) PROVE ClaimStep
  <2>1. {"asleep", "off", "listed"} \cup Holding \subseteq Places
        /\ {"asleep", "off", "listed"} \cap Holding = {}
        /\ Rest(r) \in {"asleep", "off"}
    BY DEF Places, Holding, Rest
  <2>2. CASE Look(r)
    <3>1. Holders' = Holders /\ StaysOff
      <4>1. PICK place \in {"asleep", "off", "listed"} : Go(r, place)
        BY <2>1, <2>2 DEF Look, List, Finish, GoWithout
      <4>2. pc[r] = "asleep" /\ r \notin Holders
        BY <2>2 DEF Look, Holders, Holding
      <4> QED
        BY <2>1, <4>1, <4>2, GoHolders
    <3>2. CASE owner # Nobody /\ age > StaleAfter
      BY <2>2, <3>1, <3>2 DEF Look, Disown, Cleared, ClaimStep
    <3>3. CASE ~(owner # Nobody /\ age > StaleAfter)
      BY <2>2, <3>1, <3>3 DEF Look, Still, ClaimStep
    <3> QED
      BY <3>2, <3>3
  <2>3. CASE NotDue(r) \/ SkipMissed(r) \/ Expire(r)
    <3>1. CASE pc' = pc
      BY <2>3, <3>1
      DEF NotDue, SkipMissed, Expire, Still, ClaimStep, StaysOff, Holders, row
    <3>2. CASE Finish(r)
      <4>1. pc[r] = "listed" /\ r \notin Holders
        BY <2>3 DEF NotDue, SkipMissed, Expire, Holders, Holding
      <4>2. Holders' = Holders /\ StaysOff
        BY <2>1, <3>2, <4>1, GoHolders DEF Finish, GoWithout
      <4> QED
        BY <2>3, <4>2 DEF NotDue, SkipMissed, Expire, Still, ClaimStep, row
    <3> QED
      BY <2>3, <3>1, <3>2 DEF NotDue, SkipMissed, Expire
  <2>4. CASE Claim(r)
    <3>1. pc[r] = "listed" /\ r \notin Holders
      BY <2>4 DEF Claim, Holders, Holding
    <3>2. CASE owner = Nobody /\ status = "active"
      <4>1. Holders' = Holders \cup {r} /\ StaysOff
        BY <2>1, <2>4, <3>1, <3>2, GoHolders DEF Claim, GoWithout, Holding
      <4> QED
        BY <2>4, <3>1, <3>2, <4>1 DEF Claim, Claimed, ClaimStep
    <3>3. CASE ~(owner = Nobody /\ status = "active")
      <4>1. Holders' = Holders /\ StaysOff
        BY <2>1, <2>4, <3>1, <3>3, GoHolders DEF Claim, Finish, GoWithout
      <4> QED
        BY <2>4, <3>3, <4>1 DEF Claim, Still, ClaimStep
    <3> QED
      BY <3>2, <3>3
  <2>5. CASE BeginTurn(r) \/ EndTurn(r) \/ CountFire(r) \/ Settle(r)
             \/ RecordFailure(r)
    <3>1. pc[r] \in Holding /\ r \in Holders /\ pc[r] # "off"
      BY <2>5
      DEF BeginTurn, EndTurn, CountFire, Settle, RecordFailure, Holders, Holding
    <3>2. PICK place \in Holding : Go(r, place)
      BY <2>5 DEF BeginTurn, EndTurn, CountFire, Settle, RecordFailure, Holding
    <3>3. Holders' = Holders /\ StaysOff
      BY <2>1, <3>1, <3>2, GoHolders
    <3>4. UNCHANGED <<owner, lost, kernel>>
      BY <2>5 DEF BeginTurn, EndTurn, CountFire, Settle, RecordFailure, row
    <3> QED
      BY <3>3, <3>4 DEF Still, ClaimStep
  <2>6. CASE Release(r)
    <3>1. Holders' = Holders \ {r} /\ StaysOff
      BY <2>1, <2>6, GoHolders DEF Release, Finish, GoWithout
    <3> QED
      BY <2>6, <3>1 DEF Release, Disown, Released, ClaimStep
  <2> QED
    BY <1>3, <2>2, <2>3, <2>4, <2>5, <2>6 DEF Step
<1>4. CASE Occurs \/ Tick \/ EditReads \/ PauseWrites \/ ResumeWrites \/ Delete
           \/ UNCHANGED vars
  BY <1>4
  DEF Occurs, Tick, EditReads, PauseWrites, ResumeWrites, Delete, vars, row,
      Still, StaysOff, Holders, ClaimStep
<1> QED
  BY <1>1, <1>2, <1>3, <1>4 DEF Next, ClaimStep

\* Nothing is claimed at first.
LEMMA InitIInv == Init => IInv
<1> SUFFICES ASSUME Init PROVE IInv
  OBVIOUS
<1>1. Holders = {} /\ lost = {} /\ owner = Nobody
  BY DEF Init, Holders, Holding
<1>2. OffWhenDown
  BY DEF Init, OffWhenDown
<1> QED
  BY <1>1, <1>2, InitTypeOK, CronAssumption
  DEF IInv, OwnerBorn, LostHold, ClaimStands, OneRunner, NoLeakedClaim

\* What a step does to the claim keeps the invariant: a claim is made only
\* where there is none, so whoever holds the task then has lost its own.
LEMMA ClaimStepIInv == IInv /\ TypeOK' /\ ClaimStep => IInv'
<1> SUFFICES ASSUME IInv, TypeOK', ClaimStep PROVE IInv'
  OBVIOUS
<1>0. /\ \A r \in Runners : Of(r) \in Kernels /\ Of(r) # Nobody
      /\ Holders \subseteq Runners
      /\ \A r \in Holders : pc[r] \in Holding /\ pc[r] # "off"
      /\ kernel \in [Kernels -> {"unborn", "up", "gone"}]
  BY RunnersOfKernels DEF IInv, TypeOK, Holders, Holding
<1> USE DEF IInv
<1>1. CASE Still
  BY <1>1
  DEF Still, StaysOff, OffWhenDown, OwnerBorn, LostHold, ClaimStands, OneRunner,
      NoLeakedClaim
<1>2. CASE Cleared
  <2>1. Holders' \ lost' = {}
    BY <1>2 DEF Cleared, ClaimStands
  <2> QED
    BY <1>2, <2>1, CronAssumption
    DEF Cleared, StaysOff, OffWhenDown, OwnerBorn, LostHold, ClaimStands,
        OneRunner, NoLeakedClaim
<1>3. ASSUME NEW r \in Runners, Claimed(r) PROVE IInv'
  <2>1. Holders \subseteq lost
    BY <1>0, <1>3 DEF Claimed, ClaimStands
  <2>2. Holders' \ lost' \subseteq {r}
    BY <1>3, <2>1 DEF Claimed
  <2>3. kernel[Of(r)] = "up"
    BY <1>3 DEF Claimed, OffWhenDown
  <2> QED
    BY <1>0, <1>3, <2>2, <2>3
    DEF Claimed, StaysOff, OffWhenDown, OwnerBorn, LostHold, ClaimStands,
        OneRunner, NoLeakedClaim
<1>4. ASSUME NEW r \in Runners, Released(r) PROVE IInv'
  <2>1. OffWhenDown' /\ OwnerBorn' /\ LostHold'
    BY <1>4, CronAssumption
    DEF Released, StaysOff, OffWhenDown, OwnerBorn, LostHold
  <2>2. Holders' \ lost' \subseteq Holders \ lost
    BY <1>4 DEF Released
  <2>3. OneRunner'
    BY <2>2 DEF OneRunner
  <2>4. ClaimStands'
    BY <1>4, <2>2 DEF Released, ClaimStands
  <2>5. NoLeakedClaim'
    BY <1>4, CronAssumption DEF Released, NoLeakedClaim
  <2> QED
    BY <2>1, <2>3, <2>4, <2>5
<1>5. ASSUME NEW k \in Kernels, Left(k) PROVE IInv'
  <2>1. Holders' \ lost' \subseteq {h \in Holders \ lost : Of(h) # k}
    BY <1>5 DEF Left
  <2>2. OffWhenDown'
    BY <1>0, <1>5 DEF Left, OffWhenDown
  <2>3. OwnerBorn' /\ LostHold'
    BY <1>0, <1>5, CronAssumption DEF Left, OwnerBorn, LostHold
  <2>4. ClaimStands' /\ OneRunner'
    BY <1>5, <2>1 DEF Left, ClaimStands, OneRunner
  <2>5. NoLeakedClaim'
    BY <1>0, <1>5, CronAssumption DEF Left, NoLeakedClaim
  <2> QED
    BY <2>2, <2>3, <2>4, <2>5
<1>6. ASSUME NEW k \in Kernels, Started(k) PROVE IInv'
  <2>1. owner # k /\ \A h \in Holders : Of(h) # k
    BY <1>0, <1>6 DEF Started, OwnerBorn, OffWhenDown
  <2>2. Holders' = Holders
    BY <1>6, <2>1 DEF Started
  <2>3. OffWhenDown' /\ OwnerBorn'
    BY <1>0, <1>6 DEF Started, OffWhenDown, OwnerBorn
  <2>4. NoLeakedClaim'
    BY <1>0, <1>6, <2>1, <2>2 DEF Started, NoLeakedClaim
  <2> QED
    BY <1>6, <2>2, <2>3, <2>4 DEF Started, LostHold, ClaimStands, OneRunner
<1> QED
  BY <1>1, <1>2, <1>3, <1>4, <1>5, <1>6 DEF ClaimStep

\* The invariant holds throughout.
LEMMA ClaimsInvariant == Spec => []IInv
<1>1. IInv /\ [Next]_vars => IInv'
  BY NextTypeOK, NextClaims, ClaimStepIInv DEF IInv
<1> QED
  BY <1>1, InitIInv, PTL DEF Spec

-----------------------------------------------------------------------------
(* The theorems                                                            *)

\* Two runners fire the task at once only if the claim of one was cleared:
\* the compare-and-swap of _claim_tasks excludes every other pair.
THEOREM ClaimsExclude == Spec => []OneRunner
<1>1. IInv => OneRunner
  BY DEF IInv
<1> QED
  BY <1>1, ClaimsInvariant, PTL

\* A kernel that is up forgets no claim, through failures of the execution,
\* claims cleared under it and shutdowns of others: the finally of
\* _fire_task is on every path.
THEOREM ClaimsAreReleased == Spec => []NoLeakedClaim
<1>1. IInv => NoLeakedClaim
  BY DEF IInv
<1> QED
  BY <1>1, ClaimsInvariant, PTL
===============================================================================
