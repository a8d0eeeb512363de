---------------------------- MODULE ToolCallsProofs ----------------------------
(***************************************************************************)
(* What holds of the tool calls of a session for any requests, any number  *)
(* of permits and any number of answers: the semaphore and the lock are    *)
(* never lost, no tool begins against the plan mode or a deny rule, calls  *)
(* that are not safe run alone, and the history tells of every call, and   *)
(* of what ran to its end what it did.                                     *)
(***************************************************************************)
EXTENDS ToolCalls, FiniteSetTheorems, SequenceTheorems, TLAPS

-----------------------------------------------------------------------------
(* Sequences and sets                                                      *)

\* A sequence that is continued with one value over and over.
LEMMA Continued ==
  ASSUME NEW S, NEW x \in S, NEW n \in Nat, NEW m \in Nat, NEW s \in [1..m -> S]
  PROVE  LET t == s \o [i \in 1..n |-> x]
         IN  /\ t \in [1..(m + n) -> S]
             /\ \A i \in 1..m : t[i] = s[i]
             /\ \A i \in (m + 1)..(m + n) : t[i] = x
<1> DEFINE e == [i \in 1..n |-> x]
           t == s \o e
<1>1. s \in Seq(S) /\ e \in Seq(S)
  BY SeqDef
<1>2. Len(s) = m /\ Len(e) = n
  <2>1. Len(s) \in Nat /\ DOMAIN s = 1..Len(s) /\ Len(e) \in Nat /\ DOMAIN e = 1..Len(e)
    BY <1>1, LenProperties
  <2>2. DOMAIN s = 1..m /\ DOMAIN e = 1..n
    OBVIOUS
  <2>3. \A a, b \in Nat : 1..a = 1..b => a = b
    <3>1. \A a, b \in Nat : 1..a = 1..b => a <= b /\ b <= a
      <4> TAKE a, b \in Nat
      <4> HAVE 1..a = 1..b
      <4>1. a = 0 \/ a \in 1..b
        OBVIOUS
      <4>2. b = 0 \/ b \in 1..a
        OBVIOUS
      <4> QED BY <4>1, <4>2
    <3> QED BY <3>1
  <2> QED BY <2>1, <2>2, <2>3
<1>3. /\ t \in Seq(S) /\ Len(t) = m + n
      /\ \A i \in 1..(m + n) : t[i] = IF i <= m THEN s[i] ELSE e[i - m]
  <2> HIDE DEF e
  <2> QED BY <1>1, <1>2, ConcatProperties
<1> HIDE DEF t
<1>4. t \in [1..(m + n) -> S]
  BY <1>3, LenProperties
<1>5. \A i \in 1..m : t[i] = s[i]
  BY <1>3
<1>6. \A i \in (m + 1)..(m + n) : t[i] = x
  BY <1>3
<1> QED BY <1>4, <1>5, <1>6 DEF t

\* One of the places that were added.
LEMMA ContinuedAt ==
  ASSUME NEW S, NEW x \in S, NEW n \in Nat, NEW m \in Nat, NEW s \in [1..m -> S],
         NEW i \in (m + 1)..(m + n)
  PROVE  (s \o [j \in 1..n |-> x])[i] = x
<1> DEFINE t == s \o [j \in 1..n |-> x]
<1>1. \A j \in (m + 1)..(m + n) : t[j] = x
  BY Continued
<1> QED BY <1>1

\* One of the places there were.
LEMMA ContinuedBefore ==
  ASSUME NEW S, NEW x \in S, NEW n \in Nat, NEW m \in Nat, NEW s \in [1..m -> S],
         NEW i \in 1..m
  PROVE  (s \o [j \in 1..n |-> x])[i] = s[i]
<1> DEFINE t == s \o [j \in 1..n |-> x]
<1>1. \A j \in 1..m : t[j] = s[j]
  BY Continued
<1> QED BY <1>1

\* The requests of an answer after those of the answers before.
LEMMA Followed ==
  ASSUME NEW S, NEW s \in Seq(S), NEW n \in Nat, NEW r \in [1..n -> S]
  PROVE  /\ s \o r \in Seq(S)
         /\ Len(s \o r) = Len(s) + n
         /\ \A i \in 1..Len(s) : (s \o r)[i] = s[i]
<1>1. r \in Seq(S)
  BY SeqDef
<1>2. Len(r) = n
  <2>1. Len(r) \in Nat /\ DOMAIN r = 1..Len(r) /\ DOMAIN r = 1..n
    BY <1>1, LenProperties
  <2>2. n \in 1..Len(r) \/ n = 0
    BY <2>1
  <2>3. Len(r) \in 1..n \/ Len(r) = 0
    BY <2>1
  <2> QED BY <2>1, <2>2, <2>3
<1>3. /\ s \o r \in Seq(S) /\ Len(s \o r) = Len(s) + Len(r)
      /\ \A i \in 1..(Len(s) + Len(r)) :
           (s \o r)[i] = IF i <= Len(s) THEN s[i] ELSE r[i - Len(s)]
  BY <1>1, ConcatProperties
<1>4. Len(s) \in Nat
  BY LenProperties
<1>5. \A i \in 1..Len(s) : (s \o r)[i] = s[i]
  <2> TAKE i \in 1..Len(s)
  <2>1. i \in 1..(Len(s) + Len(r)) /\ i <= Len(s)
    BY <1>2, <1>4
  <2> QED BY <1>3, <2>1
<1> QED BY <1>2, <1>3, <1>5

-----------------------------------------------------------------------------
(* The semaphore and the lock                                              *)

\* Where a task may move to, and what it needs for that.
Moves(i, s) ==
  \/ s \in {"put", "lost"}
  \/ s \in {"asking", "cleared"} /\ (i \in InHand /\ ~Holds(i) => slots > 0)
  \/ s = "running" /\ Holds(i)

Books == TypeOK /\ Accounted

\* The calls are numbered from 1 on, and those in hand are finitely many.
LEMMA CallsNumbered ==
  ASSUME TypeOK
  PROVE  /\ Len(calls) \in Nat /\ DOMAIN calls = 1..Len(calls)
         /\ first \in Nat /\ InHand \subseteq DOMAIN calls
         /\ \A P \in SUBSET InHand : IsFiniteSet(P) /\ Cardinality(P) \in Nat
<1>1. Len(calls) \in Nat /\ DOMAIN calls = 1..Len(calls)
  BY LenProperties DEF TypeOK
<1>2. first \in Nat /\ first >= 1
  BY <1>1 DEF TypeOK
<1>3. InHand \subseteq DOMAIN calls
  BY <1>1, <1>2 DEF InHand
<1>4. IsFiniteSet(InHand)
  BY <1>1, <1>2, FS_Interval DEF InHand
<1> QED BY <1>1, <1>2, <1>3, <1>4, FS_Subset, FS_CardinalityType

\* A task that moves keeps the books of the semaphore and the lock.
LEMMA BecomesKeeps ==
  ASSUME Books, NEW i \in DOMAIN calls, NEW s \in Steps,
         Moves(i, s), Becomes(i, s), UNCHANGED <<calls, first>>
  PROVE  /\ step' \in [DOMAIN calls -> Steps]
         /\ slots' \in 0..MaxConcurrency /\ lock' \in 0..Len(calls)
         /\ Accounted'
<1> DEFINE Held  == {j \in InHand : Holds(j)}
           HeldP == {j \in InHand : step'[j] \in {"asking", "asked", "cleared", "running"}}
<1>1. /\ Len(calls) \in Nat /\ DOMAIN calls = 1..Len(calls)
      /\ InHand \subseteq DOMAIN calls
  BY CallsNumbered DEF Books
<1>2. step \in [DOMAIN calls -> Steps] /\ slots \in 0..MaxConcurrency /\ lock \in 0..Len(calls)
  BY DEF Books, TypeOK
<1>3. step' = [step EXCEPT ![i] = s]
  BY DEF Becomes
<1>4. step' \in [DOMAIN calls -> Steps] /\ lock' \in 0..Len(calls)
  BY <1>1, <1>2, <1>3 DEF Becomes
<1>5. InHand' = InHand
  BY DEF InHand
<1>6. IsFiniteSet(Held) /\ Cardinality(Held) \in Nat
  BY CallsNumbered DEF Books
<1>7. slots + Cardinality(Held) = MaxConcurrency /\ MaxConcurrency \in Nat
  BY CallsAssumption DEF Books, Accounted
<1>8. IsFiniteSet(HeldP) /\ Cardinality(HeldP) \in Nat
  BY CallsNumbered DEF Books
<1>9. slots' \in Nat /\ slots' + Cardinality(HeldP) = MaxConcurrency
  <2>1. CASE i \notin InHand
    <3>1. HeldP = Held
      BY <2>1, <1>1, <1>2, <1>3 DEF Holds
    <3>2. slots' = slots
      BY <2>1 DEF Becomes
    <3> HIDE DEF Held, HeldP
    <3> QED BY <3>1, <3>2, <1>2, <1>7
  <2>2. CASE i \in InHand /\ Holds(i) /\ s \in {"put", "lost"}
    <3>1. HeldP = Held \ {i} /\ i \in Held
      BY <2>2, <1>1, <1>2, <1>3 DEF Holds
    <3>2. slots' = slots + 1
      BY <2>2, <1>2 DEF Becomes, Holds
    <3>3. Cardinality(HeldP) = Cardinality(Held) - 1
      BY <3>1, <1>6, FS_RemoveElement
    <3> HIDE DEF Held, HeldP
    <3> QED BY <3>2, <3>3, <1>2, <1>6, <1>7
  <2>3. CASE i \in InHand /\ ~Holds(i) /\ s \in {"asking", "cleared"}
    <3>1. HeldP = Held \cup {i} /\ i \notin Held
      BY <2>3, <1>1, <1>2, <1>3 DEF Holds
    <3>2. slots' = slots - 1 /\ slots > 0
      BY <2>3, <1>2 DEF Becomes, Holds, Moves
    <3>3. Cardinality(HeldP) = Cardinality(Held) + 1
      BY <3>1, <1>6, FS_AddElement
    <3> HIDE DEF Held, HeldP
    <3> QED BY <3>2, <3>3, <1>2, <1>6, <1>7
  <2>4. CASE /\ i \in InHand
             /\ ~(Holds(i) /\ s \in {"put", "lost"})
             /\ ~(~Holds(i) /\ s \in {"asking", "cleared"})
    <3>1. HeldP = Held
      BY <2>4, <1>1, <1>2, <1>3 DEF Holds, Moves
    <3>2. slots' = slots
      BY <2>4, <1>2 DEF Becomes
    <3> HIDE DEF Held, HeldP
    <3> QED BY <3>1, <3>2, <1>2, <1>7
  <2> QED BY <2>1, <2>2, <2>3, <2>4
<1>10. \A j \in InHand : lock' = j <=> step'[j] = "asked"
  <2> SUFFICES ASSUME NEW j \in InHand PROVE lock' = j <=> step'[j] = "asked"
    OBVIOUS
  <2>1. lock = j <=> step[j] = "asked"
    BY DEF Books, Accounted
  <2>2. s # "asked"
    BY DEF Moves
  <2>3. j \in Nat \ {0}
    BY <1>1
  <2> QED BY <2>1, <2>2, <2>3, <1>1, <1>2, <1>3 DEF Becomes
<1>11. Accounted'
  <2>1. {j \in InHand : Holds(j)}' = HeldP
    BY <1>5 DEF Holds
  <2> HIDE DEF HeldP
  <2> QED BY <2>1, <1>5, <1>9, <1>10 DEF Accounted
<1>12. slots' \in 0..MaxConcurrency
  <2> HIDE DEF HeldP
  <2> QED BY <1>7, <1>8, <1>9
<1> QED BY <1>4, <1>11, <1>12

\* A departure stays within its bounds.
LEMMA DepartsTyped ==
  ASSUME TypeOK, NEW ds, IsFiniteSet(ds), Departs(ds)
  PROVE  departs' \subseteq Departures /\ spent' \in 0..MaxDepartures
<1>1. Cardinality(ds) \in Nat
  BY FS_CardinalityType
<1> QED BY <1>1, CallsAssumption DEF Departs, TypeOK

\* The departures the actions take are finite sets.
LEMMA DeparturesFinite ==
  /\ \A d : IsFiniteSet({d})
  /\ \A c, d : IsFiniteSet(When(c, d))
  /\ IsFiniteSet(Switches)
<1>1. \A d : IsFiniteSet({d})
  BY FS_Singleton
<1>2. IsFiniteSet({})
  BY FS_EmptySet
<1> QED BY <1>1, <1>2 DEF When, Switches

\* The books are in order at first.
LEMMA InitBooks == Init => Books
<1> SUFFICES ASSUME Init PROVE Books
  OBVIOUS
<1>1. calls \in Seq(Requests) /\ Len(calls) = 0
  BY EmptySeq DEF Init
<1>2. DOMAIN calls = {}
  BY <1>1, LenProperties
<1>3. InHand = {}
  BY <1>1 DEF Init, InHand
<1>4. \A S : <<>> \in [{} -> S]
  OBVIOUS
<1>5. TypeOK
  BY <1>1, <1>2, <1>3, <1>4, CallsAssumption DEF Init, TypeOK, Modes
<1>6. Cardinality({i \in InHand : Holds(i)}) = 0
  <2>1. {i \in InHand : Holds(i)} = {}
    BY <1>3
  <2> QED BY <2>1, FS_EmptySet
<1>7. Accounted
  BY <1>3, <1>6, CallsAssumption DEF Accounted, Init
<1> QED BY <1>5, <1>7 DEF Books

\* A new answer has books of its own.
LEMMA AnswerBooks ==
  ASSUME Books, NEW n \in Nat, NEW requests \in [1..n -> Requests], Answer(requests)
  PROVE  Books'
<1> DEFINE m == Len(calls)
<1>1. m \in Nat /\ DOMAIN calls = 1..m /\ calls \in Seq(Requests)
  BY CallsNumbered DEF Books, TypeOK
<1>2. calls' \in Seq(Requests) /\ Len(calls') = m + n /\ DOMAIN calls' = 1..(m + n)
  <2>1. calls' = calls \o requests
    BY DEF Answer
  <2>2. calls \o requests \in Seq(Requests) /\ Len(calls \o requests) = m + n
    BY <1>1, Followed
  <2>3. DOMAIN (calls \o requests) = 1..Len(calls \o requests)
    BY <2>2, LenProperties
  <2> QED
    BY <2>1, <2>2, <2>3
<1>3. first' = m + 1 /\ InHand' = (m + 1)..(m + n)
  BY <1>2 DEF Answer, InHand
<1>4. DOMAIN requests = 1..n
  OBVIOUS
<1>5. /\ step' \in [1..(m + n) -> Steps]
      /\ \A i \in (m + 1)..(m + n) : step'[i] = "waiting"
  <2>1. step' = step \o [i \in 1..n |-> "waiting"]
    BY <1>4 DEF Answer
  <2>2. step \in [1..m -> Steps] /\ "waiting" \in Steps
    BY <1>1 DEF Books, TypeOK, Steps
  <2>3. step' \in [1..(m + n) -> Steps]
    BY <2>1, <2>2, <1>1, Continued
  <2>4. ASSUME NEW i \in (m + 1)..(m + n) PROVE step'[i] = "waiting"
    BY <2>1, <2>2, <1>1, ContinuedAt
  <2> QED BY <2>3, <2>4
<1>6. told' \in [1..(m + n) -> {"open", "result", "interrupted"}]
  <2> DEFINE Says == {"open", "result", "interrupted"}
  <2>1. told' = told \o [i \in 1..n |-> "open"]
    BY <1>4 DEF Answer
  <2>2. told \in [1..m -> Says] /\ "open" \in Says
    BY <1>1 DEF Books, TypeOK
  <2> HIDE DEF Says
  <2>3. told' \in [1..(m + n) -> Says]
    BY <2>1, <2>2, <1>1, Continued
  <2> QED BY <2>3 DEF Says
<1>7. leave' \in [1..(m + n) -> Leaves]
  <2>1. leave' = leave \o [i \in 1..n |-> "none"]
    BY <1>4 DEF Answer
  <2>2. leave \in [1..m -> Leaves] /\ "none" \in Leaves
    BY <1>1 DEF Books, TypeOK, Leaves
  <2> QED BY <2>1, <2>2, <1>1, Continued
<1>8. against' \in [1..(m + n) -> SUBSET {"plan", "rule"}]
  <2>1. against' = against \o [i \in 1..n |-> {}]
    BY <1>4 DEF Answer
  <2>2. against \in [1..m -> SUBSET {"plan", "rule"}] /\ {} \in SUBSET {"plan", "rule"}
    BY <1>1 DEF Books, TypeOK
  <2> QED BY <2>1, <2>2, <1>1, Continued
<1>9. departs' \subseteq Departures /\ spent' \in 0..MaxDepartures
  BY DepartsTyped, DeparturesFinite DEF Books, Answer
<1>10. slots' = MaxConcurrency /\ lock' = 0 /\ MaxConcurrency \in Nat
  BY CallsAssumption DEF Answer
<1>11. /\ mode' \in Modes /\ held' \in Modes /\ phase' \in {"idle", "tools", "closing"}
       /\ denied' \subseteq Requests /\ grants' \subseteq Requests
       /\ results' = {} /\ effects' \subseteq 1..m
  BY <1>1 DEF Answer, Books, TypeOK, policy
<1> HIDE DEF m
<1>12. TypeOK'
  BY <1>1, <1>2, <1>3, <1>5, <1>6, <1>7, <1>8, <1>9, <1>10, <1>11 DEF TypeOK
<1>13. Accounted'
  <2>1. \A i \in InHand' : step'[i] = "waiting" /\ i # 0
    BY <1>1, <1>3, <1>5
  <2>2. {i \in InHand : Holds(i)}' = {}
    BY <2>1 DEF Holds
  <2>3. Cardinality({i \in InHand : Holds(i)}') = 0
    BY <2>2, FS_EmptySet
  <2> QED BY <2>1, <2>3, <1>10 DEF Accounted
<1> QED BY <1>12, <1>13 DEF Books

\* A step that moves no call to a permit or the lock, or from them, keeps
\* their books.
LEMMA SameBooks ==
  ASSUME Books, UNCHANGED <<calls, first, slots, lock>>,
         \A j \in InHand : /\ Holds(j) <=> step'[j] \in {"asking", "asked", "cleared", "running"}
                           /\ step[j] = "asked" <=> step'[j] = "asked"
  PROVE  Accounted'
<1>1. InHand' = InHand
  BY DEF InHand
<1>2. {j \in InHand : Holds(j)}' = {j \in InHand : Holds(j)}
  BY <1>1 DEF Holds
<1>3. Cardinality({j \in InHand : Holds(j)})' = Cardinality({j \in InHand : Holds(j)})
  BY <1>2
<1> QED BY <1>1, <1>3 DEF Accounted, Books

\* What a task's step leaves alone, and what it keeps of the rest.
TaskRest ==
  /\ departs' \subseteq Departures /\ spent' \in 0..MaxDepartures
  /\ mode' \in Modes /\ denied' \subseteq Requests
  /\ grants' \subseteq Requests
  /\ effects' \subseteq DOMAIN calls
  /\ leave' \in [DOMAIN calls -> Leaves]
  /\ against' \in [DOMAIN calls -> SUBSET {"plan", "rule"}]

\* A step of one call keeps the domains if it keeps the permits.
LEMMA TaskBooks ==
  ASSUME Books, Unmoved, TaskRest, step' \in [DOMAIN calls -> Steps],
         slots' \in 0..MaxConcurrency, lock' \in 0..Len(calls), Accounted'
  PROVE  Books'
<1>1. InHand' = InHand /\ calls' = calls /\ first' = first /\ phase' = phase
      /\ held' = held /\ results' = results /\ told' = told
  BY DEF Unmoved, InHand
<1>2. TypeOK'
  BY <1>1 DEF TypeOK, Books, TaskRest
<1> QED BY <1>2 DEF Books

\* A task that only moves keeps everything.
LEMMA MovedBooks ==
  ASSUME Books, Unmoved, TaskRest, NEW i \in DOMAIN calls, NEW s \in Steps,
         Moves(i, s), Becomes(i, s)
  PROVE  Books'
<1>1. UNCHANGED <<calls, first>>
  BY DEF Unmoved
<1>2. /\ step' \in [DOMAIN calls -> Steps]
      /\ slots' \in 0..MaxConcurrency /\ lock' \in 0..Len(calls)
      /\ Accounted'
  BY <1>1, BecomesKeeps
<1> QED BY <1>2, TaskBooks

\* The steps of a task.
LEMMA TaskStepBooks ==
  ASSUME Books, NEW i \in DOMAIN calls,
         \/ Authorize(i) \/ Ask(i) \/ Unasked(i) \/ Begin(i) \/ Return(i) \/ Fail(i) \/ Unwind(i)
         \/ \E r \in {"allow_once", "allow_always", "reject"} : Reply(i, r)
  PROVE  Books'
<1>1. /\ calls \in Seq(Requests) /\ calls[i] \in Requests
      /\ Len(calls) \in Nat /\ DOMAIN calls = 1..Len(calls) /\ InHand \subseteq DOMAIN calls
  <2>1. Len(calls) \in Nat /\ DOMAIN calls = 1..Len(calls) /\ InHand \subseteq DOMAIN calls
    BY CallsNumbered DEF Books
  <2> QED BY <2>1, ElementOfSeq DEF Books, TypeOK
<1>2. /\ step \in [DOMAIN calls -> Steps] /\ leave \in [DOMAIN calls -> Leaves]
      /\ against \in [DOMAIN calls -> SUBSET {"plan", "rule"}] /\ effects \subseteq DOMAIN calls
      /\ departs \subseteq Departures /\ spent \in 0..MaxDepartures
      /\ mode \in Modes /\ denied \subseteq Requests
      /\ grants \subseteq Requests
  BY DEF Books, TypeOK
<1>3. {"put", "lost", "asking", "cleared", "running", "asked"} \subseteq Steps
  BY DEF Steps
<1>4. CASE Authorize(i)
  <2>1. Unmoved /\ i \in InHand /\ slots > 0
    BY <1>4 DEF Authorize
  <2>2. TaskRest
    <3>1. Decision(calls[i], held).by \in Leaves
      BY DEF Decision, Verdict, Leaves
    <3>2. leave' \in [DOMAIN calls -> Leaves]
      BY <1>2, <1>4, <3>1 DEF Authorize
    <3> QED BY <1>2, <1>4, <3>2 DEF Authorize, TaskRest, Plain, policy
  <2>3. PICK s \in {"put", "cleared", "asking"} : Becomes(i, s)
    BY <1>4 DEF Authorize
  <2>4. Moves(i, s)
    BY <2>1 DEF Moves
  <2> QED BY <1>3, <2>1, <2>2, <2>3, <2>4, MovedBooks
<1>5. CASE Ask(i)
  <2>1. Unmoved /\ i \in InHand /\ slots' = slots /\ lock = 0 /\ lock' = i
        /\ step[i] = "asking" /\ step' = [step EXCEPT ![i] = "asked"]
    BY <1>5 DEF Ask
  <2>2. TaskRest
    BY <1>2, <1>5 DEF Ask, TaskRest, Plain, policy
  <2>3. InHand' = InHand
    BY <2>1 DEF Unmoved, InHand
  <2>4. {j \in InHand : Holds(j)}' = {j \in InHand : Holds(j)}
    BY <2>1, <2>3, <1>1, <1>2 DEF Holds
  <2>5. Cardinality({j \in InHand : Holds(j)})' = Cardinality({j \in InHand : Holds(j)})
    BY <2>4
  <2>6. \A j \in InHand : lock' = j <=> step'[j] = "asked"
    BY <2>1, <1>1, <1>2 DEF Books, Accounted
  <2>7. Accounted'
    BY <2>1, <2>3, <2>5, <2>6 DEF Accounted, Books
  <2>8. /\ step' \in [DOMAIN calls -> Steps]
        /\ slots' \in 0..MaxConcurrency /\ lock' \in 0..Len(calls)
    BY <2>1, <1>1, <1>2, <1>3 DEF Books, TypeOK
  <2> QED BY <2>1, <2>2, <2>7, <2>8, TaskBooks
<1>6. CASE Unasked(i)
  <2>1. departs' \subseteq Departures /\ spent' \in 0..MaxDepartures
    BY <1>6, DepartsTyped, DeparturesFinite DEF Unasked, Books
  <2>2. TaskRest
    BY <1>2, <1>6, <2>1 DEF Unasked, TaskRest, policy
  <2>3. Unmoved /\ Becomes(i, "lost") /\ Moves(i, "lost")
    BY <1>6 DEF Unasked, Moves
  <2> QED BY <1>3, <2>2, <2>3, MovedBooks
<1>7. CASE Begin(i)
  <2>1. Forbids(calls[i]) \in SUBSET {"plan", "rule"}
    BY DEF Forbids, When
  <2>2. against' \in [DOMAIN calls -> SUBSET {"plan", "rule"}]
    BY <1>2, <1>7, <2>1 DEF Begin
  <2>3. TaskRest
    BY <1>2, <1>7, <2>2 DEF Begin, TaskRest, Plain, policy
  <2>4. Unmoved /\ Holds(i)
    BY <1>7 DEF Begin, Holds
  <2>5. PICK s \in {"put", "running"} : Becomes(i, s)
    BY <1>7 DEF Begin
  <2>6. Moves(i, s)
    BY <2>4 DEF Moves
  <2> QED BY <1>3, <2>3, <2>4, <2>5, <2>6, MovedBooks
<1>8. CASE Return(i)
  <2>1. TaskRest
    BY <1>2, <1>8 DEF Return, TaskRest, Plain, policy
  <2>2. Unmoved /\ Becomes(i, "put") /\ Moves(i, "put")
    BY <1>8 DEF Return, Moves
  <2> QED BY <1>3, <2>1, <2>2, MovedBooks
<1>9. CASE Fail(i)
  <2>1. departs' \subseteq Departures /\ spent' \in 0..MaxDepartures
    BY <1>9, DepartsTyped, DeparturesFinite DEF Fail, Books
  <2>2. TaskRest
    BY <1>2, <1>9, <2>1 DEF Fail, TaskRest, policy
  <2>3. Unmoved /\ Becomes(i, "lost") /\ Moves(i, "lost")
    BY <1>9 DEF Fail, Moves
  <2> QED BY <1>3, <2>2, <2>3, MovedBooks
<1>10. CASE Unwind(i)
  <2>1. TaskRest
    BY <1>2, <1>10 DEF Unwind, TaskRest, Plain, policy
  <2>2. PICK s \in {"put", "lost"} : Becomes(i, s)
    BY <1>10 DEF Unwind
  <2>3. Unmoved /\ Moves(i, s)
    BY <1>10 DEF Unwind, Moves
  <2> QED BY <1>3, <2>1, <2>2, <2>3, MovedBooks
<1>11. CASE \E r \in {"allow_once", "allow_always", "reject"} : Reply(i, r)
  <2>1. PICK r \in {"allow_once", "allow_always", "reject"} : Reply(i, r)
    BY <1>11
  <2>2. leave' \in [DOMAIN calls -> Leaves]
    BY <2>1, <1>2 DEF Reply, Leaves
  <2>3. grants' \subseteq Requests
    BY <2>1, <1>1, <1>2 DEF Reply, When
  <2>4. TaskRest
    BY <1>2, <2>1, <2>2, <2>3 DEF Reply, TaskRest, Plain
  <2>5. Unmoved /\ Holds(i)
    BY <2>1 DEF Reply, Holds
  <2>6. PICK s \in {"put", "cleared"} : Becomes(i, s)
    BY <2>1 DEF Reply
  <2>7. Moves(i, s)
    BY <2>5 DEF Moves
  <2> QED BY <1>3, <2>4, <2>5, <2>6, <2>7, MovedBooks
<1> QED BY <1>4, <1>5, <1>6, <1>7, <1>8, <1>9, <1>10, <1>11

\* The steps of the stream, but for a new answer, and those around it.
LEMMA StreamBooks ==
  ASSUME Books,
         \/ StartBatch \/ EndStream \/ Cancel \/ Closed \/ CancelAgain
         \/ \E i \in DOMAIN calls : Collect(i)
         \/ \E m \in Modes : SetMode(m)
         \/ \E r \in Deniable : Deny(r)
  PROVE  Books'
<1>1. /\ step \in [DOMAIN calls -> Steps] /\ InHand \subseteq DOMAIN calls
      /\ {"put", "created", "collected"} \subseteq Steps
  BY CallsNumbered DEF Books, TypeOK, Steps
<1> DEFINE Says == {"open", "result", "interrupted"}
<1>2. told \in [DOMAIN calls -> Says]
  BY DEF Books, TypeOK
<1>3. ASSUME UNCHANGED <<calls, first, held, executor, leave, against, effects, policy>>,
             departs' \subseteq Departures, spent' \in 0..MaxDepartures,
             phase' \in {"idle", "tools", "closing"},
             step' \in [DOMAIN calls -> Steps], told' \in [DOMAIN calls -> Says],
             results' \subseteq InHand, Accounted'
      PROVE  Books'
  <2>1. InHand' = InHand
    BY <1>3 DEF InHand
  <2> QED BY <1>3, <2>1 DEF Books, TypeOK, executor, policy
<1>4. CASE StartBatch
  <2>1. /\ UNCHANGED <<calls, first, held, executor, leave, against, effects, policy, phase, results, told>>
        /\ departs' \subseteq Departures /\ spent' \in 0..MaxDepartures
    BY <1>4 DEF StartBatch, Plain, history, Books, TypeOK
  <2>2. step' \in [DOMAIN calls -> Steps]
    BY <1>1, <1>4 DEF StartBatch
  <2>3. \A j \in InHand : step[j] \in {"waiting", "collected", "lost"}
    BY <1>4 DEF StartBatch, IsOver
  <2>4. \A j \in InHand : step'[j] \in {"put", "created", "waiting", "collected", "lost"}
    BY <1>1, <1>4, <2>3 DEF StartBatch
  <2>5. Accounted'
    BY <2>1, <2>3, <2>4, SameBooks DEF Holds, executor
  <2> QED BY <1>2, <1>3, <2>1, <2>2, <2>5 DEF Books, TypeOK
<1>5. CASE EndStream
  <2>1. /\ UNCHANGED <<calls, first, held, executor, leave, against, effects, policy, results, step>>
        /\ departs' \subseteq Departures /\ spent' \in 0..MaxDepartures /\ phase' = "idle"
    BY <1>5 DEF EndStream, Plain, Books, TypeOK
  <2>2. told' \in [DOMAIN calls -> Says]
    BY <1>2, <1>5 DEF EndStream
  <2>3. Accounted'
    BY <2>1, SameBooks DEF Holds, executor
  <2> QED BY <1>3, <2>1, <2>2, <2>3 DEF Books, TypeOK
<1>6. CASE Cancel
  <2>1. /\ UNCHANGED <<calls, first, held, executor, leave, against, effects, policy, results, step, told>>
        /\ phase' = "closing"
    BY <1>6 DEF Cancel, history
  <2>2. departs' \subseteq Departures /\ spent' \in 0..MaxDepartures
    BY <1>6, DepartsTyped, DeparturesFinite DEF Cancel, Books
  <2>3. Accounted'
    BY <2>1, SameBooks DEF Holds, executor
  <2> QED BY <1>3, <2>1, <2>2, <2>3 DEF Books, TypeOK
<1>7. CASE Closed \/ CancelAgain
  <2>1. Close
    BY <1>7 DEF Closed, CancelAgain
  <2>2. UNCHANGED <<calls, first, held, executor, leave, against, effects, policy, results, step>>
        /\ phase' = "idle"
    BY <2>1 DEF Close
  <2>3. departs' \subseteq Departures /\ spent' \in 0..MaxDepartures
    BY <1>7 DEF Closed, CancelAgain, Plain, Books, TypeOK
  <2>4. told' \in [DOMAIN calls -> Says]
    BY <1>2, <2>1 DEF Close
  <2>5. Accounted'
    BY <2>2, SameBooks DEF Holds, executor
  <2> QED BY <1>3, <2>2, <2>3, <2>4, <2>5 DEF Books, TypeOK
<1>8. CASE \E i \in DOMAIN calls : Collect(i)
  <2>1. PICK i \in DOMAIN calls : Collect(i)
    BY <1>8
  <2>2. /\ UNCHANGED <<calls, first, held, executor, leave, against, effects, policy, told, phase>>
        /\ departs' \subseteq Departures /\ spent' \in 0..MaxDepartures
        /\ step[i] = "put" /\ step' = [step EXCEPT ![i] = "collected"]
    BY <2>1 DEF Collect, Plain, history, Books, TypeOK
  <2>3. step' \in [DOMAIN calls -> Steps]
    BY <1>1, <2>2
  <2>4. results' \subseteq InHand
    BY <2>1 DEF Collect, Books, TypeOK
  <2>5. Accounted'
    BY <1>1, <2>2, SameBooks DEF Holds, executor
  <2> QED BY <1>2, <1>3, <2>2, <2>3, <2>4, <2>5 DEF Books, TypeOK
<1>9. CASE (\E m \in Modes : SetMode(m)) \/ (\E r \in Deniable : Deny(r))
  <2>1. UNCHANGED <<calls, first, phase, held, step, executor, results, history>>
    BY <1>9 DEF SetMode, Deny
  <2>2. departs' \subseteq Departures /\ spent' \in 0..MaxDepartures
    BY <1>9, DepartsTyped, DeparturesFinite DEF SetMode, Deny, Books
  <2>3. mode' \in Modes /\ denied' \subseteq Requests
        /\ grants' \subseteq Requests
    BY <1>9, CallsAssumption DEF SetMode, Deny, Books, TypeOK
  <2>4. Accounted'
    BY <2>1, SameBooks DEF Holds, executor
  <2>5. InHand' = InHand
    BY <2>1 DEF InHand
  <2> QED BY <2>1, <2>2, <2>3, <2>4, <2>5 DEF Books, TypeOK, executor, history
<1> QED BY <1>4, <1>5, <1>6, <1>7, <1>8, <1>9

\* Every step keeps the books.
LEMMA StepBooks == Books /\ [Next]_vars => Books'
<1> SUFFICES ASSUME Books, [Next]_vars PROVE Books'
  OBVIOUS
<1>1. CASE SomeAnswer
  <2>1. PICK n \in 1..(MaxCalls - Len(calls)) : \E requests \in [1..n -> Requests] : Answer(requests)
    BY <1>1 DEF SomeAnswer
  <2>2. n \in Nat
    BY CallsNumbered, CallsAssumption DEF Books
  <2> QED BY <2>1, <2>2, AnswerBooks
<1>2. CASE UNCHANGED vars
  <2>1. Accounted'
    BY <1>2, SameBooks DEF vars, executor, Holds
  <2>2. TypeOK'
    <3>1. InHand' = InHand
      BY <1>2 DEF vars, InHand
    <3> QED BY <1>2, <3>1 DEF vars, policy, executor, history, TypeOK, Books
  <2> QED BY <2>1, <2>2 DEF Books
<1> QED BY <1>1, <1>2, StreamBooks, TaskStepBooks DEF Next

\* The variables keep their domains, for any requests, permits and answers.
THEOREM CallsTyped == Spec => []TypeOK
<1>1. Books => TypeOK
  BY DEF Books
<1> QED BY <1>1, InitBooks, StepBooks, PTL DEF Spec

\* Whatever is denied, blocked, raised or cancelled, every permit of the
\* semaphore is free or with a call that is past it, and the permission lock is
\* with the call whose user is asked.
THEOREM PermitsAccounted == Spec => []Accounted
<1>1. Books => Accounted
  BY DEF Books
<1> QED BY <1>1, InitBooks, StepBooks, PTL DEF Spec

-----------------------------------------------------------------------------
(* Nothing begins that is forbidden                                        *)

\* The calls that did not begin yet.
Ahead(i) == step[i] \in {"waiting", "created", "asking", "asked", "cleared"}

Fresh == \A i \in DOMAIN calls : Ahead(i) => against[i] = {}

\* While the mode and the rules stand still, what was decided about the calls
\* in hand is still so.
Steady ==
  "switch" \notin departs =>
    /\ phase = "tools" => held = mode
    /\ \A i \in DOMAIN calls : against[i] # {} => leave[i] = "grant"
    /\ phase = "tools" => \A i \in InHand :
         /\ step[i] \in {"asking", "asked"} => Forbids(calls[i]) = {}
         /\ step[i] = "cleared" => leave[i] = "grant" \/ Forbids(calls[i]) = {}

Guarded == Books /\ Fresh /\ Steady

\* What is let run without a grant, or put to the user, is not forbidden.
LEMMA DecisionGuards ==
  ASSUME NEW r, mode \in Modes,
         \/ Decision(r, mode).decision = "ask"
         \/ Decision(r, mode).decision = "allow" /\ Decision(r, mode).by # "grant"
  PROVE  Forbids(r) = {}
<1>1. r \notin grants /\ ~(mode = "plan" /\ r \in Mutating)
  BY DEF Decision, Verdict
<1>2. mode = "bypass" \/ r \notin denied
  BY <1>1 DEF Decision, Verdict
<1> QED BY <1>1, <1>2 DEF Forbids, When

\* A step of a task is guarded when what it does to its own call is.
LEMMA OneGuarded ==
  ASSUME Guarded, Books', NEW i \in DOMAIN calls, NEW s \in Steps, Unmoved,
         UNCHANGED <<mode, denied>>, departs \subseteq departs',
         step' = [step EXCEPT ![i] = s],
         \A j \in DOMAIN calls \ {i} : leave'[j] = leave[j] /\ against'[j] = against[j],
         Ahead(i)' => against'[i] = {},
         "switch" \notin departs =>
           /\ against'[i] # {} => leave'[i] = "grant"
           /\ phase = "tools" /\ i \in InHand =>
                /\ s \in {"asking", "asked"} => Forbids(calls[i]) = {}
                /\ s = "cleared" => leave'[i] = "grant" \/ Forbids(calls[i]) = {}
  PROVE  Guarded'
<1>1. step \in [DOMAIN calls -> Steps] /\ InHand \subseteq DOMAIN calls
  BY CallsNumbered DEF Guarded, Books, TypeOK
<1>2. calls' = calls /\ InHand' = InHand /\ phase' = phase /\ held' = held
  BY DEF Unmoved, InHand
<1>3. \A r : Forbids(r)' = Forbids(r)
  BY DEF Forbids
<1>4. Fresh'
  <2> SUFFICES ASSUME NEW j \in DOMAIN calls, Ahead(j)' PROVE against'[j] = {}
    BY <1>2 DEF Fresh
  <2>1. CASE j = i
    BY <2>1
  <2>2. CASE j # i
    BY <2>2, <1>1 DEF Guarded, Fresh, Ahead
  <2> QED BY <2>1, <2>2
<1>5. Steady'
  <2> SUFFICES ASSUME "switch" \notin departs' PROVE Steady'
    BY DEF Steady
  <2>1. "switch" \notin departs
    OBVIOUS
  <2>2. phase' = "tools" => held' = mode'
    BY <2>1, <1>2 DEF Guarded, Steady
  <2>3. \A j \in DOMAIN calls : against'[j] # {} => leave'[j] = "grant"
    BY <2>1 DEF Guarded, Steady
  <2>4. ASSUME phase = "tools", NEW j \in InHand
        PROVE  /\ step'[j] \in {"asking", "asked"} => Forbids(calls[j]) = {}
               /\ step'[j] = "cleared" => leave'[j] = "grant" \/ Forbids(calls[j]) = {}
    <3>1. CASE j = i
      BY <3>1, <2>1, <2>4, <1>1
    <3>2. CASE j # i
      BY <3>2, <2>1, <2>4, <1>1 DEF Guarded, Steady
    <3> QED BY <3>1, <3>2
  <2> QED BY <1>2, <1>3, <2>2, <2>3, <2>4 DEF Steady
<1> QED BY <1>4, <1>5 DEF Guarded

\* The steps of a task.
LEMMA TaskGuarded ==
  ASSUME Guarded, NEW i \in DOMAIN calls,
         \/ Authorize(i) \/ Ask(i) \/ Unasked(i) \/ Begin(i) \/ Return(i) \/ Fail(i) \/ Unwind(i)
         \/ \E r \in {"allow_once", "allow_always", "reject"} : Reply(i, r)
  PROVE  Guarded'
<1>1. Books'
  BY TaskStepBooks DEF Guarded
<1>2. /\ Unmoved /\ UNCHANGED <<mode, denied>> /\ departs \subseteq departs'
  BY DEF Authorize, Ask, Unasked, Begin, Return, Fail, Unwind, Reply, Plain, Departs, policy
<1>3. step \in [DOMAIN calls -> Steps] /\ leave \in [DOMAIN calls -> Leaves]
      /\ against \in [DOMAIN calls -> SUBSET {"plan", "rule"}] /\ mode \in Modes
  BY DEF Guarded, Books, TypeOK
<1>4. {"put", "lost", "asking", "cleared", "running", "asked"} \subseteq Steps
  BY DEF Steps
<1>5. /\ Ahead(i) => against[i] = {}
      /\ "switch" \notin departs => (against[i] # {} => leave[i] = "grant")
  BY DEF Guarded, Fresh, Steady
<1>6. CASE Authorize(i)
  <2>1. phase = "tools" /\ i \in InHand /\ step[i] = "created" /\ against' = against
        /\ against[i] = {}
    BY <1>5, <1>6 DEF Authorize, Ahead
  <2>2. "switch" \notin departs => held = mode
    BY <2>1 DEF Guarded, Steady
  <2>3. PICK s \in {"put", "cleared", "asking"} :
          /\ step' = [step EXCEPT ![i] = s]
          /\ s = "asking" => Decision(calls[i], held).decision = "ask"
          /\ s = "cleared" => /\ Decision(calls[i], held).decision = "allow"
                              /\ leave' = [leave EXCEPT ![i] = Decision(calls[i], held).by]
          /\ s # "cleared" => leave' = leave
    BY <1>6 DEF Authorize, Becomes
  <2>4. "switch" \notin departs =>
          /\ s \in {"asking", "asked"} => Forbids(calls[i]) = {}
          /\ s = "cleared" => leave'[i] = "grant" \/ Forbids(calls[i]) = {}
    BY <1>3, <2>2, <2>3, DecisionGuards
  <2>5. \A j \in DOMAIN calls \ {i} : leave'[j] = leave[j]
    BY <1>3, <2>3
  <2> QED BY <1>1, <1>2, <1>4, <2>1, <2>3, <2>4, <2>5, OneGuarded
<1>7. CASE Ask(i)
  <2>1. /\ phase = "tools" /\ i \in InHand /\ step[i] = "asking"
        /\ step' = [step EXCEPT ![i] = "asked"] /\ leave' = leave /\ against' = against
        /\ against[i] = {}
    BY <1>5, <1>7 DEF Ask, Ahead
  <2>2. "switch" \notin departs => Forbids(calls[i]) = {}
    BY <2>1 DEF Guarded, Steady
  <2> QED BY <1>1, <1>2, <1>4, <2>1, <2>2, OneGuarded
<1>8. CASE Begin(i)
  <2>1. phase = "tools" /\ i \in InHand /\ step[i] = "cleared" /\ leave' = leave
        /\ against[i] = {}
    BY <1>5, <1>8 DEF Begin, Ahead
  <2>2. PICK s \in {"put", "running"} :
          /\ step' = [step EXCEPT ![i] = s]
          /\ \/ against' = against
             \/ against' = [against EXCEPT ![i] = Forbids(calls[i])]
    BY <1>8 DEF Begin, Becomes
  <2>3. "switch" \notin departs => (against'[i] # {} => leave'[i] = "grant")
    BY <1>3, <2>1, <2>2 DEF Guarded, Steady
  <2>4. \A j \in DOMAIN calls \ {i} : against'[j] = against[j]
    BY <1>3, <2>2
  <2>5. ~Ahead(i)'
    BY <1>3, <2>2 DEF Ahead
  <2> QED BY <1>1, <1>2, <1>4, <2>1, <2>2, <2>3, <2>4, <2>5, OneGuarded
<1>9. CASE Unasked(i) \/ Return(i) \/ Fail(i) \/ Unwind(i)
  <2>1. PICK s \in {"put", "lost"} : step' = [step EXCEPT ![i] = s]
    BY <1>9 DEF Unasked, Return, Fail, Unwind, Becomes
  <2>2. leave' = leave /\ against' = against
    BY <1>9 DEF Unasked, Return, Fail, Unwind
  <2>3. ~Ahead(i)'
    BY <1>3, <2>1 DEF Ahead
  <2> QED BY <1>1, <1>2, <1>4, <1>5, <2>1, <2>2, <2>3, OneGuarded
<1>10. CASE \E r \in {"allow_once", "allow_always", "reject"} : Reply(i, r)
  <2>1. PICK r \in {"allow_once", "allow_always", "reject"} : Reply(i, r)
    BY <1>10
  <2>2. phase = "tools" /\ i \in InHand /\ step[i] = "asked" /\ against' = against
        /\ against[i] = {}
    BY <1>5, <2>1 DEF Reply, Ahead
  <2>3. "switch" \notin departs => Forbids(calls[i]) = {}
    BY <2>2 DEF Guarded, Steady
  <2>4. PICK s \in {"put", "cleared"} :
          /\ step' = [step EXCEPT ![i] = s]
          /\ leave' = leave \/ leave' = [leave EXCEPT ![i] = "user"]
    BY <2>1 DEF Reply, Becomes
  <2>5. \A j \in DOMAIN calls \ {i} : leave'[j] = leave[j]
    BY <1>3, <2>4
  <2> QED BY <1>1, <1>2, <1>4, <2>2, <2>3, <2>4, <2>5, OneGuarded
<1> QED BY <1>6, <1>7, <1>8, <1>9, <1>10

\* The calls of a batch wait together, and start together.
Together ==
  \A i \in InHand : \A j \in Batch(i) : step[i] = "waiting" <=> step[j] = "waiting"

\* A batch is one as seen from any of its calls.
LEMMA BatchesPart ==
  ASSUME TypeOK, NEW i \in InHand, NEW j \in InHand, NEW k \in InHand,
         k \in Batch(i), j \in Batch(i) \/ k \in Batch(j)
  PROVE  j \in Batch(i) /\ k \in Batch(j)
<1>1. \A a \in InHand : a \in Nat
  BY CallsNumbered DEF InHand
<1>2. CASE calls[i] \notin Safe
  <2>1. k = i
    BY <1>2 DEF Batch
  <2>2. j \in Batch(i) => j = i
    BY <1>2 DEF Batch
  <2>3. CASE k \in Batch(j)
    <3>1. calls[j] \notin Safe
      BY <1>1, <1>2, <2>1, <2>3 DEF Batch
    <3> QED BY <1>2, <2>1, <2>3, <3>1 DEF Batch
  <2> QED BY <1>2, <2>1, <2>2, <2>3 DEF Batch
<1>3. CASE calls[i] \in Safe
  <2>1. \A m \in InHand : (i <= m /\ m <= k) \/ (k <= m /\ m <= i) => calls[m] \in Safe
    BY <1>3 DEF Batch
  <2>2. calls[k] \in Safe
    BY <1>1, <2>1
  <2>3. calls[j] \in Safe
    BY <1>1, <1>3, <2>2 DEF Batch
  <2>4. \/ \A m \in InHand : (i <= m /\ m <= j) \/ (j <= m /\ m <= i) => calls[m] \in Safe
        \/ \A m \in InHand : (j <= m /\ m <= k) \/ (k <= m /\ m <= j) => calls[m] \in Safe
    BY <1>3, <2>3 DEF Batch
  <2>5. /\ \A m \in InHand : (i <= m /\ m <= j) \/ (j <= m /\ m <= i) => calls[m] \in Safe
        /\ \A m \in InHand : (j <= m /\ m <= k) \/ (k <= m /\ m <= j) => calls[m] \in Safe
    BY <1>1, <2>1, <2>4
  <2> QED BY <1>3, <2>3, <2>5 DEF Batch
<1> QED BY <1>2, <1>3

\* A call is of its own batch, and its batch is in hand.
LEMMA BatchInHand ==
  ASSUME TypeOK, NEW i \in InHand
  PROVE  i \in Batch(i) /\ Batch(i) \subseteq InHand
<1>1. \A a \in InHand : a \in Nat
  BY CallsNumbered DEF InHand
<1>2. \A m \in InHand : (i <= m /\ m <= i) => m = i
  BY <1>1
<1> QED BY <1>1, <1>2 DEF Batch

\* A step after which the same calls wait leaves the batches whole.
LEMMA SameTogether ==
  ASSUME TypeOK, Together, UNCHANGED <<calls, first>>,
         \A i \in InHand : step'[i] = "waiting" <=> step[i] = "waiting"
  PROVE  Together'
<1>1. InHand' = InHand
  BY DEF InHand
<1>2. \A i : Batch(i)' = Batch(i)
  BY <1>1 DEF Batch
<1> QED BY <1>1, <1>2, BatchInHand DEF Together

\* A step of one call leaves those of its batch together.
LEMMA TaskTogether ==
  ASSUME TypeOK, Together, NEW i \in DOMAIN calls,
         \/ Authorize(i) \/ Ask(i) \/ Unasked(i) \/ Begin(i) \/ Return(i) \/ Fail(i) \/ Unwind(i)
         \/ Collect(i)
         \/ \E r \in {"allow_once", "allow_always", "reject"} : Reply(i, r)
  PROVE  Together'
<1>1. step \in [DOMAIN calls -> Steps] /\ InHand \subseteq DOMAIN calls
  BY CallsNumbered DEF TypeOK
<1>2. UNCHANGED <<calls, first>>
  BY DEF Authorize, Ask, Unasked, Begin, Return, Fail, Unwind, Reply, Collect, Unmoved
<1>3. step[i] # "waiting"
  BY DEF Authorize, Ask, Unasked, Begin, Return, Fail, Unwind, Reply, Collect, IsActive
<1>4. PICK s \in {"put", "lost", "asking", "asked", "cleared", "running", "collected"} :
        step' = [step EXCEPT ![i] = s]
  BY DEF Authorize, Ask, Unasked, Begin, Return, Fail, Unwind, Reply, Collect, Becomes
<1>5. \A j \in InHand : step'[j] = "waiting" <=> step[j] = "waiting"
  BY <1>1, <1>3, <1>4
<1> QED BY <1>2, <1>5, SameTogether

\* The next batch starts as a whole.
LEMMA BatchTogether ==
  ASSUME TypeOK, Together, StartBatch
  PROVE  /\ Together'
         /\ \A j \in DOMAIN calls : step'[j] # step[j] => step[j] = "waiting"
<1>1. step \in [DOMAIN calls -> Steps] /\ InHand \subseteq DOMAIN calls
  BY CallsNumbered DEF TypeOK
<1>2. PICK i \in InHand :
        /\ step[i] = "waiting"
        /\ step' = [j \in DOMAIN step |->
             IF j \notin Batch(i) THEN step[j]
             ELSE IF calls[j] \in Unknown THEN "put" ELSE "created"]
  BY DEF StartBatch
<1>3. InHand' = InHand /\ \A j : Batch(j)' = Batch(j)
  BY DEF StartBatch, InHand, Batch
<1>4. \A j \in Batch(i) : step[j] = "waiting" /\ step'[j] # "waiting"
  BY <1>1, <1>2, BatchInHand DEF Together
<1>5. \A j \in DOMAIN calls \ Batch(i) : step'[j] = step[j]
  BY <1>1, <1>2
<1>6. Together'
  <2> SUFFICES ASSUME NEW j \in InHand, NEW k \in Batch(j)
               PROVE  step'[j] = "waiting" <=> step'[k] = "waiting"
    BY <1>3 DEF Together
  <2>1. k \in InHand
    BY BatchInHand
  <2>2. k \in Batch(i) <=> j \in Batch(i)
    <3>1. k \in Batch(i) => j \in Batch(i)
      BY <2>1, BatchesPart
    <3>2. j \in Batch(j) /\ j \in Batch(k)
      BY <2>1, BatchInHand, BatchesPart
    <3>3. j \in Batch(i) => k \in Batch(i)
      BY <2>1, <3>2, BatchesPart
    <3> QED BY <3>1, <3>3
  <2>3. step[j] = "waiting" <=> step[k] = "waiting"
    BY DEF Together
  <2> QED BY <1>1, <1>4, <1>5, <2>1, <2>2, <2>3
<1> QED BY <1>4, <1>5, <1>6

\* The calls of a new answer wait, and nothing was decided about them.
LEMMA AnswerGuarded ==
  ASSUME Guarded, NEW n \in Nat, NEW requests \in [1..n -> Requests], Answer(requests)
  PROVE  Guarded' /\ Together'
<1> DEFINE m == Len(calls)
<1>1. m \in Nat /\ DOMAIN calls = 1..m /\ calls \in Seq(Requests)
  BY CallsNumbered DEF Guarded, Books, TypeOK
<1>2. /\ Len(calls') = m + n /\ DOMAIN calls' = 1..(m + n)
      /\ \A i \in 1..m : calls'[i] = calls[i]
  <2>1. calls' = calls \o requests
    BY DEF Answer
  <2>2. calls' \in Seq(Requests) /\ Len(calls') = m + n
    BY <1>1, <2>1, Followed
  <2>3. \A i \in 1..m : calls'[i] = calls[i]
    BY <1>1, <2>1, Followed
  <2> QED BY <2>2, <2>3, LenProperties
<1>3. first' = m + 1 /\ InHand' = (m + 1)..(m + n)
  BY <1>2 DEF Answer, InHand
<1>4. DOMAIN requests = 1..n
  OBVIOUS
<1>5. /\ step \in [1..m -> Steps] /\ "waiting" \in Steps
      /\ step' = step \o [i \in 1..n |-> "waiting"]
  BY <1>1, <1>4 DEF Answer, Guarded, Books, TypeOK, Steps
<1>6. /\ leave \in [1..m -> Leaves] /\ "none" \in Leaves
      /\ leave' = leave \o [i \in 1..n |-> "none"]
  BY <1>1, <1>4 DEF Answer, Guarded, Books, TypeOK, Leaves
<1>7. /\ against \in [1..m -> SUBSET {"plan", "rule"}] /\ {} \in SUBSET {"plan", "rule"}
      /\ against' = against \o [i \in 1..n |-> {}]
  BY <1>1, <1>4 DEF Answer, Guarded, Books, TypeOK
<1> HIDE DEF m
<1>8. ASSUME NEW i \in 1..m
      PROVE  step'[i] = step[i] /\ leave'[i] = leave[i] /\ against'[i] = against[i]
  <2>1. step'[i] = step[i]
    BY <1>1, <1>5, ContinuedBefore
  <2>2. leave'[i] = leave[i]
    BY <1>1, <1>6, ContinuedBefore
  <2>3. against'[i] = against[i]
    BY <1>1, <1>7, ContinuedBefore
  <2> QED BY <2>1, <2>2, <2>3
<1>9. ASSUME NEW i \in (m + 1)..(m + n)
      PROVE  step'[i] = "waiting" /\ against'[i] = {}
  <2>1. step'[i] = "waiting"
    BY <1>1, <1>5, ContinuedAt
  <2>2. against'[i] = {}
    BY <1>1, <1>7, ContinuedAt
  <2> QED BY <2>1, <2>2
<1>10. \A i \in 1..(m + n) : i \in 1..m \/ i \in (m + 1)..(m + n)
  BY <1>1
<1>11. Fresh'
  BY <1>1, <1>2, <1>8, <1>9, <1>10 DEF Guarded, Fresh, Ahead
<1>12. Steady'
  <2> SUFFICES ASSUME "switch" \notin departs' PROVE Steady'
    BY DEF Steady
  <2>1. "switch" \notin departs
    BY DEF Answer, Departs
  <2>2. held' = mode'
    BY DEF Answer, policy
  <2>3. \A i \in 1..(m + n) : against'[i] # {} => leave'[i] = "grant"
    BY <1>1, <1>8, <1>9, <1>10, <2>1 DEF Guarded, Steady
  <2>4. \A i \in InHand' : step'[i] = "waiting"
    BY <1>3, <1>9
  <2> QED BY <1>2, <2>2, <2>3, <2>4 DEF Steady
<1>13. Together'
  <2>1. \A i \in InHand' : Batch(i)' \subseteq InHand'
    BY DEF Batch
  <2>2. \A i \in InHand' : step'[i] = "waiting"
    BY <1>3, <1>9
  <2> QED BY <2>1, <2>2 DEF Together
<1> QED BY <1>11, <1>12, <1>13, AnswerBooks DEF Guarded

\* The steps of the stream, and those around it.
LEMMA StreamGuarded ==
  ASSUME Guarded, Together,
         \/ StartBatch \/ EndStream \/ Cancel \/ Closed \/ CancelAgain
         \/ \E i \in DOMAIN calls : Collect(i)
         \/ \E m \in Modes : SetMode(m)
         \/ \E r \in Deniable : Deny(r)
  PROVE  Guarded' /\ Together'
<1>1. Books' /\ TypeOK
  BY StreamBooks DEF Guarded, Books
<1>2. /\ UNCHANGED <<calls, first, leave, against>> /\ InHand' = InHand
      /\ departs \subseteq departs'
  BY DEF StartBatch, EndStream, Cancel, Closed, CancelAgain, Close, Collect, SetMode,
         Deny, history, Plain, Departs, InHand
<1>3. step \in [DOMAIN calls -> Steps] /\ InHand \subseteq DOMAIN calls
  BY <1>1, CallsNumbered DEF TypeOK
<1>4. Together' /\ \A i \in DOMAIN calls : step'[i] # step[i] =>
                     \/ step[i] = "waiting" /\ step'[i] \in {"created", "put"}
                     \/ step'[i] = "collected"
  <2>1. CASE StartBatch
    <3>1. \A i \in DOMAIN calls : step'[i] # step[i] =>
            step[i] = "waiting" /\ step'[i] \in {"created", "put"}
      BY <1>1, <1>3, <2>1, BatchTogether DEF StartBatch
    <3> QED BY <1>1, <2>1, <3>1, BatchTogether
  <2>2. CASE \E i \in DOMAIN calls : Collect(i)
    <3>1. PICK i \in DOMAIN calls : Collect(i)
      BY <2>2
    <3>2. step[i] = "put" /\ step' = [step EXCEPT ![i] = "collected"]
      BY <3>1 DEF Collect
    <3> QED BY <1>1, <1>3, <3>1, <3>2, TaskTogether
  <2>3. CASE ~(StartBatch \/ \E i \in DOMAIN calls : Collect(i))
    <3>1. step' = step
      BY <2>3 DEF EndStream, Cancel, Closed, CancelAgain, Close, SetMode, Deny
    <3> QED BY <1>1, <1>2, <3>1, SameTogether
  <2> QED BY <2>1, <2>2, <2>3
<1>5. Fresh'
  <2>1. \A i \in DOMAIN calls : Ahead(i)' => Ahead(i)
    BY <1>4 DEF Ahead
  <2> QED BY <1>2, <2>1 DEF Guarded, Fresh
<1>6. "switch" \notin departs' =>
        /\ phase' = "tools" => phase = "tools" /\ UNCHANGED <<held, mode, denied>>
  <2>1. CASE (\E m \in Modes : SetMode(m)) \/ (\E r \in Deniable : Deny(r))
    <3>1. phase' = phase /\ (phase # "idle" => "switch" \in departs')
      BY <2>1 DEF SetMode, Deny, Departs, Switches
    <3> QED BY <3>1
  <2>2. CASE ~((\E m \in Modes : SetMode(m)) \/ (\E r \in Deniable : Deny(r)))
    BY <2>2 DEF StartBatch, EndStream, Cancel, Closed, CancelAgain, Close, Collect, policy
  <2> QED BY <2>1, <2>2
<1>7. Steady'
  <2> SUFFICES ASSUME "switch" \notin departs' PROVE Steady'
    BY DEF Steady
  <2>1. "switch" \notin departs
    BY <1>2
  <2>2. \A i \in DOMAIN calls : against'[i] # {} => leave'[i] = "grant"
    BY <1>2, <2>1 DEF Guarded, Steady
  <2>3. ASSUME phase' = "tools"
        PROVE  /\ held' = mode'
               /\ \A i \in InHand :
                    /\ step'[i] \in {"asking", "asked"} => Forbids(calls[i])' = {}
                    /\ step'[i] = "cleared" => leave'[i] = "grant" \/ Forbids(calls[i])' = {}
    <3>1. phase = "tools" /\ UNCHANGED <<held, mode, denied, calls>>
      BY <1>2, <1>6, <2>3
    <3>2. \A i : Forbids(calls[i])' = Forbids(calls[i])
      BY <3>1 DEF Forbids
    <3>3. \A i \in InHand : step'[i] \in {"asking", "asked", "cleared"} => step'[i] = step[i]
      BY <1>3, <1>4
    <3> QED BY <1>2, <2>1, <3>1, <3>2, <3>3 DEF Guarded, Steady
  <2> QED BY <1>2, <2>2, <2>3 DEF Steady
<1> QED BY <1>1, <1>4, <1>5, <1>7 DEF Guarded

\* Every step leaves what may run guarded.
LEMMA StepGuarded == Guarded /\ Together /\ [Next]_vars => Guarded' /\ Together'
<1> SUFFICES ASSUME Guarded, Together, [Next]_vars PROVE Guarded' /\ Together'
  OBVIOUS
<1>1. CASE SomeAnswer
  <2>1. PICK n \in 1..(MaxCalls - Len(calls)) : \E requests \in [1..n -> Requests] : Answer(requests)
    BY <1>1 DEF SomeAnswer
  <2>2. n \in Nat
    BY CallsNumbered, CallsAssumption DEF Guarded, Books
  <2> QED BY <2>1, <2>2, AnswerGuarded
<1>2. CASE UNCHANGED vars
  <2>1. Books'
    BY <1>2, StepBooks DEF Guarded
  <2>2. InHand' = InHand /\ \A i : Batch(i)' = Batch(i) /\ Ahead(i)' = Ahead(i)
    BY <1>2 DEF vars, InHand, Batch, Ahead
  <2>3. Fresh' /\ Together'
    BY <1>2, <2>2 DEF vars, history, Guarded, Fresh, Together
  <2>4. \A r : Forbids(r)' = Forbids(r)
    BY <1>2 DEF vars, policy, Forbids
  <2>5. Steady'
    BY <1>2, <2>2, <2>4 DEF vars, policy, history, Guarded, Steady
  <2> QED BY <2>1, <2>3, <2>5 DEF Guarded
<1>3. CASE \E i \in DOMAIN calls :
             \/ Authorize(i) \/ Ask(i) \/ Unasked(i) \/ Begin(i) \/ Return(i) \/ Fail(i) \/ Unwind(i)
             \/ \E r \in {"allow_once", "allow_always", "reject"} : Reply(i, r)
  BY <1>3, TaskGuarded, TaskTogether DEF Guarded, Books
<1> QED BY <1>1, <1>2, <1>3, StreamGuarded DEF Next

\* At first there is nothing to guard.
LEMMA InitGuarded == Init => Guarded /\ Together
<1> SUFFICES ASSUME Init PROVE Guarded /\ Together
  OBVIOUS
<1>1. Books /\ Len(calls) = 0 /\ first = 1
  BY InitBooks, EmptySeq DEF Init
<1>2. DOMAIN calls = {} /\ InHand = {}
  <2>1. DOMAIN calls = {}
    BY <1>1, LenProperties DEF Books, TypeOK
  <2> QED BY <1>1, <2>1 DEF InHand
<1> QED BY <1>1, <1>2 DEF Init, Guarded, Fresh, Steady, Together

\* No tool begins against the plan mode or a deny rule, but on a grant and on
\* what changed while its answer was in hand.
THEOREM NothingForbiddenBegins == Spec => []Forbidden
<1>1. Guarded /\ Together => Forbidden
  BY DEF Guarded, Steady, Forbidden, Tolerates, Books, TypeOK, AllDepartures
<1> QED BY <1>1, InitGuarded, StepGuarded, PTL DEF Spec

-----------------------------------------------------------------------------
(* Calls that are not safe run alone                                       *)

\* Unless a second cancel left tasks behind: only calls in hand are active, and
\* a call that waits no more has seen the end of those it may not run beside.
Staged ==
  "again" \notin departs =>
    /\ \A i \in DOMAIN calls : IsActive(i) => i \in InHand /\ phase # "idle"
    /\ \A i, j \in InHand :
         i < j /\ ~({calls[i], calls[j]} \subseteq Safe) /\ step[j] # "waiting" => IsOver(i)

\* It is kept by a step that starts no call and takes back no end.
LEMMA StagedKept ==
  ASSUME TypeOK, Staged, UNCHANGED <<calls, first>>, departs \subseteq departs',
         \A i \in DOMAIN calls : /\ IsActive(i)' => IsActive(i)
                                 /\ step'[i] = "waiting" <=> step[i] = "waiting"
                                 /\ IsOver(i) => IsOver(i)',
         \/ "again" \in departs' \/ phase' # "idle" \/ phase = "idle"
         \/ \A i \in InHand : ~IsActive(i)
  PROVE  Staged'
<1>1. InHand' = InHand /\ InHand \subseteq DOMAIN calls
  BY CallsNumbered DEF InHand
<1> SUFFICES ASSUME "again" \notin departs' PROVE Staged'
  BY DEF Staged
<1>2. \A i \in DOMAIN calls : IsActive(i)' => i \in InHand /\ phase' # "idle"
  BY DEF Staged
<1>3. ASSUME NEW i \in InHand, NEW j \in InHand, i < j,
             ~({calls[i], calls[j]} \subseteq Safe), step'[j] # "waiting"
      PROVE  IsOver(i)'
  BY <1>1, <1>3 DEF Staged
<1> QED BY <1>1, <1>2, <1>3 DEF Staged

\* A batch starts when all before it is over, and its own calls are safe.
LEMMA BatchStaged ==
  ASSUME TypeOK, Together, Staged, StartBatch
  PROVE  Staged'
<1>1. /\ step \in [DOMAIN calls -> Steps] /\ InHand \subseteq DOMAIN calls
      /\ first \in Nat /\ \A i \in InHand : i \in Nat /\ first <= i
  BY CallsNumbered DEF TypeOK, InHand
<1>2. /\ UNCHANGED <<calls, first, phase, departs>> /\ phase = "tools" /\ InHand' = InHand
  BY DEF StartBatch, Plain, InHand
<1>3. PICK i \in InHand :
        /\ step[i] = "waiting" /\ \A j \in first..(i - 1) : IsOver(j)
        /\ step' = [j \in DOMAIN step |->
             IF j \notin Batch(i) THEN step[j]
             ELSE IF calls[j] \in Unknown THEN "put" ELSE "created"]
  BY DEF StartBatch
<1>4. \A j \in DOMAIN calls \ Batch(i) : step'[j] = step[j]
  BY <1>1, <1>3
<1>5. Batch(i) \subseteq InHand /\ \A j \in Batch(i) : ~IsOver(j)
  BY <1>3, BatchInHand DEF Together, IsOver
<1>6. \A j \in InHand : IsOver(j) => IsOver(j)'
  BY <1>1, <1>4, <1>5 DEF IsOver
<1> SUFFICES ASSUME "again" \notin departs PROVE Staged'
  BY <1>2 DEF Staged
<1>7. \A j \in DOMAIN calls : IsActive(j)' => j \in InHand
  BY <1>4, <1>5 DEF Staged, IsActive
<1>8. ASSUME NEW k \in InHand, NEW j \in InHand, k < j,
             ~({calls[k], calls[j]} \subseteq Safe), step'[j] # "waiting"
      PROVE  IsOver(k)'
  <2>1. CASE j \notin Batch(i)
    BY <1>1, <1>4, <1>6, <1>8, <2>1 DEF Staged
  <2>2. CASE j \in Batch(i) /\ k < i
    BY <1>1, <1>3, <1>6, <2>2
  <2>3. CASE j \in Batch(i) /\ i <= k
    <3>1. calls[k] \in Safe /\ calls[j] \in Safe
      BY <1>1, <1>8, <2>3 DEF Batch
    <3> QED BY <1>8, <3>1
  <2> QED BY <1>1, <2>1, <2>2, <2>3
<1> QED BY <1>2, <1>7, <1>8 DEF Staged

\* No call is active when an answer comes, and its own calls wait.
LEMMA AnswerStaged ==
  ASSUME TypeOK, Staged, NEW n \in Nat, NEW requests \in [1..n -> Requests], Answer(requests)
  PROVE  Staged'
<1> DEFINE m == Len(calls)
<1>1. m \in Nat /\ DOMAIN calls = 1..m /\ calls \in Seq(Requests)
  BY CallsNumbered DEF TypeOK
<1>2. DOMAIN calls' = 1..(m + n) /\ InHand' = (m + 1)..(m + n)
  <2>1. calls' = calls \o requests /\ first' = m + 1
    BY DEF Answer
  <2>2. calls' \in Seq(Requests) /\ Len(calls') = m + n
    BY <1>1, <2>1, Followed
  <2> QED BY <2>1, <2>2, LenProperties DEF InHand
<1>3. /\ step \in [1..m -> Steps] /\ "waiting" \in Steps
      /\ step' = step \o [i \in 1..n |-> "waiting"]
  BY <1>1 DEF Answer, TypeOK, Steps
<1> HIDE DEF m
<1>4. \A i \in 1..m : step'[i] = step[i]
  BY <1>1, <1>3, ContinuedBefore
<1>5. \A i \in (m + 1)..(m + n) : step'[i] = "waiting"
  BY <1>1, <1>3, ContinuedAt
<1> SUFFICES ASSUME "again" \notin departs' PROVE Staged'
  BY DEF Staged
<1>6. phase = "idle" /\ "again" \notin departs
  BY DEF Answer, Departs
<1>7. ASSUME NEW i \in 1..(m + n) PROVE ~IsActive(i)'
  <2>1. CASE i \in 1..m
    BY <1>1, <1>4, <1>6, <2>1 DEF Staged, IsActive
  <2>2. CASE i \in (m + 1)..(m + n)
    BY <1>5, <2>2 DEF IsActive
  <2> QED BY <1>1, <2>1, <2>2
<1> QED BY <1>2, <1>5, <1>7 DEF Staged

\* Every step keeps the calls apart.
LEMMA StepStaged == Guarded /\ Together /\ Staged /\ [Next]_vars => Staged'
<1> SUFFICES ASSUME Guarded, Together, Staged, [Next]_vars PROVE Staged'
  OBVIOUS
<1>1. TypeOK /\ step \in [DOMAIN calls -> Steps]
  BY DEF Guarded, Books, TypeOK
<1>2. CASE SomeAnswer
  <2>1. PICK n \in 1..(MaxCalls - Len(calls)) : \E requests \in [1..n -> Requests] : Answer(requests)
    BY <1>2 DEF SomeAnswer
  <2>2. n \in Nat
    BY <1>1, CallsNumbered, CallsAssumption
  <2> QED BY <1>1, <2>1, <2>2, AnswerStaged
<1>3. CASE UNCHANGED vars
  BY <1>1, <1>3, StagedKept DEF vars, IsActive, IsOver
<1>4. ASSUME NEW i \in DOMAIN calls,
             \/ Authorize(i) \/ Ask(i) \/ Unasked(i) \/ Begin(i) \/ Return(i) \/ Fail(i) \/ Unwind(i)
             \/ Collect(i)
             \/ \E r \in {"allow_once", "allow_always", "reject"} : Reply(i, r)
      PROVE  Staged'
  <2>1. UNCHANGED <<calls, first, phase>> /\ departs \subseteq departs'
    BY <1>4 DEF Authorize, Ask, Unasked, Begin, Return, Fail, Unwind, Reply, Collect, Unmoved,
                Plain, Departs
  <2>2. PICK s \in {"put", "lost", "asking", "asked", "cleared", "running", "collected"} :
          /\ step' = [step EXCEPT ![i] = s]
          /\ IsActive(i) \/ s = "collected"
    BY <1>4 DEF Authorize, Ask, Unasked, Begin, Return, Fail, Unwind, Reply, Collect, Becomes,
                IsActive
  <2>3. step[i] # "waiting" /\ ~IsOver(i)
    BY <1>4 DEF Authorize, Ask, Unasked, Begin, Return, Fail, Unwind, Reply, Collect, IsActive, IsOver
  <2>4. \A j \in DOMAIN calls : /\ IsActive(j)' => IsActive(j)
                                /\ step'[j] = "waiting" <=> step[j] = "waiting"
                                /\ IsOver(j) => IsOver(j)'
    BY <1>1, <2>2, <2>3 DEF IsActive, IsOver
  <2> QED BY <1>1, <2>1, <2>4, StagedKept
<1>5. CASE \/ EndStream \/ Cancel \/ Closed \/ CancelAgain
           \/ \E m \in Modes : SetMode(m)
           \/ \E r \in Deniable : Deny(r)
  <2>1. UNCHANGED <<calls, first, step>> /\ departs \subseteq departs'
    BY <1>5 DEF EndStream, Cancel, Closed, CancelAgain, Close, SetMode, Deny, Plain, Departs
  <2>2. \/ "again" \in departs' \/ phase' # "idle" \/ phase = "idle"
        \/ \A i \in InHand : ~IsActive(i)
    BY <1>5 DEF EndStream, Cancel, Closed, CancelAgain, SetMode, Deny, IsOver, IsActive
  <2>3. \A j \in DOMAIN calls : /\ IsActive(j)' => IsActive(j)
                                /\ step'[j] = "waiting" <=> step[j] = "waiting"
                                /\ IsOver(j) => IsOver(j)'
    BY <2>1 DEF IsActive, IsOver
  <2> QED BY <1>1, <2>1, <2>2, <2>3, StagedKept
<1> QED BY <1>1, <1>2, <1>3, <1>4, <1>5, BatchStaged DEF Next

\* At first there are no calls.
LEMMA InitStaged == Init => Staged
<1> SUFFICES ASSUME Init PROVE Staged
  OBVIOUS
<1>1. DOMAIN calls = {}
  BY InitBooks, EmptySeq, LenProperties DEF Init, Books, TypeOK
<1>2. InHand = {}
  BY <1>1, InitBooks, CallsNumbered DEF Books
<1> QED BY <1>1, <1>2 DEF Staged

\* Two calls of which one is not safe never run side by side, nor out of order,
\* for any answers, batches and permits, unless a turn is cancelled twice.
THEOREM UnsafeRunsAlone == Spec => []Ordered
<1>1. Guarded /\ Staged => Ordered
  <2> SUFFICES ASSUME Guarded, Staged, "again" \notin departs,
                      NEW i \in DOMAIN calls, NEW j \in DOMAIN calls,
                      i < j, ~({calls[i], calls[j]} \subseteq Safe),
                      IsActive(j) \/ step[j] = "put"
               PROVE  ~IsActive(i) /\ (i \in InHand => IsOver(i))
    BY DEF Ordered, Tolerates
  <2>1. /\ DOMAIN calls = 1..Len(calls) /\ Len(calls) \in Nat /\ first \in Nat
    BY CallsNumbered DEF Guarded, Books
  <2>2. i \in InHand => j \in InHand
    BY <2>1 DEF InHand
  <2>3. step[j] # "waiting"
    BY DEF IsActive
  <2>4. i \in InHand => IsOver(i)
    BY <2>2, <2>3 DEF Staged
  <2>5. IsOver(i) => ~IsActive(i)
    BY DEF IsOver, IsActive
  <2> QED BY <2>4, <2>5 DEF Staged
<1> QED BY <1>1, InitGuarded, InitStaged, StepGuarded, StepStaged, PTL DEF Spec

-----------------------------------------------------------------------------
(* What the history says of the calls                                      *)

\* Whatever the stream has collected is among its results.
Collected == phase = "tools" => \A i \in InHand : step[i] = "collected" => i \in results

\* The calls of earlier answers are told, and those in hand will have results.
Answered ==
  "unasked" \notin departs /\ "failure" \notin departs =>
    /\ \A i \in DOMAIN calls : i \notin InHand \/ phase = "idle" => told[i] # "open"
    /\ phase = "tools" => \A i \in InHand : step[i] # "lost"

\* A tool that ran to its end has put its result, and that is what is told.
Honest ==
  "cancel" \notin departs /\ "again" \notin departs /\ "failure" \notin departs =>
    /\ phase # "closing"
    /\ \A i \in effects : i \notin InHand \/ phase = "idle" => told[i] = "result"
    /\ \A i \in effects \cap InHand : step[i] \in {"put", "collected"}

Telling == Collected /\ Answered /\ Honest

\* Nothing is told of a new answer's calls.
LEMMA AnswerTelling ==
  ASSUME TypeOK, Telling, NEW n \in Nat, NEW requests \in [1..n -> Requests], Answer(requests)
  PROVE  Telling'
<1> DEFINE m == Len(calls)
<1>1. m \in Nat /\ DOMAIN calls = 1..m /\ calls \in Seq(Requests) /\ effects \subseteq 1..m
  BY CallsNumbered DEF TypeOK
<1>2. /\ DOMAIN calls' = 1..(m + n) /\ InHand' = (m + 1)..(m + n)
      /\ phase = "idle" /\ phase' = "tools" /\ effects' = effects /\ departs \subseteq departs'
  <2>1. calls' = calls \o requests /\ first' = m + 1
    BY DEF Answer
  <2>2. calls' \in Seq(Requests) /\ Len(calls') = m + n
    BY <1>1, <2>1, Followed
  <2> QED BY <2>1, <2>2, LenProperties DEF Answer, InHand, Departs
<1>3. DOMAIN requests = 1..n
  OBVIOUS
<1>4. /\ step \in [1..m -> Steps] /\ "waiting" \in Steps
      /\ step' = step \o [i \in 1..n |-> "waiting"]
  BY <1>1, <1>3 DEF Answer, TypeOK, Steps
<1>5. /\ told \in [1..m -> {"open", "result", "interrupted"}]
      /\ told' = told \o [i \in 1..n |-> "open"]
  BY <1>1, <1>3 DEF Answer, TypeOK
<1> HIDE DEF m
<1>6. \A i \in (m + 1)..(m + n) : step'[i] = "waiting"
  BY <1>1, <1>4, ContinuedAt
<1>7. \A i \in 1..m : told'[i] = told[i]
  BY <1>1, <1>5, ContinuedBefore
<1>8. \A i \in 1..(m + n) : i \in 1..m \/ i \in (m + 1)..(m + n)
  BY <1>1
<1>9. \A i \in 1..m : i \notin (m + 1)..(m + n)
  BY <1>1
<1>10. Collected' /\ Answered'
  BY <1>1, <1>2, <1>6, <1>7, <1>8 DEF Telling, Collected, Answered
<1>11. Honest'
  BY <1>1, <1>2, <1>7, <1>9 DEF Telling, Honest
<1> QED BY <1>10, <1>11 DEF Telling

\* The steps of a call's task: it loses no result but by a departure.
LEMMA TaskTelling ==
  ASSUME TypeOK, Telling, Staged, NEW i \in DOMAIN calls,
         \/ Authorize(i) \/ Ask(i) \/ Unasked(i) \/ Begin(i) \/ Return(i) \/ Fail(i) \/ Unwind(i)
         \/ \E r \in {"allow_once", "allow_always", "reject"} : Reply(i, r)
  PROVE  Telling'
<1>1. UNCHANGED <<calls, first, phase, results, told>> /\ departs \subseteq departs' /\ InHand' = InHand
  BY DEF Authorize, Ask, Unasked, Begin, Return, Fail, Unwind, Reply, Unmoved, Plain, Departs, InHand
<1>2. step \in [DOMAIN calls -> Steps] /\ InHand \subseteq DOMAIN calls
  BY CallsNumbered DEF TypeOK
<1>3. PICK s \in {"put", "lost", "asking", "asked", "cleared", "running"} :
        /\ step' = [step EXCEPT ![i] = s]
        /\ s = "lost" => Unasked(i) \/ Fail(i) \/ Unwind(i)
  BY DEF Authorize, Ask, Unasked, Begin, Return, Fail, Unwind, Reply, Becomes
<1>4. IsActive(i)
  BY DEF Authorize, Ask, Unasked, Begin, Return, Fail, Unwind, Reply, IsActive
<1>5. Collected'
  BY <1>1, <1>2, <1>3 DEF Telling, Collected
<1>6. Answered'
  <2> SUFFICES ASSUME "unasked" \notin departs', "failure" \notin departs' PROVE Answered'
    BY DEF Answered
  <2>1. \A j \in DOMAIN calls : j \notin InHand \/ phase = "idle" => told[j] # "open"
    BY <1>1 DEF Telling, Answered
  <2>2. phase = "tools" /\ i \in InHand => s # "lost"
    <3>1. ~Unasked(i) /\ ~Fail(i)
      BY DEF Unasked, Fail, Departs
    <3>2. Unwind(i) => ~(phase = "tools" /\ i \in InHand)
      BY CallsNumbered DEF Unwind, InHand
    <3> QED BY <1>3, <3>1, <3>2
  <2>3. phase = "tools" => \A j \in InHand : step'[j] # "lost"
    BY <1>1, <1>2, <1>3, <2>2 DEF Telling, Answered
  <2> QED BY <1>1, <2>1, <2>3 DEF Answered
<1>7. Honest'
  <2> SUFFICES ASSUME "cancel" \notin departs', "again" \notin departs', "failure" \notin departs'
               PROVE  Honest'
    BY DEF Honest
  <2>1. /\ phase # "closing"
        /\ \A j \in effects : j \notin InHand \/ phase = "idle" => told[j] = "result"
        /\ \A j \in effects \cap InHand : step[j] \in {"put", "collected"}
    BY <1>1 DEF Telling, Honest
  <2>2. i \in InHand /\ phase = "tools"
    BY <1>1, <1>4, <2>1 DEF Staged, TypeOK
  <2>3. ~Fail(i) /\ ~Unwind(i)
    BY <2>2, CallsNumbered DEF Fail, Departs, Unwind, InHand
  <2>4. effects' = effects \/ (effects' = effects \cup {i} /\ s = "put")
    <3>1. CASE Return(i)
      <4>1. step'[i] = "put"
        BY <1>2, <3>1 DEF Return, Becomes
      <4> QED BY <1>2, <1>3, <3>1, <4>1 DEF Return
    <3>2. CASE ~Return(i)
      BY <2>3, <3>2 DEF Authorize, Ask, Unasked, Begin, Reply
    <3> QED BY <3>1, <3>2
  <2>5. i \notin effects
    BY <1>4, <2>1, <2>2 DEF IsActive
  <2>6. \A j \in effects' \cap InHand : step'[j] \in {"put", "collected"}
    BY <1>2, <1>3, <2>1, <2>4, <2>5
  <2>7. \A j \in effects' : j \notin InHand \/ phase = "idle" => told[j] = "result"
    BY <2>1, <2>2, <2>4
  <2> QED BY <1>1, <2>1, <2>6, <2>7 DEF Honest
<1> QED BY <1>5, <1>6, <1>7 DEF Telling

\* The steps of the stream, and those around it.
LEMMA StreamTelling ==
  ASSUME TypeOK, Telling, Together,
         \/ StartBatch \/ EndStream \/ Cancel \/ Closed \/ CancelAgain
         \/ \E i \in DOMAIN calls : Collect(i)
         \/ \E m \in Modes : SetMode(m)
         \/ \E r \in Deniable : Deny(r)
         \/ UNCHANGED vars
  PROVE  Telling'
<1>1. UNCHANGED <<calls, first, effects>> /\ departs \subseteq departs' /\ InHand' = InHand
  BY DEF StartBatch, EndStream, Cancel, Closed, CancelAgain, Close, Collect, SetMode, Deny,
         vars, history, Plain, Departs, InHand
<1>2. /\ step \in [DOMAIN calls -> Steps] /\ InHand \subseteq DOMAIN calls
      /\ told \in [DOMAIN calls -> {"open", "result", "interrupted"}]
      /\ effects \subseteq DOMAIN calls /\ results \subseteq InHand
  BY CallsNumbered DEF TypeOK
<1>3. CASE StartBatch
  <2>1. UNCHANGED <<phase, told, results>> /\ phase = "tools"
    BY <1>3 DEF StartBatch, history
  <2>2. \A j \in DOMAIN calls : step'[j] = step[j]
                                \/ (step[j] = "waiting" /\ step'[j] \in {"put", "created"})
    <3>1. \A j \in DOMAIN calls : step'[j] = step[j] \/ step'[j] \in {"put", "created"}
      BY <1>2, <1>3 DEF StartBatch
    <3> QED BY <1>3, <3>1, BatchTogether
  <2> QED BY <1>1, <1>2, <2>1, <2>2 DEF Telling, Collected, Answered, Honest
<1>4. CASE \E i \in DOMAIN calls : Collect(i)
  <2>1. PICK i \in DOMAIN calls : Collect(i)
    BY <1>4
  <2>2. /\ UNCHANGED <<phase, told>> /\ phase = "tools" /\ results' = results \cup {i}
        /\ step' = [step EXCEPT ![i] = "collected"]
    BY <2>1 DEF Collect, history
  <2> QED BY <1>1, <1>2, <2>2 DEF Telling, Collected, Answered, Honest
<1>5. CASE EndStream
  <2>1. /\ UNCHANGED <<step, departs>> /\ phase = "tools" /\ phase' = "idle"
        /\ \A i \in DOMAIN calls : told'[i] = IF i \in results THEN "result" ELSE told[i]
        /\ \A i \in InHand : IsOver(i)
    BY <1>2, <1>5 DEF EndStream, Plain
  <2>2. Answered'
    <3> SUFFICES ASSUME "unasked" \notin departs, "failure" \notin departs,
                        NEW i \in DOMAIN calls
                 PROVE  told'[i] # "open"
      BY <1>1, <2>1 DEF Answered
    <3>1. CASE i \in InHand
      <4>1. step[i] = "collected"
        BY <2>1, <3>1 DEF Telling, Answered, IsOver
      <4> QED BY <2>1, <3>1, <4>1 DEF Telling, Collected
    <3>2. CASE i \notin InHand
      BY <2>1, <3>2 DEF Telling, Answered
    <3> QED BY <3>1, <3>2
  <2>3. Honest'
    <3> SUFFICES ASSUME "cancel" \notin departs, "again" \notin departs, "failure" \notin departs
                 PROVE  Honest'
      BY <2>1 DEF Honest
    <3>1. ASSUME NEW i \in effects PROVE told'[i] = "result"
      <4>1. CASE i \in InHand
        <5>1. step[i] = "collected"
          BY <2>1, <4>1 DEF Telling, Honest, IsOver
        <5> QED BY <1>2, <2>1, <4>1, <5>1 DEF Telling, Collected
      <4>2. CASE i \notin InHand
        BY <1>2, <2>1, <4>2 DEF Telling, Honest
      <4> QED BY <4>1, <4>2
    <3> QED BY <1>1, <2>1, <3>1 DEF Telling, Honest
  <2> QED BY <2>1, <2>2, <2>3 DEF Telling, Collected
<1>6. CASE Closed \/ CancelAgain
  <2>1. /\ step' = step /\ phase = "closing" /\ phase' = "idle"
        /\ \A i \in DOMAIN calls : told'[i] = IF i \in InHand THEN "interrupted" ELSE told[i]
    BY <1>2, <1>6 DEF Closed, CancelAgain, Close
  <2> QED BY <1>1, <1>2, <2>1 DEF Telling, Collected, Answered, Honest
<1>7. CASE Cancel
  BY <1>1, <1>7 DEF Cancel, Departs, history, Telling, Collected, Answered, Honest
<1>8. CASE \/ \E m \in Modes : SetMode(m)
           \/ \E r \in Deniable : Deny(r)
           \/ UNCHANGED vars
  <2>1. UNCHANGED <<phase, step, results, told>>
    BY <1>8 DEF SetMode, Deny, vars, history
  <2> QED BY <1>1, <2>1 DEF Telling, Collected, Answered, Honest
<1> QED BY <1>3, <1>4, <1>5, <1>6, <1>7, <1>8

\* There is nothing to tell at first.
LEMMA InitTelling == Init => Telling
<1> SUFFICES ASSUME Init PROVE Telling
  OBVIOUS
<1>1. TypeOK /\ phase = "idle" /\ calls = <<>> /\ effects = {}
  BY InitBooks DEF Init, Books
<1>2. DOMAIN calls = {}
  BY <1>1, EmptySeq, LenProperties DEF TypeOK
<1> QED BY <1>1, <1>2 DEF Telling, Collected, Answered, Honest

\* Every step tells what happened to the calls.
LEMMA StepTelling == Guarded /\ Together /\ Staged /\ Telling /\ [Next]_vars => Telling'
<1> SUFFICES ASSUME Guarded, Together, Staged, Telling, [Next]_vars PROVE Telling'
  OBVIOUS
<1>1. TypeOK
  BY DEF Guarded, Books
<1>2. CASE SomeAnswer
  <2>1. PICK n \in 1..(MaxCalls - Len(calls)) : \E requests \in [1..n -> Requests] : Answer(requests)
    BY <1>2 DEF SomeAnswer
  <2>2. n \in Nat
    BY <1>1, CallsNumbered, CallsAssumption
  <2> QED BY <1>1, <2>1, <2>2, AnswerTelling
<1>3. CASE \E i \in DOMAIN calls :
             \/ Authorize(i) \/ Ask(i) \/ Unasked(i) \/ Begin(i) \/ Return(i) \/ Fail(i) \/ Unwind(i)
             \/ \E r \in {"allow_once", "allow_always", "reject"} : Reply(i, r)
  BY <1>1, <1>3, TaskTelling
<1> QED BY <1>1, <1>2, <1>3, StreamTelling DEF Next

\* When a turn goes on, every call of its answers is told of, whatever was
\* denied, blocked, raised or cancelled, unless an asked client went away or
\* something raised around a tool.
THEOREM EveryCallIsTold == Spec => []Told
<1>1. Telling => Told
  BY DEF Telling, Answered, Told, Tolerates, AllDepartures
<1> QED BY <1>1, InitGuarded, InitStaged, InitTelling, StepGuarded, StepStaged, StepTelling, PTL DEF Spec

\* A tool that ran to its end is told by its result, unless its turn was
\* cancelled or something raised around it.
THEOREM EffectsAreTold == Spec => []EffectsTold
<1>1. Telling => EffectsTold
  BY DEF Telling, Honest, EffectsTold, Tolerates, AllDepartures
<1> QED BY <1>1, InitGuarded, InitStaged, InitTelling, StepGuarded, StepStaged, StepTelling, PTL DEF Spec

=============================================================================
