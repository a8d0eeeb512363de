------------------------- MODULE ConversationLogProofs -------------------------
(***************************************************************************)
(* The history of a session and the log it is rebuilt from, for any number *)
(* of messages, retries, calls and departures.                             *)
(*                                                                         *)
(* The history that a log folds to, and what micro-compaction leaves of a  *)
(* history, are recursive functions; that they are functions at all is     *)
(* shown first, by induction over sets of naturals.  Then Shape has the    *)
(* values of the variables, Chain the parents, Steady what a reload gives, *)
(* Remembers the messages that the log has, Pairing the calls and results. *)
(***************************************************************************)
EXTENDS ConversationLog, Integers, SequenceTheorems, FiniteSetTheorems,
        WellFoundedInduction, TLAPS

\* The rows of a log.
Rows == [writer: {"turn", "user"}, messages: Seq(Messages), snapshot: BOOLEAN,
         state: {"open", "written", "failed"}, parent: Nat]

\* A set of naturals has a least element.
LEMMA LeastExists ==
  ASSUME NEW S, S \subseteq Nat, S # {}
  PROVE  \E x \in S : \A y \in S : x <= y
<1> DEFINE R == {p \in Nat \X Nat : p[1] < p[2]}
<1>1. IsWellFoundedOn(R, Nat)
  BY NatLessThanWellFounded DEF OpToRel
<1>2. \A x, y \in Nat : y < x => <<y, x>> \in R
  OBVIOUS
<1> HIDE DEF R
<1>3. PICK x \in S : \A y \in S : <<y, x>> \notin R
  BY <1>1, WFMin
<1>4. ASSUME NEW y \in S PROVE x <= y
  <2>1. x \in Nat /\ y \in Nat /\ <<y, x>> \notin R
    BY <1>3
  <2>2. ~(y < x)
    BY <1>2, <2>1
  <2> QED BY <2>1, <2>2
<1> QED BY <1>4

\* A bounded set of naturals has a greatest element.
LEMMA GreatestExists ==
  ASSUME NEW n \in Nat, NEW S, S \subseteq 0..n, S # {}
  PROVE  \E x \in S : \A y \in S : y <= x
<1> DEFINE D == {n - i : i \in S}
<1>1. \A i \in S : i \in Nat /\ n - i \in Nat
  OBVIOUS
<1>2. D \subseteq Nat
  BY <1>1
<1>3. D # {}
  OBVIOUS
<1>4. PICK d \in D : \A e \in D : d <= e
  <2> HIDE DEF D
  <2> QED BY <1>2, <1>3, LeastExists
<1>5. PICK x \in S : d = n - x
  OBVIOUS
<1>6. ASSUME NEW y \in S PROVE y <= x
  <2>1. n - x <= n - y
    BY <1>4, <1>5
  <2> QED BY <1>1, <2>1
<1> QED BY <1>6

\* Induction over the naturals, for a set in the place of a predicate.
LEMMA SetInduction ==
  ASSUME NEW S, 0 \in S, \A n \in S : n + 1 \in S, S \subseteq Nat
  PROVE  S = Nat
<1> SUFFICES ASSUME Nat \ S # {} PROVE FALSE
  OBVIOUS
<1>1. PICK x \in Nat \ S : \A y \in Nat \ S : x <= y
  BY LeastExists
<1>2. x # 0 /\ x - 1 \in Nat /\ ~(x <= x - 1) /\ (x - 1) + 1 = x
  OBVIOUS
<1>3. x - 1 \in S
  BY <1>1, <1>2
<1> QED BY <1>2, <1>3

\* The functions of F, applied to z one after the other.
Foldable(T, z, k, F) ==
  \E f \in [0..k -> T] : f[0] = z /\ \A i \in 1..k : f[i] = F[i][f[i - 1]]

\* A fold over the first k numbers is a function, which is found step by
\* step.
LEMMA FoldExists ==
  ASSUME NEW T, NEW z \in T, NEW k \in Nat, NEW F,
         \A i \in 1..k : \A x \in T : F[i][x] \in T
  PROVE  Foldable(T, z, k, F)
<1> DEFINE Good(m) == \E f \in [0..m -> T] : f[0] = z /\ \A i \in 1..m : f[i] = F[i][f[i - 1]]
           S == {m \in Nat : m <= k => Good(m)}
<1>1. Good(0)
  <2> DEFINE f == [i \in 0..0 |-> z]
  <2>1. f \in [0..0 -> T] /\ f[0] = z /\ 1..0 = {}
    OBVIOUS
  <2> HIDE DEF f
  <2> QED BY <2>1
<1>2. ASSUME NEW m \in Nat, m + 1 <= k, Good(m) PROVE Good(m + 1)
  <2>2. m + 1 \in 1..k
    BY <1>2
  <2>3. PICK f \in [0..m -> T] : f[0] = z /\ \A i \in 1..m : f[i] = F[i][f[i - 1]]
    BY <1>2
  <2> DEFINE g == [i \in 0..(m + 1) |-> IF i = m + 1 THEN F[m + 1][f[m]] ELSE f[i]]
  <2>4. F[m + 1][f[m]] \in T
    <3>1. f[m] \in T
      BY <2>3
    <3> QED BY <2>2, <3>1
  <2>5. g \in [0..(m + 1) -> T]
    BY <2>2, <2>4
  <2>6. g[0] = z
    BY <2>2, <2>3
  <2>7. \A i \in 1..(m + 1) : g[i] = F[i][g[i - 1]]
    <3> TAKE i \in 1..(m + 1)
    <3>1. CASE i = m + 1
      BY <2>2, <3>1
    <3>2. CASE i # m + 1
      <4>1. i \in 1..m /\ i - 1 \in 0..m /\ i - 1 # m + 1
        BY <2>2, <3>2
      <4> QED BY <2>2, <2>3, <4>1
    <3> QED BY <3>1, <3>2
  <2> HIDE DEF g
  <2> QED BY <2>5, <2>6, <2>7
<1> HIDE DEF Good
<1>3. 0 \in S
  BY <1>1
<1>4. \A m \in S : m + 1 \in S
  BY <1>2
<1>5. S = Nat
  <2> HIDE DEF S
  <2>1. S \subseteq Nat
    BY DEF S
  <2> QED BY <1>3, <1>4, <2>1, SetInduction
<1>6. Good(k)
  BY <1>5
<1> QED BY <1>6 DEF Good, Foldable

\* A sequence without its last element.
LEMMA FrontFacts ==
  ASSUME NEW S, NEW q \in Seq(S), q # <<>>
  PROVE  /\ Front(q) \in Seq(S) /\ Len(Front(q)) = Len(q) - 1
         /\ \A i \in 1..(Len(q) - 1) : Front(q)[i] = q[i]
         /\ Last(q) \in S /\ Last(q) = q[Len(q)] /\ Len(q) \in Nat \ {0}
<1>1. Len(q) \in Nat \ {0}
  BY EmptySeq
<1>2. PICK k \in Nat : k = Len(q) - 1 /\ k + 1 = Len(q)
  BY <1>1
<1>3. \A i \in 1..k : q[i] \in S
  BY <1>2, ElementOfSeq
<1>4. q[Len(q)] \in S
  BY <1>1, ElementOfSeq
<1>5. /\ SubSeq(q, 1, k) \in Seq(S)
      /\ Len(SubSeq(q, 1, k)) = IF 1 <= k THEN k - 1 + 1 ELSE 0
      /\ \A i \in 1..(k - 1 + 1) : SubSeq(q, 1, k)[i] = q[1 + i - 1]
  BY <1>3, SubSeqProperties
<1>6. Len(SubSeq(q, 1, k)) = k /\ \A i \in 1..k : SubSeq(q, 1, k)[i] = q[i]
  BY <1>5
<1>7. Front(q) = SubSeq(q, 1, k)
  BY <1>2 DEF Front
<1> QED BY <1>1, <1>2, <1>4, <1>5, <1>6, <1>7 DEF Last

\* A row applied to a history gives a history.
LEMMA ApplyTyped ==
  ASSUME NEW h \in Seq(Messages), NEW row, row.messages \in Seq(Messages)
  PROVE  Apply(h, row) \in Seq(Messages)
<1>1. h \o row.messages \in Seq(Messages)
  BY ConcatProperties
<1>2. h # <<>> => Front(h) \o row.messages \in Seq(Messages)
  BY FrontFacts, ConcatProperties
<1> QED BY <1>1, <1>2 DEF Apply

\* Replay folds the rows one after the other.
LEMMA ReplayUnfolds ==
  ASSUME NEW rows \in Seq(Rows)
  PROVE  /\ Replay(rows) \in [0..Len(rows) -> Seq(Messages)]
         /\ Replay(rows)[0] = <<>>
         /\ \A i \in 1..Len(rows) :
              Replay(rows)[i] = IF rows[i].state = "written"
                                THEN Apply(Replay(rows)[i - 1], rows[i])
                                ELSE Replay(rows)[i - 1]
<1> DEFINE n == Len(rows)
           H == Seq(Messages)
           st == [i \in 1..n |-> [h \in H |-> IF rows[i].state = "written" THEN Apply(h, rows[i]) ELSE h]]
           Is(f) == f = [i \in 0..n |-> IF i = 0 THEN <<>>
                          ELSE IF rows[i].state = "written" THEN Apply(f[i - 1], rows[i]) ELSE f[i - 1]]
<1>1. n \in Nat /\ <<>> \in H
  BY EmptySeq, LenProperties
<1>2. \A i \in 1..n : rows[i].messages \in H
  <2>1. \A i \in 1..n : rows[i] \in Rows
    BY ElementOfSeq
  <2>2. \A r \in Rows : r.messages \in H
    BY DEF Rows
  <2> QED BY <2>1, <2>2
<1>3. \A i \in 1..n : \A x \in H : st[i][x] \in H
  BY <1>2, ApplyTyped
<1>4. PICK f \in [0..n -> H] : f[0] = <<>> /\ \A i \in 1..n : f[i] = st[i][f[i - 1]]
  <2> DEFINE e == <<>>
  <2> HIDE DEF n, H, st, e
  <2>1. e \in H
    BY <1>1 DEF e
  <2>2. Foldable(H, e, n, st)
    BY <1>1, <1>3, <2>1, FoldExists
  <2> QED BY <2>2 DEF e, Foldable
<1>5. \A i \in 1..n : f[i] = IF rows[i].state = "written" THEN Apply(f[i - 1], rows[i]) ELSE f[i - 1]
  <2> TAKE i \in 1..n
  <2>1. f[i - 1] \in H
    BY <1>1, <1>4
  <2> QED BY <1>4, <2>1
<1>6. Is(f)
  <2>1. \A i \in 0..n : i = 0 \/ i \in 1..n
    BY <1>1
  <2> QED BY <1>4, <1>5, <2>1
<1>7. Is(Replay(rows))
  <2>1. Replay(rows) = CHOOSE g : Is(g)
    BY DEF Replay
  <2> HIDE DEF Is
  <2> QED BY <1>6, <2>1
<1> DEFINE h == Replay(rows)
<1>8. /\ DOMAIN h = 0..n /\ h[0] = <<>>
      /\ \A i \in 1..n : h[i] = IF rows[i].state = "written" THEN Apply(h[i - 1], rows[i]) ELSE h[i - 1]
  <2> HIDE DEF n, h
  <2>1. h = [i \in 0..n |-> IF i = 0 THEN <<>>
              ELSE IF rows[i].state = "written" THEN Apply(h[i - 1], rows[i]) ELSE h[i - 1]]
    BY <1>7 DEF h
  <2>2. \A i \in 1..n : i \in 0..n /\ i # 0
    BY <1>1
  <2>3. 0 \in 0..n
    BY <1>1
  <2> QED BY <2>1, <2>2, <2>3
<1>9. \A i \in 0..n : h[i] \in H
  <2> DEFINE S == {i \in Nat : i <= n => h[i] \in H}
  <2>1. 0 \in S
    BY <1>1, <1>8
  <2>2. ASSUME NEW i \in Nat, i + 1 <= n, h[i] \in H PROVE h[i + 1] \in H
    <3>1. i + 1 \in 1..n /\ (i + 1) - 1 = i
      BY <1>1, <2>2
    <3> HIDE DEF n, H, h
    <3>2. rows[i + 1].messages \in Seq(Messages) /\ h[i] \in Seq(Messages)
      BY <1>2, <2>2, <3>1 DEF H
    <3> QED BY <1>8, <3>1, <3>2, ApplyTyped DEF H
  <2>3. \A i \in S : i + 1 \in S
    <3> HIDE DEF n, H, h
    <3> QED BY <1>1, <2>2
  <2>4. S = Nat
    <3> HIDE DEF S
    <3>1. S \subseteq Nat
      BY DEF S
    <3> QED BY <2>1, <2>3, <3>1, SetInduction
  <2> QED BY <2>4
<1>10. h = [i \in 0..n |-> h[i]]
  BY <1>1, <1>7
<1>11. h \in [0..n -> H]
  BY <1>9, <1>10
<1> QED BY <1>8, <1>11

\* A longer log replays its first rows to the same histories.
LEMMA ReplayAgrees ==
  ASSUME NEW rows \in Seq(Rows), NEW more \in Seq(Rows), Len(rows) <= Len(more),
         \A i \in 1..Len(rows) : /\ rows[i].state = "written" <=> more[i].state = "written"
                                 /\ rows[i].messages = more[i].messages
                                 /\ rows[i].snapshot = more[i].snapshot
  PROVE  \A i \in 0..Len(rows) : Replay(rows)[i] = Replay(more)[i]
<1>1. Len(rows) \in Nat /\ Len(more) \in Nat
  BY LenProperties
<1> DEFINE n == Len(rows)
           S == {i \in Nat : i <= n => Replay(rows)[i] = Replay(more)[i]}
<1>2. 0 \in S
  BY ReplayUnfolds
<1>3. ASSUME NEW i \in Nat, i + 1 <= n, Replay(rows)[i] = Replay(more)[i]
      PROVE  Replay(rows)[i + 1] = Replay(more)[i + 1]
  <2>1. i + 1 \in 1..Len(rows) /\ i + 1 \in 1..Len(more) /\ (i + 1) - 1 = i
    BY <1>1, <1>3
  <2>2. Apply(Replay(rows)[i], rows[i + 1]) = Apply(Replay(more)[i], more[i + 1])
    BY <1>3, <2>1 DEF Apply
  <2>3. /\ Replay(rows)[i + 1] = IF rows[i + 1].state = "written"
                                 THEN Apply(Replay(rows)[i], rows[i + 1]) ELSE Replay(rows)[i]
        /\ Replay(more)[i + 1] = IF more[i + 1].state = "written"
                                 THEN Apply(Replay(more)[i], more[i + 1]) ELSE Replay(more)[i]
    BY <2>1, ReplayUnfolds
  <2> QED BY <1>3, <2>1, <2>2, <2>3
<1>4. \A i \in S : i + 1 \in S
  <2> HIDE DEF n
  <2> QED BY <1>1, <1>3 DEF n
<1>5. S = Nat
  <2> HIDE DEF S
  <2>1. S \subseteq Nat
    BY DEF S
  <2> QED BY <1>2, <1>4, <2>1, SetInduction
<1> QED BY <1>1, <1>5

\* What is reloaded is a history, one row more is applied to it, and it
\* depends on the written rows alone.
LEMMA ReloadFacts ==
  ASSUME NEW rows \in Seq(Rows)
  PROVE  /\ Reload(rows) \in Seq(Messages)
         /\ rows = <<>> => Reload(rows) = <<>>
         /\ \A row \in Rows : Reload(Append(rows, row)) =
              IF row.state = "written" THEN Apply(Reload(rows), row) ELSE Reload(rows)
         /\ \A more \in Seq(Rows) :
              /\ Len(rows) = Len(more)
              /\ \A i \in 1..Len(rows) : /\ rows[i].state = "written" <=> more[i].state = "written"
                                         /\ rows[i].messages = more[i].messages
                                         /\ rows[i].snapshot = more[i].snapshot
              => Reload(rows) = Reload(more)
<1>1. Len(rows) \in Nat
  BY LenProperties
<1>2. Reload(rows) \in Seq(Messages)
  BY <1>1, ReplayUnfolds DEF Reload
<1>3. rows = <<>> => Reload(rows) = <<>>
  BY EmptySeq, ReplayUnfolds DEF Reload
<1>4. ASSUME NEW row \in Rows
      PROVE  Reload(Append(rows, row)) =
               IF row.state = "written" THEN Apply(Reload(rows), row) ELSE Reload(rows)
  <2> DEFINE more == Append(rows, row)
  <2>1. more \in Seq(Rows) /\ Len(more) = Len(rows) + 1 /\ more[Len(rows) + 1] = row
        /\ \A i \in 1..Len(rows) : more[i] = rows[i]
    BY AppendProperties
  <2> HIDE DEF more
  <2>2. Replay(rows)[Len(rows)] = Replay(more)[Len(rows)]
    BY <1>1, <2>1, ReplayAgrees
  <2>3. Len(rows) + 1 \in 1..Len(more) /\ (Len(rows) + 1) - 1 = Len(rows)
    BY <1>1, <2>1
  <2>4. Replay(more)[Len(rows) + 1] =
          IF row.state = "written" THEN Apply(Replay(more)[Len(rows)], row) ELSE Replay(more)[Len(rows)]
    BY <2>1, <2>3, ReplayUnfolds
  <2> QED BY <2>1, <2>2, <2>4 DEF Reload, more
<1>5. ASSUME NEW more \in Seq(Rows), Len(rows) = Len(more),
             \A i \in 1..Len(rows) : /\ rows[i].state = "written" <=> more[i].state = "written"
                                     /\ rows[i].messages = more[i].messages
                                     /\ rows[i].snapshot = more[i].snapshot
      PROVE  Reload(rows) = Reload(more)
  BY <1>1, <1>5, ReplayAgrees DEF Reload
<1> QED BY <1>2, <1>3, <1>4, <1>5

\* The k-th greatest of a set of positions.
Ranked(U, k) == \E i \in U : Cardinality({j \in U : j >= i}) = k

\* A set with more than k numbers has one with k numbers from it upwards.
LEMMA RankedExists ==
  ASSUME NEW n \in Nat, NEW U, U \subseteq 1..n, NEW k \in Nat \ {0}, Cardinality(U) > k
  PROVE  Ranked(U, k)
<1> DEFINE From(i) == {j \in U : j >= i}
           P == {i \in 1..n : Cardinality(From(i)) >= k}
<1>0. \A i \in U : i \in Int /\ i >= 1 /\ i <= n
  <2> TAKE i \in U
  <2>1. i \in 1..n
    OBVIOUS
  <2> QED BY <2>1
<1>1. IsFiniteSet(U) /\ Cardinality(U) \in Nat
  <2>1. IsFiniteSet(1..n)
    BY FS_Interval
  <2> QED BY <2>1, FS_Subset, FS_CardinalityType
<1>2. \A i : IsFiniteSet(From(i)) /\ Cardinality(From(i)) \in Nat
  <2> TAKE i
  <2>1. From(i) \subseteq U
    OBVIOUS
  <2> HIDE DEF From
  <2> QED BY <1>1, <2>1, FS_Subset, FS_CardinalityType
<1>3. From(1) = U
  BY <1>0
<1>4. 1 \in P
  <2>1. U # {}
    BY <1>1, FS_EmptySet
  <2>2. 1 \in 1..n
    <3> PICK u \in U : TRUE
      BY <2>1
    <3>1. u \in Int /\ u >= 1 /\ u <= n
      BY <1>0
    <3> QED BY <3>1
  <2> HIDE DEF From
  <2> QED BY <1>1, <1>3, <2>2
<1>5. PICK m \in P : \A i \in P : i <= m
  <2>1. P # {}
    BY <1>4
  <2>2. P \subseteq 0..n
    <3> HIDE DEF From
    <3> QED OBVIOUS
  <2> HIDE DEF P
  <2> QED BY <2>1, <2>2, GreatestExists
<1>6. m \in 1..n /\ Cardinality(From(m)) >= k
  OBVIOUS
<1> HIDE DEF P
<1>a. m \in Int /\ 1 <= m /\ m <= n
  BY <1>6
<1>7. Cardinality(From(m + 1)) < k
  <2>1. CASE m + 1 \in 1..n
    <3>1. m + 1 \notin P
      BY <1>5, <1>a
    <3> HIDE DEF From
    <3> QED BY <1>2, <2>1, <3>1 DEF P
  <2>2. CASE m + 1 \notin 1..n
    <3>0. m = n
      BY <1>a, <2>2
    <3>1. \A j \in U : ~(j >= m + 1)
      BY <1>0, <1>a, <3>0
    <3>2. From(m + 1) = {}
      BY <3>1
    <3> HIDE DEF From
    <3> QED BY <3>2, FS_EmptySet
  <2> QED BY <2>1, <2>2
<1>8. m \in U
  <2> SUFFICES ASSUME m \notin U PROVE FALSE
    OBVIOUS
  <2>0. \A j \in U : j >= m <=> j >= m + 1
    <3> TAKE j \in U
    <3>1. j # m /\ j \in Int
      BY <1>0
    <3> QED BY <1>a, <3>1
  <2>1. From(m) = From(m + 1)
    BY <2>0
  <2> HIDE DEF From
  <2> QED BY <1>2, <1>6, <1>7, <2>1
<1>9. From(m) = From(m + 1) \cup {m} /\ m \notin From(m + 1)
  <2>1. \A j \in U : j >= m <=> j >= m + 1 \/ j = m
    <3> TAKE j \in U
    <3>1. j \in Int
      BY <1>0
    <3> QED BY <1>a, <3>1
  <2>2. ~(m >= m + 1)
    BY <1>a
  <2> QED BY <1>8, <2>1, <2>2, Zenon
<1>10. Cardinality(From(m)) = k
  <2> HIDE DEF From
  <2>1. Cardinality(From(m)) = Cardinality(From(m + 1)) + 1
    BY <1>2, <1>9, FS_AddElement
  <2> QED BY <1>2, <1>6, <1>7, <2>1
<1> QED BY <1>8, <1>10 DEF Ranked

\* The boundary is in the history and leaves something behind it.
LEMMA BoundaryFacts ==
  ASSUME NEW h \in Seq(Messages)
  PROVE  Boundary(h) \in 0..Len(h) /\ (Boundary(h) # Len(h) \/ Len(h) = 0)
<1>1. Len(h) \in Nat /\ DOMAIN h = 1..Len(h) /\ KeepRecent \in Nat \ {0}
  BY LenProperties, LogAssumption
<1> DEFINE users == UsersOf(h)
           n == Len(h)
<1>2. users \subseteq 1..n
  BY <1>1 DEF UsersOf
<1>3. IsFiniteSet(users) /\ Cardinality(users) \in Nat
  <2>1. IsFiniteSet(1..n)
    BY <1>1, FS_Interval
  <2> HIDE DEF users
  <2> QED BY <1>2, <2>1, FS_Subset, FS_CardinalityType
<1> HIDE DEF users
<1>4. CASE Cardinality(users) <= KeepRecent
  BY <1>1, <1>4 DEF Boundary, users
<1>5. CASE Cardinality(users) > KeepRecent
  <2> DEFINE b == CHOOSE i \in users : Cardinality({j \in users : j >= i}) = KeepRecent
  <2>1. \E i \in users : Cardinality({j \in users : j >= i}) = KeepRecent
    <3> HIDE DEF n
    <3>1. n \in Nat /\ Cardinality(users) > KeepRecent
      BY <1>1, <1>5 DEF n
    <3> HIDE DEF b, n
    <3>2. Ranked(users, KeepRecent)
      BY <1>1, <1>2, <3>1, RankedExists
    <3> QED BY <3>2 DEF Ranked
  <2>2. b \in users
    BY <2>1
  <2>3. Boundary(h) = b - 1
    BY <1>1, <1>3, <1>5 DEF Boundary, users
  <2> HIDE DEF b
  <2> QED BY <1>1, <1>2, <2>2, <2>3
<1> QED BY <1>1, <1>3, <1>4, <1>5

\* A summary is a message.
LEMMA SummaryTyped == Summary \in Messages
<1>1. 0 \in 0..MaxMessages
  BY LogAssumption
<1> QED BY <1>1 DEF Summary, Messages

\* A compacted history is a history.
LEMMA CompactedTyped ==
  ASSUME NEW h \in Seq(Messages), NEW b \in 0..Len(h)
  PROVE  Compacted(h, b) \in Seq(Messages)
<1>1. CASE b = 0
  BY <1>1 DEF Compacted
<1>2. CASE b # 0
  <2>1. Len(h) \in Nat /\ b + 1 \in 1..(Len(h) + 1)
    BY <1>2, LenProperties
  <2>2. \A i \in (b + 1)..Len(h) : h[i] \in Messages
    <3> TAKE i \in (b + 1)..Len(h)
    <3>1. i \in 1..Len(h)
      BY <2>1
    <3> QED BY <3>1, ElementOfSeq
  <2>3. SubSeq(h, b + 1, Len(h)) \in Seq(Messages)
    BY <2>1, <2>2, SubSeqProperties
  <2>4. <<Summary>> \in Seq(Messages)
    BY SummaryTyped
  <2> QED BY <1>2, <2>3, <2>4, ConcatProperties DEF Compacted
<1> QED BY <1>1, <1>2

\* Where remove_read_only_pairs leaves its note.
FirstOf(gone) == CHOOSE i \in gone : \A j \in gone : i <= j

\* Micro-compaction goes through the messages one after the other.
LEMMA NotedUnfolds ==
  ASSUME NEW h \in Seq(Messages), NEW gone
  PROVE  /\ \A i \in 0..Len(h) : Noted(h, gone)[i] \in Seq(Messages)
         /\ Noted(h, gone)[0] = <<>>
         /\ \A i \in 1..Len(h) :
              Noted(h, gone)[i] = IF i = FirstOf(gone) THEN Append(Noted(h, gone)[i - 1], Summary)
                                  ELSE IF i \in gone THEN Noted(h, gone)[i - 1]
                                  ELSE Append(Noted(h, gone)[i - 1], h[i])
<1> DEFINE n == Len(h)
           H == Seq(Messages)
           first == FirstOf(gone)
           st == [i \in 1..n |-> [q \in H |-> IF i = first THEN Append(q, Summary)
                                              ELSE IF i \in gone THEN q ELSE Append(q, h[i])]]
           Is(f) == f = [i \in 0..n |-> IF i = 0 THEN <<>>
                          ELSE IF i = first THEN Append(f[i - 1], Summary)
                          ELSE IF i \in gone THEN f[i - 1]
                          ELSE Append(f[i - 1], h[i])]
<1>1. n \in Nat /\ <<>> \in H
  BY EmptySeq, LenProperties
<1>2. \A i \in 1..n : h[i] \in Messages
  BY ElementOfSeq
<1>3. \A i \in 1..n : \A x \in H : st[i][x] \in H
  <2> TAKE i \in 1..n
  <2> TAKE x \in H
  <2>1. Append(x, Summary) \in H /\ Append(x, h[i]) \in H
    BY <1>2, SummaryTyped, AppendProperties
  <2> HIDE DEF first, H
  <2> QED BY <2>1
<1> HIDE DEF first
<1>4. PICK f \in [0..n -> H] : f[0] = <<>> /\ \A i \in 1..n : f[i] = st[i][f[i - 1]]
  <2> DEFINE e == <<>>
  <2> HIDE DEF n, H, st, e
  <2>1. e \in H
    BY <1>1 DEF e
  <2>2. Foldable(H, e, n, st)
    BY <1>1, <1>3, <2>1, FoldExists
  <2> QED BY <2>2 DEF e, Foldable
<1>5. \A i \in 1..n : f[i] = IF i = first THEN Append(f[i - 1], Summary)
                             ELSE IF i \in gone THEN f[i - 1] ELSE Append(f[i - 1], h[i])
  <2> TAKE i \in 1..n
  <2>1. f[i - 1] \in H
    BY <1>1, <1>4
  <2> HIDE DEF H
  <2> QED BY <1>4, <2>1
<1>6. Is(f)
  <2>1. \A i \in 0..n : i = 0 \/ i \in 1..n
    BY <1>1
  <2> QED BY <1>4, <1>5, <2>1
<1>7. Is(Noted(h, gone))
  <2>1. Noted(h, gone) = CHOOSE g : Is(g)
    BY DEF Noted, first, FirstOf
  <2> HIDE DEF Is
  <2> QED BY <1>6, <2>1
<1> DEFINE r == Noted(h, gone)
<1>8. /\ r[0] = <<>>
      /\ \A i \in 1..n : r[i] = IF i = first THEN Append(r[i - 1], Summary)
                                ELSE IF i \in gone THEN r[i - 1] ELSE Append(r[i - 1], h[i])
  <2> HIDE DEF n, r
  <2>1. r = [i \in 0..n |-> IF i = 0 THEN <<>>
              ELSE IF i = first THEN Append(r[i - 1], Summary)
              ELSE IF i \in gone THEN r[i - 1] ELSE Append(r[i - 1], h[i])]
    BY <1>7 DEF r
  <2>2. \A i \in 1..n : i \in 0..n /\ i # 0
    BY <1>1
  <2>3. 0 \in 0..n
    BY <1>1
  <2> QED BY <2>1, <2>2, <2>3
<1> DEFINE S == {i \in Nat : i <= n => r[i] \in H}
<1>9. 0 \in S
  BY <1>1, <1>8
<1>10. ASSUME NEW i \in Nat, i + 1 <= n, r[i] \in H PROVE r[i + 1] \in H
  <2>1. i + 1 \in 1..n /\ (i + 1) - 1 = i
    BY <1>1, <1>10
  <2>2. h[i + 1] \in Messages
    BY <1>2, <2>1
  <2>3. Append(r[i], Summary) \in H /\ Append(r[i], h[i + 1]) \in H
    <3> HIDE DEF r
    <3> QED BY <1>10, <2>2, SummaryTyped, AppendProperties
  <2> HIDE DEF n, H, r
  <2> QED BY <1>8, <1>10, <2>1, <2>3
<1>11. \A i \in S : i + 1 \in S
  <2> HIDE DEF n, H, r
  <2> QED BY <1>1, <1>10
<1>12. S = Nat
  <2> HIDE DEF S
  <2>1. S \subseteq Nat
    BY DEF S
  <2> QED BY <1>9, <1>11, <2>1, SetInduction
<1> QED BY <1>1, <1>8, <1>12 DEF first

\* A micro-compacted history is a history.
LEMMA MicrocompactedTyped ==
  ASSUME NEW h \in Seq(Messages)
  PROVE  Microcompacted(h) \in Seq(Messages)
<1>1. Len(h) \in 0..Len(h)
  BY LenProperties
<1>2. Noted(h, Pairs(h))[Len(h)] \in Seq(Messages)
  BY <1>1, NotedUnfolds
<1> QED BY <1>2 DEF Microcompacted

-----------------------------------------------------------------------------
(* The rows of a log                                                       *)

\* Logs: a row names an earlier one, and a message is written by itself.
LogRows == {l \in Seq(Rows) : \A i \in 1..Len(l) :
              l[i].parent \in 0..(i - 1) /\ (l[i].snapshot \/ Len(l[i].messages) = 1)}

\* What the model says of its log, said of any.
OpenIn(l, w)  == {i \in 1..Len(l) : l[i].state = "open" /\ l[i].writer = w}
WrittenIn(l)  == {i \in 1..Len(l) : l[i].state = "written"}
SettledOf(l, t) == [i \in DOMAIN l |-> [l[i] EXCEPT !.state = IF @ = "open" THEN t ELSE @]]
BecomeOf(l, i, s) == [l EXCEPT ![i].state = s]
AfterOf(l)    == Reload(SettledOf(l, "written"))

\* Two logs that differ in the states of their rows only.
Alike(l, k) ==
  /\ Len(l) = Len(k)
  /\ \A i \in 1..Len(l) : /\ l[i].writer = k[i].writer /\ l[i].messages = k[i].messages
                          /\ l[i].snapshot = k[i].snapshot /\ l[i].parent = k[i].parent

\* The rows of a log have their fields.
LEMMA LogRowsFacts ==
  ASSUME NEW l \in LogRows
  PROVE  /\ l \in Seq(Rows) /\ Len(l) \in Nat /\ DOMAIN l = 1..Len(l)
         /\ \A i \in 1..Len(l) :
              /\ l[i] \in Rows /\ l[i].parent \in 0..(i - 1)
              /\ l[i].snapshot \/ Len(l[i].messages) = 1
              /\ l[i].writer \in {"turn", "user"} /\ l[i].messages \in Seq(Messages)
              /\ l[i].snapshot \in BOOLEAN /\ l[i].state \in {"open", "written", "failed"}
<1>1. l \in Seq(Rows) /\ Len(l) \in Nat /\ DOMAIN l = 1..Len(l)
  BY LenProperties DEF LogRows
<1>2. \A i \in 1..Len(l) : l[i] \in Rows
  BY <1>1, ElementOfSeq
<1>3. \A r \in Rows : /\ r.writer \in {"turn", "user"} /\ r.messages \in Seq(Messages)
                      /\ r.snapshot \in BOOLEAN /\ r.state \in {"open", "written", "failed"}
  BY DEF Rows
<1> QED BY <1>1, <1>2, <1>3 DEF LogRows

\* A log stays one if only the states of its rows change.
LEMMA AlikeTyped ==
  ASSUME NEW l \in LogRows, NEW k, k = [i \in 1..Len(l) |-> k[i]],
         \A i \in 1..Len(l) : k[i] \in Rows,
         \A i \in 1..Len(l) : /\ l[i].writer = k[i].writer /\ l[i].messages = k[i].messages
                              /\ l[i].snapshot = k[i].snapshot /\ l[i].parent = k[i].parent
  PROVE  k \in LogRows /\ Len(k) = Len(l) /\ Alike(l, k)
<1>1. Len(l) \in Nat
  BY LogRowsFacts
<1>2. k \in Seq(Rows) /\ Len(k) = Len(l)
  BY <1>1, IsASeq, LenProperties
<1>3. \A i \in 1..Len(k) : k[i].parent \in 0..(i - 1) /\ (k[i].snapshot \/ Len(k[i].messages) = 1)
  <2> TAKE i \in 1..Len(k)
  <2>1. i \in 1..Len(l)
    BY <1>2
  <2>2. l[i].parent \in 0..(i - 1) /\ (l[i].snapshot \/ Len(l[i].messages) = 1)
    BY <2>1, LogRowsFacts
  <2>3. l[i].messages = k[i].messages /\ l[i].snapshot = k[i].snapshot /\ l[i].parent = k[i].parent
    BY <2>1
  <2> QED BY <2>2, <2>3
<1>4. k \in LogRows
  BY <1>2, <1>3 DEF LogRows
<1> QED BY <1>2, <1>4 DEF Alike

\* A log stays one if its open writes are given an end.
LEMMA SettledTyped ==
  ASSUME NEW l \in LogRows, NEW t \in {"written", "failed"}
  PROVE  /\ SettledOf(l, t) \in LogRows /\ Alike(l, SettledOf(l, t))
         /\ Len(SettledOf(l, t)) = Len(l)
         /\ \A i \in 1..Len(l) : SettledOf(l, t)[i].state =
                                   IF l[i].state = "open" THEN t ELSE l[i].state
<1> DEFINE k == SettledOf(l, t)
<1>1. Len(l) \in Nat /\ DOMAIN l = 1..Len(l)
  BY LogRowsFacts
<1>2. \A i \in 1..Len(l) : k[i] = [l[i] EXCEPT !.state = IF @ = "open" THEN t ELSE @]
  BY <1>1 DEF SettledOf
<1>3. k = [i \in 1..Len(l) |-> k[i]]
  BY <1>1 DEF SettledOf
<1>4. ASSUME NEW i \in 1..Len(l)
      PROVE  /\ k[i] \in Rows
             /\ l[i].writer = k[i].writer /\ l[i].messages = k[i].messages
             /\ l[i].snapshot = k[i].snapshot /\ l[i].parent = k[i].parent
             /\ k[i].state = IF l[i].state = "open" THEN t ELSE l[i].state
  <2>1. l[i] \in Rows
    BY LogRowsFacts
  <2>2. k[i] = [l[i] EXCEPT !.state = IF @ = "open" THEN t ELSE @]
    BY <1>2
  <2> HIDE DEF k
  <2> QED BY <2>1, <2>2 DEF Rows
<1> HIDE DEF k
<1>5. k \in LogRows /\ Len(k) = Len(l) /\ Alike(l, k)
  BY <1>3, <1>4, AlikeTyped
<1> QED BY <1>4, <1>5 DEF k

\* A log stays one if the write of a row ends, and a row that is written was
\* counted on.
LEMMA BecomeTyped ==
  ASSUME NEW l \in LogRows, NEW i \in 1..Len(l), NEW s \in {"written", "failed"},
         l[i].state = "open"
  PROVE  LET k == BecomeOf(l, i, s)
         IN  /\ k \in LogRows /\ Alike(l, k) /\ Len(k) = Len(l)
             /\ k[i].state = s /\ \A j \in 1..Len(l) \ {i} : k[j] = l[j]
             /\ \A w : OpenIn(k, w) = OpenIn(l, w) \ {i}
             /\ WrittenIn(k) = IF s = "written" THEN WrittenIn(l) \cup {i} ELSE WrittenIn(l)
             /\ s = "written" => AfterOf(k) = AfterOf(l)
<1> DEFINE k == BecomeOf(l, i, s)
<1>1. Len(l) \in Nat /\ DOMAIN l = 1..Len(l) /\ l[i] \in Rows
  BY LogRowsFacts
<1>2. k = [j \in 1..Len(l) |-> k[j]] /\ k[i] = [l[i] EXCEPT !.state = s]
      /\ \A j \in 1..Len(l) \ {i} : k[j] = l[j]
  BY <1>1 DEF BecomeOf
<1> HIDE DEF k
<1>3. ASSUME NEW j \in 1..Len(l)
      PROVE  /\ k[j] \in Rows
             /\ l[j].writer = k[j].writer /\ l[j].messages = k[j].messages
             /\ l[j].snapshot = k[j].snapshot /\ l[j].parent = k[j].parent
             /\ k[j].state = IF j = i THEN s ELSE l[j].state
  <2>1. l[j] \in Rows
    BY LogRowsFacts
  <2>2. k[j] = IF j = i THEN [l[j] EXCEPT !.state = s] ELSE l[j]
    BY <1>2
  <2> QED BY <2>1, <2>2 DEF Rows
<1>4. k \in LogRows /\ Len(k) = Len(l) /\ Alike(l, k)
  BY <1>2, <1>3, AlikeTyped
<1>5. \A w : OpenIn(k, w) = OpenIn(l, w) \ {i}
  <2> TAKE w
  <2>1. \A j \in 1..Len(l) : k[j].state = "open" /\ k[j].writer = w <=>
                               l[j].state = "open" /\ l[j].writer = w /\ j # i
    BY <1>3
  <2> QED BY <1>4, <2>1, Zenon DEF OpenIn
<1>6. WrittenIn(k) = IF s = "written" THEN WrittenIn(l) \cup {i} ELSE WrittenIn(l)
  BY <1>3, <1>4 DEF WrittenIn
<1>7. s = "written" => AfterOf(k) = AfterOf(l)
  <2> SUFFICES ASSUME s = "written" PROVE AfterOf(k) = AfterOf(l)
    OBVIOUS
  <2>1. PICK a, b : a = SettledOf(l, "written") /\ b = SettledOf(k, "written")
    OBVIOUS
  <2>2. a \in LogRows /\ Len(a) = Len(l) /\ Alike(l, a)
        /\ \A j \in 1..Len(l) : a[j].state = IF l[j].state = "open" THEN "written" ELSE l[j].state
    BY <2>1, SettledTyped
  <2>3. b \in LogRows /\ Len(b) = Len(k) /\ Alike(k, b)
        /\ \A j \in 1..Len(k) : b[j].state = IF k[j].state = "open" THEN "written" ELSE k[j].state
    BY <1>4, <2>1, SettledTyped
  <2>4. a \in Seq(Rows) /\ b \in Seq(Rows) /\ Len(a) = Len(b)
    BY <1>4, <2>2, <2>3 DEF LogRows
  <2>5. \A j \in 1..Len(a) : /\ a[j].state = "written" <=> b[j].state = "written"
                             /\ a[j].messages = b[j].messages /\ a[j].snapshot = b[j].snapshot
    BY <1>3, <1>4, <2>2, <2>3 DEF Alike
  <2> QED BY <2>1, <2>4, <2>5, ReloadFacts DEF AfterOf
<1> QED BY <1>2, <1>3, <1>4, <1>5, <1>6, <1>7 DEF k

\* A log stays one if a row is appended, and its history is the row applied
\* to the one before.
LEMMA AppendTyped ==
  ASSUME NEW l \in LogRows, NEW row \in Rows, row.parent \in 0..Len(l), row.state = "open",
         row.snapshot \/ Len(row.messages) = 1
  PROVE  LET k == Append(l, row)
         IN  /\ k \in LogRows /\ Len(k) = Len(l) + 1 /\ k[Len(l) + 1] = row
             /\ \A i \in 1..Len(l) : k[i] = l[i]
             /\ \A w : OpenIn(k, w) = IF row.writer = w THEN OpenIn(l, w) \cup {Len(l) + 1}
                                      ELSE OpenIn(l, w)
             /\ WrittenIn(k) = WrittenIn(l)
             /\ AfterOf(k) = Apply(AfterOf(l), row)
<1> DEFINE k == Append(l, row)
           n == Len(l)
<1>1. n \in Nat /\ l \in Seq(Rows)
  BY LogRowsFacts
<1>2. k \in Seq(Rows) /\ Len(k) = n + 1 /\ k[n + 1] = row /\ \A i \in 1..n : k[i] = l[i]
  BY <1>1, AppendProperties
<1>3. \A i \in 1..(n + 1) : i \in 1..n \/ i = n + 1
  BY <1>1
<1>3a. 1..n \subseteq 1..(n + 1) /\ n + 1 \in 1..(n + 1) /\ n + 1 \notin 1..n
  BY <1>1
<1> HIDE DEF k
<1>4. k \in LogRows
  <2>1. \A i \in 1..Len(k) : k[i].parent \in 0..(i - 1) /\ (k[i].snapshot \/ Len(k[i].messages) = 1)
    <3> TAKE i \in 1..Len(k)
    <3>1. CASE i \in 1..n
      BY <1>2, <3>1, LogRowsFacts
    <3>2. CASE i = n + 1
      <4>1. i - 1 = n
        BY <1>1, <3>2
      <4> QED BY <1>2, <3>2, <4>1
    <3> QED BY <1>2, <1>3, <3>1, <3>2
  <2> QED BY <1>2, <2>1 DEF LogRows
<1>5. ASSUME NEW w
      PROVE OpenIn(k, w) = IF row.writer = w THEN OpenIn(l, w) \cup {n + 1} ELSE OpenIn(l, w)
  <2> HIDE DEF n
  <2> QED BY <1>2, <1>3, <1>3a, Zenon DEF OpenIn, n
<1>6. WrittenIn(k) = WrittenIn(l)
  <2> HIDE DEF n
  <2>1. row.state # "written"
    OBVIOUS
  <2> QED BY <1>2, <1>3, <1>3a, <2>1, Zenon DEF WrittenIn, n
<1>7. AfterOf(k) = Apply(AfterOf(l), row)
  <2> DEFINE wrote == [row EXCEPT !.state = "written"]
  <2>1. wrote \in Rows /\ wrote.state = "written" /\ wrote.messages = row.messages
        /\ wrote.snapshot = row.snapshot /\ wrote.parent = row.parent
    BY DEF Rows
  <2> HIDE DEF wrote
  <2>2. PICK a, b, c : a = SettledOf(l, "written") /\ b = SettledOf(k, "written") /\ c = Append(a, wrote)
    OBVIOUS
  <2>3. a \in LogRows /\ Len(a) = n /\ Alike(l, a)
        /\ \A j \in 1..n : a[j].state = IF l[j].state = "open" THEN "written" ELSE l[j].state
    BY <2>2, SettledTyped
  <2>4. b \in LogRows /\ Len(b) = Len(k) /\ Alike(k, b)
        /\ \A j \in 1..Len(k) : b[j].state = IF k[j].state = "open" THEN "written" ELSE k[j].state
    BY <1>4, <2>2, SettledTyped
  <2>5. a \in Seq(Rows) /\ b \in Seq(Rows)
    BY <2>3, <2>4 DEF LogRows
  <2>6. c \in Seq(Rows) /\ Len(c) = n + 1 /\ c[n + 1] = wrote /\ \A j \in 1..n : c[j] = a[j]
    BY <2>1, <2>2, <2>3, <2>5, AppendProperties
  <2>7. \A j \in 1..Len(b) : /\ b[j].state = "written" <=> c[j].state = "written"
                             /\ b[j].messages = c[j].messages /\ b[j].snapshot = c[j].snapshot
    <3> TAKE j \in 1..Len(b)
    <3>1. j \in 1..n \/ j = n + 1
      BY <1>2, <1>3, <2>4
    <3>2. CASE j \in 1..n
      BY <1>2, <1>3a, <2>3, <2>4, <2>6, <3>2 DEF Alike
    <3>3. CASE j = n + 1
      BY <1>2, <1>3a, <2>1, <2>4, <2>6, <3>3 DEF Alike
    <3> QED BY <3>1, <3>2, <3>3
  <2>8. Reload(b) = Reload(c)
    BY <1>2, <2>4, <2>5, <2>6, <2>7, ReloadFacts
  <2>9. Reload(c) = Apply(Reload(a), wrote)
    BY <2>1, <2>2, <2>5, ReloadFacts
  <2>10. Apply(Reload(a), wrote) = Apply(Reload(a), row)
    BY <2>1 DEF Apply
  <2> QED BY <2>2, <2>8, <2>9, <2>10 DEF AfterOf
<1> QED BY <1>2, <1>4, <1>5, <1>6, <1>7 DEF k

\* A log stays one over a restart, which forgets what was not written.
LEMMA RestartTyped ==
  ASSUME NEW l \in LogRows
  PROVE  LET k == SettledOf(l, "failed")
         IN  /\ k \in LogRows /\ Len(k) = Len(l) /\ Alike(l, k)
             /\ \A w : OpenIn(k, w) = {}
             /\ WrittenIn(k) = WrittenIn(l)
             /\ AfterOf(k) = Reload(l)
<1> PICK k : k = SettledOf(l, "failed")
  OBVIOUS
<1>1. /\ k \in LogRows /\ Len(k) = Len(l) /\ Alike(l, k)
      /\ \A i \in 1..Len(l) : k[i].state = IF l[i].state = "open" THEN "failed" ELSE l[i].state
  BY SettledTyped
<1>2. \A w : OpenIn(k, w) = {}
  <2>1. \A i \in 1..Len(k) : k[i].state # "open"
    BY <1>1
  <2> QED BY <2>1, Zenon DEF OpenIn
<1>3. WrittenIn(k) = WrittenIn(l)
  <2>1. \A i \in 1..Len(l) : k[i].state = "written" <=> l[i].state = "written"
    BY <1>1
  <2> QED BY <1>1, <2>1, Zenon DEF WrittenIn
<1>4. AfterOf(k) = Reload(l)
  <2>1. PICK a : a = SettledOf(k, "written")
    OBVIOUS
  <2>2. a \in LogRows /\ Len(a) = Len(k) /\ Alike(k, a)
        /\ \A j \in 1..Len(k) : a[j].state = IF k[j].state = "open" THEN "written" ELSE k[j].state
    BY <1>1, <2>1, SettledTyped
  <2>3. a \in Seq(Rows) /\ l \in Seq(Rows) /\ Len(a) = Len(l)
    BY <1>1, <2>2 DEF LogRows
  <2>4. \A j \in 1..Len(a) : /\ a[j].state = "written" <=> l[j].state = "written"
                             /\ a[j].messages = l[j].messages /\ a[j].snapshot = l[j].snapshot
    BY <1>1, <2>2 DEF Alike
  <2> QED BY <2>1, <2>3, <2>4, ReloadFacts DEF AfterOf
<1> QED BY <1>1, <1>2, <1>3, <1>4

-----------------------------------------------------------------------------
(* The values of the variables                                             *)

\* The domains of what is counted and collected.
Counts ==
  /\ departs \subseteq Departures /\ spent \in 0..MaxDepartures
  /\ kinds \subseteq Calls /\ leaked \in BOOLEAN /\ made \in 0..MaxMessages

\* The domains of history, log and query loop.
Places ==
  /\ mem \in Seq(Messages) /\ cut \in 0..Len(mem)
  /\ log \in LogRows /\ last \in 0..Len(log)
  /\ phase \in Phases /\ after \in Phases \ {"writing"}
  /\ popped \in Messages \cup {None}

Domains == Counts /\ Places

\* A boundary is kept only while its summary is made.
CutFixed == cut # 0 => phase \in {"compacting", "recompacting"}

\* The runner is behind the one event the query loop waits for.
OneWrite ==
  /\ OpenIn(log, "turn") # {} => phase = "writing"
  /\ \A i, j \in OpenIn(log, "turn") : i = j

Shape == Counts /\ Places /\ CutFixed /\ OneWrite

\* Departures are counted within their bound.
LEMMA DepartsTyped ==
  ASSUME Domains, NEW ds, Departs(ds)
  PROVE  /\ departs' \subseteq Departures /\ spent' \in 0..MaxDepartures
         /\ departs' = departs \cup ds
<1>1. ds \subseteq Departures /\ spent + Cardinality(ds) <= MaxDepartures
      /\ spent' = spent + Cardinality(ds) /\ departs' = departs \cup ds
  BY DEF Departs
<1>2. Cardinality(ds) \in Nat
  <2>1. IsFiniteSet(AllDepartures)
    <3>1. IsFiniteSet({"crash"} \cup {"lost"})
      BY FS_Singleton, FS_AddElement
    <3>2. IsFiniteSet({"crash"} \cup {"lost"} \cup {"cut"})
      BY <3>1, FS_AddElement
    <3>3. IsFiniteSet({"crash"} \cup {"lost"} \cup {"cut"} \cup {"micro"})
      BY <3>2, FS_AddElement
    <3>4. IsFiniteSet({"reactive"} \cup {"context"})
      BY FS_Singleton, FS_AddElement
    <3>5. IsFiniteSet({"reactive"} \cup {"context"} \cup {"outside"})
      BY <3>4, FS_AddElement
    <3>6. IsFiniteSet({"reactive"} \cup {"context"} \cup {"outside"} \cup {"unlogged"})
      BY <3>5, FS_AddElement
    <3>7. IsFiniteSet({"reactive"} \cup {"context"} \cup {"outside"} \cup {"unlogged"} \cup {"abandon"})
      BY <3>6, FS_AddElement
    <3>8. AllDepartures = ({"crash"} \cup {"lost"} \cup {"cut"} \cup {"micro"})
            \cup ({"reactive"} \cup {"context"} \cup {"outside"} \cup {"unlogged"} \cup {"abandon"})
      BY DEF AllDepartures
    <3> QED BY <3>3, <3>7, <3>8, FS_Union
  <2> QED BY <1>1, <2>1, LogAssumption, FS_Subset, FS_CardinalityType
<1> QED BY <1>1, <1>2, LogAssumption DEF Domains, Counts

\* A new message is one, and so is the sequence of it alone.
LEMMA MessageTyped ==
  ASSUME Domains, made < MaxMessages, NEW by \in {"user", "assistant", "results"},
         NEW calls, calls \subseteq Calls
  PROVE  /\ Message(by, calls) \in Messages /\ <<Message(by, calls)>> \in Seq(Messages)
         /\ Len(<<Message(by, calls)>>) = 1 /\ <<Message(by, calls)>>[1] = Message(by, calls)
         /\ Message(by, calls).by = by /\ Message(by, calls).calls = calls
         /\ made + 1 \in Numbers /\ made + 1 \in 0..MaxMessages
<1>1. made + 1 \in Numbers /\ made + 1 \in 0..MaxMessages
  BY LogAssumption DEF Domains, Counts, Numbers
<1>2. Message(by, calls) \in Messages
  BY <1>1 DEF Message, Messages
<1> QED BY <1>1, <1>2 DEF Message

\* The calls of the last answer are calls, and those of the last message if
\* it is an answer.
LEMMA CallsOfLastFacts ==
  ASSUME NEW h \in Seq(Messages)
  PROVE  /\ CallsOfLast(h) \subseteq Calls /\ Pending(h) \subseteq Calls
         /\ h # <<>> /\ IsAnswer(Last(h)) => CallsOfLast(h) = Last(h).calls
<1> DEFINE answers == {i \in DOMAIN h : IsAnswer(h[i])}
           final   == CHOOSE i \in answers : \A j \in answers : j <= i
<1>1. Len(h) \in Nat /\ DOMAIN h = 1..Len(h)
  BY LenProperties
<1>2. answers \subseteq 0..Len(h)
  BY <1>1
<1>2a. h # <<>> => Last(h) = h[Len(h)] /\ Len(h) \in DOMAIN h
  <2> SUFFICES ASSUME h # <<>> PROVE Last(h) = h[Len(h)] /\ Len(h) \in DOMAIN h
    OBVIOUS
  <2>1. Last(h) = h[Len(h)] /\ Len(h) \in Nat \ {0}
    BY FrontFacts
  <2> QED BY <1>1, <2>1
<1>3. CASE answers = {}
  <2>1. CallsOfLast(h) = {} /\ Pending(h) = {}
    BY <1>3 DEF CallsOfLast, Pending
  <2>2. ~(h # <<>> /\ IsAnswer(Last(h)))
    <3> SUFFICES ASSUME h # <<>>, IsAnswer(Last(h)) PROVE FALSE
      OBVIOUS
    <3>2. Len(h) \in answers
      BY <1>2a
    <3> QED BY <1>3, <3>2
  <2> QED BY <2>1, <2>2
<1>4. CASE answers # {}
  <2>1. \E i \in answers : \A j \in answers : j <= i
    <3> HIDE DEF answers
    <3> QED BY <1>1, <1>2, <1>4, GreatestExists
  <2>2. final \in answers /\ \A j \in answers : j <= final
    <3> HIDE DEF answers
    <3> QED BY <2>1
  <2>3. CallsOfLast(h) = h[final].calls
    BY <1>4 DEF CallsOfLast
  <2>4. Pending(h) = h[final].calls \ UNION {h[i].calls : i \in {j \in DOMAIN h : j > final}}
    BY <1>4 DEF Pending
  <2> HIDE DEF final
  <2>5. final \in 1..Len(h)
    BY <1>1, <2>2
  <2>6. h[final] \in Messages
    BY <2>5, ElementOfSeq
  <2>7. h[final].calls \subseteq Calls
    BY <2>6 DEF Messages
  <2>8. ASSUME h # <<>>, IsAnswer(Last(h)) PROVE final = Len(h)
    <3>2. Len(h) \in answers
      BY <1>2a, <2>8
    <3>3. Len(h) <= final
      BY <2>2, <3>2
    <3>4. \A n \in Nat : \A f \in 1..n : n <= f => f = n
      OBVIOUS
    <3> QED BY <1>1, <2>5, <3>3, <3>4, Zenon
  <2> QED BY <1>2a, <2>3, <2>4, <2>7, <2>8
<1> QED BY <1>3, <1>4

\* A new row is one, with the head as its parent.
LEMMA RowTyped ==
  ASSUME Domains, NEW w \in {"turn", "user"}, NEW ms \in Seq(Messages), NEW snap \in BOOLEAN
  PROVE  /\ Row(w, ms, snap) \in Rows /\ Row(w, ms, snap).parent = last
         /\ last \in 0..Len(log)
         /\ Row(w, ms, snap).state = "open" /\ Row(w, ms, snap).writer = w
         /\ Row(w, ms, snap).messages = ms /\ Row(w, ms, snap).snapshot = snap
<1>1. last \in Nat
  BY LogRowsFacts DEF Domains, Places
<1> QED BY <1>1 DEF Row, Rows, Domains, Places

\* What an event of the query loop does to the rows.
LEMMA AppendsRow ==
  ASSUME Domains, NEW w \in {"turn", "user"}, NEW ms \in Seq(Messages), NEW snap \in BOOLEAN,
         snap \/ Len(ms) = 1, log' = Append(log, Row(w, ms, snap))
  PROVE  /\ log' \in LogRows /\ Len(log') = Len(log) + 1 /\ last \in 0..Len(log')
         /\ \A i \in 1..Len(log) : log'[i] = log[i]
         /\ log'[Len(log) + 1].parent = last /\ log'[Len(log) + 1].state = "open"
         /\ OpenIn(log', w) = OpenIn(log, w) \cup {Len(log) + 1}
         /\ \A v : v # w => OpenIn(log', v) = OpenIn(log, v)
         /\ WrittenIn(log') = WrittenIn(log)
         /\ AfterOf(log') = Apply(AfterOf(log), Row(w, ms, snap))
<1> PICK row, l, k : row = Row(w, ms, snap) /\ l = log /\ k = Append(l, row)
  OBVIOUS
<1>1. row \in Rows /\ row.parent = last /\ last \in 0..Len(l) /\ row.state = "open"
      /\ row.writer = w /\ row.messages = ms /\ row.snapshot = snap
  BY RowTyped
<1>2. l \in LogRows /\ Len(l) \in Nat
  BY LogRowsFacts DEF Domains, Places
<1>3. /\ k \in LogRows /\ Len(k) = Len(l) + 1 /\ k[Len(l) + 1] = row
      /\ \A i \in 1..Len(l) : k[i] = l[i]
      /\ \A v : OpenIn(k, v) = IF row.writer = v THEN OpenIn(l, v) \cup {Len(l) + 1}
                               ELSE OpenIn(l, v)
      /\ WrittenIn(k) = WrittenIn(l)
      /\ AfterOf(k) = Apply(AfterOf(l), row)
  BY <1>1, <1>2, AppendTyped
<1>4. log' = k
  OBVIOUS
<1>5. last \in 0..Len(k)
  BY <1>1, <1>2, <1>3
<1> QED BY <1>1, <1>3, <1>4, <1>5

\* A history event that is yielded keeps the shape of the variables.
LEMMA YieldsShape ==
  ASSUME Shape, phase # "writing", NEW h \in Seq(Messages), NEW ms \in Seq(Messages),
         NEW snap \in BOOLEAN, NEW deep \in BOOLEAN, NEW next \in Phases \ {"writing"},
         snap \/ Len(ms) = 1, Yields(h, ms, snap, deep, next), last' = last
  PROVE  (Places /\ CutFixed /\ OneWrite)'
<1>1. mem' = h /\ cut' = 0 /\ phase' \in Phases /\ after' \in Phases \ {"writing"}
      /\ popped' \in Messages \cup {None}
  BY DEF Yields, Go, Shape, Places, Phases
<1>2. 0 \in 0..Len(h)
  BY LenProperties
<1>3. OpenIn(log, "turn") = {}
  BY DEF Shape, OneWrite
<1>4. log' \in LogRows /\ last' \in 0..Len(log') /\ OneWrite'
  <2>1. CASE deep
    <3>1. log' = log
      BY <2>1 DEF Yields
    <3> QED BY <1>3, <3>1 DEF Shape, Places, OneWrite
  <2>2. CASE ~deep
    <3>1. log' = Append(log, Row("turn", ms, snap)) /\ phase' = "writing"
      BY <2>2 DEF Yields
    <3>2. log' \in LogRows /\ last \in 0..Len(log')
          /\ OpenIn(log', "turn") = OpenIn(log, "turn") \cup {Len(log) + 1}
      BY <3>1, AppendsRow DEF Shape, Domains
    <3> QED BY <1>3, <3>1, <3>2 DEF OneWrite
  <2> QED BY <2>1, <2>2
<1> QED BY <1>1, <1>2, <1>4 DEF Places, CutFixed

\* So does the loop when it goes on without one.
LEMMA GoShape ==
  ASSUME Shape, phase # "writing", NEW h \in Seq(Messages), NEW next \in Phases \ {"writing"},
         Go(next), mem' = h, log' = log, last' = last
  PROVE  (Places /\ CutFixed /\ OneWrite)'
<1>1. Yields(h, <<>>, TRUE, TRUE, next)
  BY DEF Yields
<1>2. <<>> \in Seq(Messages) /\ TRUE \in BOOLEAN
  BY EmptySeq
<1> QED BY <1>1, <1>2, YieldsShape

\* So does a message that is appended and yielded.
LEMMA AppendsShape ==
  ASSUME Shape, phase # "writing", NEW m \in Messages, NEW deep \in BOOLEAN,
         NEW next \in Phases \ {"writing"}, Appends(m, deep, next), last' = last
  PROVE  (Places /\ CutFixed /\ OneWrite)'
<1>1. PICK h, ms : h = Append(mem, m) /\ ms = <<m>>
  OBVIOUS
<1>2. h \in Seq(Messages) /\ ms \in Seq(Messages) /\ Len(ms) = 1
  BY <1>1, AppendProperties DEF Shape, Places
<1>3. Yields(h, ms, FALSE, deep, next)
  BY <1>1 DEF Appends
<1> QED BY <1>2, <1>3, YieldsShape

\* Only the place of the loop, the history and the retries change.
LEMMA MovesShape ==
  ASSUME Shape, phase # "writing", mem' \in Seq(Messages), cut' \in 0..Len(mem'), CutFixed',
         phase' \in Phases, after' = after, popped' \in Messages \cup {None},
         log' = log, last' = last
  PROVE  (Places /\ CutFixed /\ OneWrite)'
<1>1. OpenIn(log, "turn") = {}
  BY DEF Shape, OneWrite
<1> QED BY <1>1 DEF Shape, Places, OneWrite

\* A write is over.
LEMMA BecomesShape ==
  ASSUME Shape, NEW i \in DOMAIN log, log[i].state = "open", NEW s \in {"written", "failed"},
         log' = Become(i, s), mem' = mem, last' \in {last, i},
         \/ Go("idle") /\ OpenIn(log, "turn") \subseteq {i}
         \/ Resumes(log[i].writer)
  PROVE  (Places /\ CutFixed /\ OneWrite)'
<1> PICK l, w : l = log /\ w = log[i].writer
  OBVIOUS
<1>1. l \in LogRows /\ Len(l) \in Nat /\ i \in 1..Len(l) /\ w \in {"turn", "user"}
      /\ l[i].state = "open"
  BY LogRowsFacts DEF Shape, Places
<1>2. PICK k : k = BecomeOf(l, i, s)
  OBVIOUS
<1>3. k \in LogRows /\ Len(k) = Len(l) /\ OpenIn(k, "turn") = OpenIn(l, "turn") \ {i}
  BY <1>1, <1>2, BecomeTyped
<1>4. log' = k
  BY <1>2 DEF Become, BecomeOf
<1>5. last' \in 0..Len(k)
  BY <1>1, <1>3 DEF Shape, Places
<1>6. (mem \in Seq(Messages) /\ 0 \in 0..Len(mem))
  BY LenProperties DEF Shape, Places
<1>7. CASE Go("idle") /\ OpenIn(log, "turn") \subseteq {i}
  <2>1. OpenIn(k, "turn") = {}
    BY <1>3, <1>7
  <2> QED BY <1>3, <1>4, <1>5, <1>6, <1>7, <2>1 DEF Shape, Places, Go, Phases, CutFixed, OneWrite
<1>8. CASE Resumes(w) /\ w = "turn"
  <2>1. OpenIn(k, "turn") = {}
    <3>1. i \in OpenIn(l, "turn")
      BY <1>1, <1>8 DEF OpenIn
    <3> QED BY <1>3, <3>1 DEF Shape, OneWrite
  <2> QED BY <1>3, <1>4, <1>5, <1>6, <1>8, <2>1
          DEF Shape, Places, Resumes, Go, Phases, CutFixed, OneWrite
<1>9. CASE Resumes(w) /\ w = "user"
  <2>1. i \notin OpenIn(l, "turn")
    BY <1>9 DEF OpenIn
  <2>2. UNCHANGED <<phase, after, cut, popped>>
    BY <1>9 DEF Resumes, turn
  <2> QED BY <1>3, <1>4, <1>5, <2>1, <2>2 DEF Shape, Places, CutFixed, OneWrite
<1> QED BY <1>1, <1>7, <1>8, <1>9

\* The shape at first.
LEMMA ShapeInit == Init => Shape
<1> SUFFICES ASSUME Init PROVE Shape
  OBVIOUS
<1>1. <<>> \in Seq(Messages) /\ <<>> \in Seq(Rows) /\ Len(<<>>) = 0
  BY EmptySeq
<1>2. log \in LogRows /\ OpenIn(log, "turn") = {}
  <2>1. 1..0 = {}
    OBVIOUS
  <2> QED BY <1>1, <2>1 DEF Init, LogRows, OpenIn
<1>3. Counts
  <2>1. 0 \in 0..MaxDepartures /\ 0 \in 0..MaxMessages
    BY LogAssumption
  <2> QED BY <2>1 DEF Init, Counts
<1>4. Places
  <2>1. cut \in 0..Len(mem) /\ last \in 0..Len(log)
    BY <1>1 DEF Init
  <2> QED BY <1>1, <1>2, <2>1 DEF Init, Places, Phases
<1> QED BY <1>2, <1>3, <1>4 DEF Init, Shape, CutFixed, OneWrite

\* Every step keeps the shape of the variables.
LEMMA ShapeStep == Shape /\ [Next]_vars => Shape'
<1> SUFFICES ASSUME Shape, [Next]_vars PROVE Shape'
  OBVIOUS
<1> DEFINE Rest == (Places /\ CutFixed /\ OneWrite)'
           Same == UNCHANGED <<departs, spent>>
           Left == \E ds : Departs(ds)
<1>d. Domains /\ 0 \in 0..Len(mem) /\ mem \in Seq(Messages)
  BY LenProperties DEF Shape, Domains, Places
<1>b. Same \/ Left => departs' \subseteq Departures /\ spent' \in 0..MaxDepartures
  BY <1>d, DepartsTyped DEF Domains, Counts
<1>q. (Same \/ Left) /\ kinds' \subseteq Calls /\ leaked' \in BOOLEAN /\ made' \in 0..MaxMessages /\ Rest
        => Shape'
  BY <1>b DEF Shape, Counts
<1>c. kinds \subseteq Calls /\ leaked \in BOOLEAN /\ made \in 0..MaxMessages
  BY DEF Shape, Counts
<1> HIDE DEF Rest, Same, Left
<1>1. CASE Prompt
  <2>1. PICK m : m = Message("user", {})
    OBVIOUS
  <2>2. m \in Messages /\ made + 1 \in 0..MaxMessages
    BY <1>1, <1>d, <2>1, MessageTyped DEF Prompt
  <2>3. Appends(m, FALSE, "prepare") /\ phase # "writing" /\ last' = last
    BY <1>1, <2>1 DEF Prompt
  <2>4. Rest
    BY <2>2, <2>3, AppendsShape DEF Rest, Phases
  <2> QED BY <1>1, <1>c, <1>q, <2>2, <2>4 DEF Prompt, Left
<1>2. CASE Ready
  <2>1. Rest
    BY <1>2, <1>d, GoShape DEF Rest, Ready, Phases
  <2> QED BY <1>2, <1>c, <1>q, <2>1 DEF Ready, Same
<1>3. CASE Microcompact
  <2>1. Microcompacted(mem) \in Seq(Messages)
    BY <1>d, MicrocompactedTyped
  <2>2. Rest
    BY <1>3, <2>1, GoShape DEF Rest, Microcompact, Phases
  <2> QED BY <1>3, <1>c, <1>q, <2>2 DEF Microcompact, Left
<1>4. CASE StartSummary
  <2>1. PICK h : h = Microcompacted(mem)
    OBVIOUS
  <2>2. h \in Seq(Messages) /\ Boundary(h) \in 0..Len(h)
    BY <1>d, <2>1, MicrocompactedTyped, BoundaryFacts
  <2>3. mem' = h /\ cut' = Boundary(h) /\ phase' = "compacting" /\ after' = after /\ popped' = popped
        /\ phase # "writing"
    BY <1>4, <2>1 DEF StartSummary
  <2>4. Rest
    <3>1. cut' \in 0..Len(mem') /\ mem' \in Seq(Messages) /\ CutFixed' /\ phase' \in Phases
          /\ popped' \in Messages \cup {None} /\ log' = log /\ last' = last
      BY <1>4, <2>2, <2>3 DEF CutFixed, Phases, Shape, Places, StartSummary
    <3> QED BY <2>3, <3>1, MovesShape DEF Rest
  <2>5. Left
    BY <1>4 DEF StartSummary, Left
  <2> QED BY <1>4, <1>c, <1>q, <2>4, <2>5 DEF StartSummary
<1>5. CASE Summarise
  <2>1. PICK h : h = Compacted(mem, cut)
    OBVIOUS
  <2>2. h \in Seq(Messages)
    BY <1>d, <2>1, CompactedTyped DEF Shape, Places
  <2>3. Yields(h, h, TRUE, leaked, "streaming") /\ phase # "writing" /\ last' = last
    BY <1>5, <2>1 DEF Summarise
  <2>4. Rest
    BY <1>c, <2>2, <2>3, YieldsShape DEF Rest, Phases
  <2> QED BY <1>5, <1>c, <1>q, <2>4 DEF Summarise, Same
<1>6. CASE Answer
  <2>1. PICK picks \in Asks :
          LET m    == Message("assistant", {made + 1} \X picks)
              next == IF picks = {} THEN "stop" ELSE "tools"
          IN  /\ mem' = Append(mem, m)
              /\ IF leaked THEN phase' = next /\ after' = "idle" /\ UNCHANGED log
                 ELSE /\ log' = Append(log, Row("turn", <<m>>, FALSE))
                      /\ phase' = "writing" /\ after' = next
    BY <1>6 DEF Answer
  <2>2. PICK m, next : m = Message("assistant", {made + 1} \X picks)
                       /\ next = IF picks = {} THEN "stop" ELSE "tools"
    OBVIOUS
  <2>3. made < MaxMessages /\ phase = "streaming" /\ popped' = None /\ made' = made + 1
        /\ UNCHANGED <<departs, spent, kinds, last, cut, leaked>>
    BY <1>6 DEF Answer
  <2>4. {made + 1} \X picks \subseteq Calls
    <3>1. made + 1 \in Numbers /\ picks \subseteq {1, 2}
      BY <1>c, <2>3, LogAssumption DEF Numbers
    <3> QED BY <3>1 DEF Calls
  <2>5. m \in Messages /\ <<m>> \in Seq(Messages) /\ Len(<<m>>) = 1 /\ made + 1 \in 0..MaxMessages
    BY <1>d, <2>2, <2>3, <2>4, MessageTyped
  <2>6. /\ mem' = Append(mem, m)
        /\ IF leaked THEN phase' = next /\ after' = "idle" /\ log' = log
           ELSE /\ log' = Append(log, Row("turn", <<m>>, FALSE))
                /\ phase' = "writing" /\ after' = next
    BY <2>1, <2>2
  <2>7. mem' \in Seq(Messages) /\ cut' = 0 /\ 0 \in 0..Len(mem')
    BY <1>d, <2>3, <2>5, <2>6, AppendProperties, LenProperties DEF Shape, CutFixed
  <2>8. OpenIn(log, "turn") = {}
    BY <2>3 DEF Shape, OneWrite
  <2>9. Rest
    <3>1. CASE leaked
      BY <2>2, <2>3, <2>6, <2>7, <2>8, <3>1 DEF Rest, Shape, Places, CutFixed, OneWrite, Phases
    <3>2. CASE ~leaked
      <4>1. log' \in LogRows /\ last \in 0..Len(log')
            /\ OpenIn(log', "turn") = OpenIn(log, "turn") \cup {Len(log) + 1}
        BY <1>d, <2>5, <2>6, <3>2, AppendsRow
      <4> QED BY <2>2, <2>3, <2>6, <2>7, <2>8, <3>2, <4>1 DEF Rest, Places, CutFixed, OneWrite, Phases
    <3> QED BY <3>1, <3>2
  <2> QED BY <1>c, <1>q, <2>3, <2>5, <2>9 DEF Same
<1>7. CASE EmptyAnswer
  <2>1. Rest
    BY <1>7, <1>d, GoShape DEF Rest, EmptyAnswer, Phases
  <2> QED BY <1>7, <1>c, <1>q, <2>1 DEF EmptyAnswer, Same
<1>8. CASE Retry
  <2>1. cut = 0
    BY <1>8 DEF Retry, Shape, CutFixed
  <2>2. mem' \in Seq(Messages) /\ popped' \in Messages \cup {None}
    BY <1>8, <1>d, FrontFacts DEF Retry, Shape, Places
  <2>3. 0 \in 0..Len(mem')
    BY <2>2, LenProperties
  <2>4. Rest
    BY <1>8, <2>1, <2>2, <2>3, MovesShape DEF Rest, Retry, Phases, CutFixed
  <2> QED BY <1>8, <1>c, <1>q, <2>4 DEF Retry, Same
<1>9. CASE Refused
  <2>1. Boundary(mem) \in 0..Len(mem)
    BY <1>d, BoundaryFacts
  <2>2. Rest
    BY <1>9, <1>d, <2>1, MovesShape DEF Rest, Refused, Phases, CutFixed, Shape, Places
  <2> QED BY <1>9, <1>c, <1>q, <2>2 DEF Refused, Left
<1>10. CASE Recompact
  <2>1. Compacted(mem, cut) \in Seq(Messages)
    BY <1>d, CompactedTyped DEF Shape, Places
  <2>2. Rest
    BY <1>10, <2>1, GoShape DEF Rest, Recompact, Phases
  <2> QED BY <1>10, <1>c, <1>q, <2>2 DEF Recompact, Same
<1>11. CASE End
  <2>1. Rest
    BY <1>11, <1>d, GoShape DEF Rest, End, Phases
  <2> QED BY <1>11, <1>c, <1>q, <2>1 DEF End, Left
<1>12. CASE ToolsDone
  <2>1. PICK done \in SUBSET CallsOfLast(mem), deep \in BOOLEAN :
          /\ leaked => deep
          /\ Departs(When(done # CallsOfLast(mem), "lost") \cup When(deep # leaked, "unlogged"))
          /\ leaked' = deep /\ kinds' = kinds \cup done
          /\ IF done = {} THEN Go("prepare") /\ UNCHANGED <<mem, log>>
             ELSE Appends(Message("results", done), deep, "prepare")
    BY <1>12 DEF ToolsDone
  <2>2. phase = "tools" /\ made < MaxMessages /\ made' = made + 1 /\ last' = last
    BY <1>12 DEF ToolsDone
  <2>3. done \subseteq Calls
    BY <1>d, CallsOfLastFacts
  <2>4. PICK m : m = Message("results", done)
    OBVIOUS
  <2>5. m \in Messages /\ made + 1 \in 0..MaxMessages
    BY <1>d, <2>2, <2>3, <2>4, MessageTyped
  <2>6. Left
    BY <2>1 DEF Left
  <2>7. Rest
    <3>1. CASE done = {}
      BY <1>d, <2>1, <2>2, <3>1, GoShape DEF Rest, Phases
    <3>2. CASE done # {}
      BY <2>1, <2>2, <2>4, <2>5, <3>2, AppendsShape DEF Rest, Phases
    <3> QED BY <3>1, <3>2
  <2> QED BY <1>c, <1>q, <2>1, <2>2, <2>3, <2>5, <2>6, <2>7
<1>13. CASE Cancel
  <2>1. Pending(mem) \subseteq Calls
    BY <1>d, CallsOfLastFacts
  <2>2. PICK m : m = Message("results", Pending(mem))
    OBVIOUS
  <2>3. m \in Messages /\ made + 1 \in 0..MaxMessages
    BY <1>13, <1>d, <2>1, <2>2, MessageTyped DEF Cancel
  <2>4. /\ phase # "writing" /\ last' = last
        /\ IF Pending(mem) = {} THEN Go("idle") /\ UNCHANGED <<mem, log>>
           ELSE Appends(m, leaked, "idle")
    BY <1>13, <2>2 DEF Cancel
  <2>5. Rest
    <3>1. CASE Pending(mem) = {}
      BY <1>d, <2>4, <3>1, GoShape DEF Rest, Phases
    <3>2. CASE Pending(mem) # {}
      BY <1>c, <2>3, <2>4, <3>2, AppendsShape DEF Rest, Phases
    <3> QED BY <3>1, <3>2
  <2> QED BY <1>13, <1>c, <1>q, <2>3, <2>5 DEF Cancel, Left
<1>14. CASE CancelOutside
  <2>1. last' = last /\ mem' = mem /\ Go("idle")
    BY <1>14 DEF CancelOutside
  <2>2. DOMAIN log = 1..Len(log)
    BY LogRowsFacts DEF Shape, Places
  <2>3. OpenOf("turn") = OpenIn(log, "turn")
    BY <2>2 DEF OpenOf, OpenRows, OpenIn
  <2>4. Rest
    <3>1. CASE OpenOf("turn") = {}
      <4>1. log' = log
        BY <1>14, <3>1 DEF CancelOutside
      <4> QED BY <1>d, <2>1, <2>3, <3>1, <4>1 DEF Rest, Shape, Places, Go, Phases, CutFixed, OneWrite
    <3>2. CASE OpenOf("turn") # {}
      <4>1. PICK i \in OpenOf("turn"), s \in {"written", "failed"} : log' = Become(i, s)
        BY <1>14, <3>2 DEF CancelOutside
      <4>2. i \in DOMAIN log /\ log[i].state = "open"
        BY <4>1 DEF OpenOf, OpenRows
      <4>3. OpenIn(log, "turn") \subseteq {i}
        BY <2>3, <4>1 DEF Shape, OneWrite
      <4> QED BY <2>1, <4>1, <4>2, <4>3, BecomesShape DEF Rest
    <3> QED BY <3>1, <3>2
  <2> QED BY <1>14, <1>c, <1>q, <2>4 DEF CancelOutside, Left
<1>15. CASE \E i \in DOMAIN log : Write(i)
  <2>1. PICK i \in DOMAIN log : Write(i)
    BY <1>15
  <2>2. Rest
    BY <2>1, BecomesShape DEF Rest, Write
  <2>3. leaked' \in BOOLEAN
    BY <1>c, <2>1 DEF Write, Resumes, turn
  <2> QED BY <1>c, <1>q, <2>1, <2>2, <2>3 DEF Write, Same
<1>16. CASE \E i \in DOMAIN log : WriteFails(i)
  <2>1. PICK i \in DOMAIN log : WriteFails(i)
    BY <1>16
  <2>2. Rest
    BY <2>1, BecomesShape DEF Rest, WriteFails
  <2>3. leaked' \in BOOLEAN
    BY <1>c, <2>1 DEF WriteFails, Resumes, turn
  <2> QED BY <1>c, <1>q, <2>1, <2>2, <2>3 DEF WriteFails, Left
<1>17. CASE AppendContext
  <2>1. PICK m : m = Message("user", {})
    OBVIOUS
  <2>2. m \in Messages /\ <<m>> \in Seq(Messages) /\ Len(<<m>>) = 1 /\ made + 1 \in 0..MaxMessages
    BY <1>17, <1>d, <2>1, MessageTyped DEF AppendContext
  <2>3. mem' = Append(mem, m) /\ log' = Append(log, Row("user", <<m>>, FALSE))
        /\ UNCHANGED <<last, phase, after, cut, leaked, popped>>
    BY <1>17, <2>1 DEF AppendContext, turn
  <2>4. mem' \in Seq(Messages) /\ cut \in 0..Len(mem')
    <3>1. Len(mem) \in Nat /\ Len(mem') = Len(mem) + 1 /\ mem' \in Seq(Messages)
      BY <1>d, <2>2, <2>3, AppendProperties, LenProperties
    <3>2. cut \in 0..Len(mem)
      BY DEF Shape, Places
    <3> QED BY <3>1, <3>2
  <2>5. log' \in LogRows /\ last \in 0..Len(log') /\ OpenIn(log', "turn") = OpenIn(log, "turn")
    BY <1>d, <2>2, <2>3, AppendsRow
  <2>6. Rest
    BY <2>3, <2>4, <2>5 DEF Rest, Shape, Places, CutFixed, OneWrite
  <2> QED BY <1>17, <1>c, <1>q, <2>2, <2>6 DEF AppendContext, Left, turn
<1>18. CASE Restart
  <2>1. PICK l : l = log
    OBVIOUS
  <2>2. l \in LogRows /\ Len(l) \in Nat /\ DOMAIN l = 1..Len(l) /\ l \in Seq(Rows)
    BY <2>1, LogRowsFacts DEF Shape, Places
  <2>3. PICK k : k = SettledOf(l, "failed")
    OBVIOUS
  <2>4. k \in LogRows /\ Len(k) = Len(l) /\ OpenIn(k, "turn") = {}
    BY <2>2, <2>3, RestartTyped
  <2>5. log' = k
    BY <1>18, <2>1, <2>3 DEF Restart, SettledOf
  <2>6. mem' \in Seq(Messages)
    BY <1>18, <2>1, <2>2, ReloadFacts DEF Restart
  <2>7. last' \in 0..Len(l)
    <3> DEFINE rows == {i \in DOMAIN l : l[i].state = "written"}
    <3>1. last' = IF rows = {} THEN 0 ELSE CHOOSE i \in rows : \A j \in rows : j <= i
      BY <1>18, <2>1 DEF Restart
    <3>2. rows \subseteq 0..Len(l)
      BY <2>2
    <3> HIDE DEF rows
    <3>3. rows # {} => \E i \in rows : \A j \in rows : j <= i
      BY <2>2, <3>2, GreatestExists
    <3>4. CASE rows = {}
      BY <2>2, <3>1, <3>4
    <3>5. CASE rows # {}
      BY <3>1, <3>2, <3>3, <3>5
    <3> QED BY <3>4, <3>5
  <2>8. 0 \in 0..Len(mem') /\ Go("idle")
    BY <1>18, <2>6, LenProperties DEF Restart
  <2>9. Rest
    BY <2>4, <2>5, <2>6, <2>7, <2>8 DEF Rest, Places, Go, Phases, CutFixed, OneWrite
  <2> QED BY <1>18, <1>c, <1>q, <2>9 DEF Restart, Left
<1>19. CASE UNCHANGED vars
  BY <1>19 DEF vars, turn, Shape, Counts, Places, CutFixed, OneWrite
<1> QED BY <1>1, <1>2, <1>3, <1>4, <1>5, <1>6, <1>7, <1>8, <1>9, <1>10, <1>11, <1>12, <1>13,
           <1>14, <1>15, <1>16, <1>17, <1>18, <1>19 DEF Next

\* Every variable keeps its domain; a row names an earlier row as its parent.
THEOREM LogTyped == Spec => []TypeOK
<1>1. Shape => TypeOK
  <2> SUFFICES ASSUME Shape PROVE TypeOK
    OBVIOUS
  <2>1. /\ DOMAIN log = 1..Len(log)
        /\ \A i \in 1..Len(log) :
             /\ log[i].parent \in 0..(i - 1)
             /\ log[i].writer \in {"turn", "user"} /\ log[i].messages \in Seq(Messages)
             /\ log[i].snapshot \in BOOLEAN /\ log[i].state \in {"open", "written", "failed"}
    BY LogRowsFacts DEF Shape, Places
  <2> QED BY <2>1 DEF TypeOK, Shape, Counts, Places
<1> QED BY <1>1, ShapeInit, ShapeStep, PTL DEF Spec

-----------------------------------------------------------------------------
(* The chain of parents                                                    *)

\* One writer at a time is at work.
Linear == AllDepartures \ {"context", "outside"}

OpensIn(l) == OpenIn(l, "turn") \cup OpenIn(l, "user")

\* The written rows of l are one chain that ends at head, and what is open
\* continues it.
HeadsAt(l, head) ==
  /\ \A i, j \in OpensIn(l) : i = j
  /\ \A i \in OpensIn(l) : l[i].parent = head
  /\ head = 0 \/ head \in WrittenIn(l)
  /\ \A j \in WrittenIn(l) : j <= head
  /\ \A i \in WrittenIn(l) :
       /\ l[i].parent = 0 \/ l[i].parent \in WrittenIn(l)
       /\ \A j \in WrittenIn(l) : ~(l[i].parent < j /\ j < i)

\* The head is the last row, and nobody writes beside the query loop.
Links ==
  /\ HeadsAt(log, last)
  /\ phase \notin {"idle", "writing"} => OpensIn(log) = {}
  /\ phase = "writing" => OpenIn(log, "user") = {}

Chain == Tolerates(Linear) => Links

\* What a run tolerates after a step it tolerated before.
LEMMA DepartsTolerates ==
  ASSUME NEW X, Tolerates(X)', NEW ds, Departs(ds)
  PROVE  Tolerates(X) /\ ds \subseteq X
BY DEF Tolerates, Departs

\* The open rows are those of either writer.
LEMMA OpenRowsIn ==
  ASSUME Shape
  PROVE  OpenRows = OpensIn(log) /\ OpenOf("turn") = OpenIn(log, "turn")
         /\ OpenOf("user") = OpenIn(log, "user")
<1>1. DOMAIN log = 1..Len(log) /\ \A i \in 1..Len(log) : log[i].writer \in {"turn", "user"}
  BY LogRowsFacts DEF Shape, Places
<1> QED BY <1>1 DEF OpenRows, OpenOf, OpensIn, OpenIn

\* A row appended to a whole chain continues it from the head.
LEMMA HeadsAppend ==
  ASSUME NEW l \in LogRows, NEW k \in LogRows, NEW n, NEW head, HeadsAt(l, head), OpensIn(l) = {},
         \A i \in 1..Len(l) : k[i] = l[i],
         OpensIn(k) \subseteq {n}, k[n].parent = head, WrittenIn(k) = WrittenIn(l)
  PROVE  HeadsAt(k, head)
<1>1. \A i \in WrittenIn(l) : k[i] = l[i]
  BY DEF WrittenIn
<1> QED BY <1>1 DEF HeadsAt

\* The only open write ends: the head is its row, or what it was.
LEMMA HeadsBecome ==
  ASSUME NEW l \in LogRows, NEW head, HeadsAt(l, head), NEW i \in OpensIn(l),
         NEW s \in {"written", "failed"}
  PROVE  LET k == BecomeOf(l, i, s)
         IN  /\ OpensIn(k) = {}
             /\ s = "written" => HeadsAt(k, i)
             /\ s = "failed" => HeadsAt(k, head)
<1> PICK k : k = BecomeOf(l, i, s)
  OBVIOUS
<1>1. i \in 1..Len(l) /\ l[i].state = "open" /\ Len(l) \in Nat
  BY LogRowsFacts DEF OpensIn, OpenIn
<1>2. /\ k \in LogRows /\ Alike(l, k) /\ Len(k) = Len(l)
      /\ \A w : OpenIn(k, w) = OpenIn(l, w) \ {i}
      /\ WrittenIn(k) = IF s = "written" THEN WrittenIn(l) \cup {i} ELSE WrittenIn(l)
  BY <1>1, BecomeTyped
<1>3. OpensIn(k) = {}
  <2>1. OpensIn(k) = OpensIn(l) \ {i}
    BY <1>2 DEF OpensIn
  <2> QED BY <2>1 DEF HeadsAt
<1>4. \A j \in WrittenIn(k) : j \in 1..Len(l) /\ k[j].parent = l[j].parent /\ k[j].parent \in 0..(j - 1)
  <2> TAKE j \in WrittenIn(k)
  <2>1. j \in 1..Len(l)
    BY <1>2 DEF WrittenIn
  <2>2. k[j].parent = l[j].parent
    BY <1>2, <2>1 DEF Alike
  <2> QED BY <1>2, <2>1, <2>2, LogRowsFacts
<1>5. k[i].parent = head /\ head < i /\ head \in Nat
  <2>1. l[i].parent = head
    BY DEF HeadsAt
  <2>2. k[i].parent = l[i].parent
    BY <1>1, <1>2 DEF Alike
  <2>3. l[i].parent \in 0..(i - 1)
    BY <1>1, LogRowsFacts
  <2> QED BY <1>1, <2>1, <2>2, <2>3
<1>6. CASE s = "written"
  <2>1. WrittenIn(k) = WrittenIn(l) \cup {i}
    BY <1>2, <1>6
  <2>2. \A j \in WrittenIn(k) : j <= i
    <3> TAKE j \in WrittenIn(k)
    <3>1. j \in 1..Len(l)
      BY <1>4
    <3>2. j \in WrittenIn(l) => j <= head
      BY DEF HeadsAt
    <3> QED BY <1>1, <1>5, <2>1, <3>1, <3>2
  <2>3. ASSUME NEW j \in WrittenIn(k)
        PROVE  /\ k[j].parent = 0 \/ k[j].parent \in WrittenIn(k)
               /\ \A m \in WrittenIn(k) : ~(k[j].parent < m /\ m < j)
    <3>1. CASE j = i
      <4>1. head = 0 \/ head \in WrittenIn(k)
        BY <2>1 DEF HeadsAt
      <4>2. ASSUME NEW m \in WrittenIn(k) PROVE ~(head < m /\ m < i)
        <5>1. m \in 1..Len(l)
          BY <1>4
        <5>2. m = i \/ m <= head
          BY <2>1 DEF HeadsAt
        <5> QED BY <1>1, <1>5, <5>1, <5>2
      <4> QED BY <1>5, <3>1, <4>1, <4>2
    <3>2. CASE j # i
      <4>1. j \in WrittenIn(l) /\ j <= head
        BY <2>1, <3>2 DEF HeadsAt
      <4>2. l[j].parent = 0 \/ l[j].parent \in WrittenIn(k)
        BY <2>1, <4>1 DEF HeadsAt
      <4>3. ASSUME NEW m \in WrittenIn(k) PROVE ~(l[j].parent < m /\ m < j)
        <5>1. CASE m \in WrittenIn(l)
          BY <4>1, <5>1 DEF HeadsAt
        <5>2. CASE m = i
          <6>1. j \in 1..Len(l)
            BY <1>4
          <6> QED BY <1>1, <1>5, <4>1, <5>2, <6>1
        <5> QED BY <2>1, <5>1, <5>2
      <4> QED BY <1>4, <4>2, <4>3
    <3> QED BY <3>1, <3>2
  <2>4. i \in WrittenIn(k)
    BY <2>1
  <2>5. HeadsAt(k, i)
    BY <1>3, <2>2, <2>3, <2>4 DEF HeadsAt
  <2> QED BY <1>3, <1>6, <2>5
<1>7. CASE s = "failed"
  <2>1. WrittenIn(k) = WrittenIn(l)
    BY <1>2, <1>7
  <2>2. HeadsAt(k, head)
    BY <1>3, <1>4, <2>1 DEF HeadsAt
  <2> QED BY <1>3, <1>7, <2>2
<1> QED BY <1>6, <1>7

\* A restart finds the head again as the last written row.
LEMMA HeadsRestart ==
  ASSUME NEW l \in LogRows, NEW head, HeadsAt(l, head),
         NEW top, top = IF WrittenIn(l) = {} THEN 0
                        ELSE CHOOSE i \in WrittenIn(l) : \A j \in WrittenIn(l) : j <= i
  PROVE  HeadsAt(SettledOf(l, "failed"), top) /\ OpensIn(SettledOf(l, "failed")) = {}
<1> PICK k : k = SettledOf(l, "failed")
  OBVIOUS
<1>1. /\ k \in LogRows /\ Alike(l, k) /\ \A w : OpenIn(k, w) = {}
      /\ WrittenIn(k) = WrittenIn(l)
  BY RestartTyped
<1>2. OpensIn(k) = {}
  BY <1>1 DEF OpensIn
<1>3. \A j \in WrittenIn(l) : k[j].parent = l[j].parent
  BY <1>1 DEF Alike, WrittenIn
<1>4. /\ top = 0 \/ top \in WrittenIn(l)
      /\ \A j \in WrittenIn(l) : j <= top
  <2>1. WrittenIn(l) \subseteq 0..Len(l) /\ Len(l) \in Nat
    BY LogRowsFacts DEF WrittenIn
  <2>2. WrittenIn(l) # {} => \E i \in WrittenIn(l) : \A j \in WrittenIn(l) : j <= i
    BY <2>1, GreatestExists
  <2> QED BY <2>2
<1>5. HeadsAt(k, top)
  BY <1>1, <1>2, <1>3, <1>4 DEF HeadsAt
<1> QED BY <1>2, <1>5

\* A step that leaves log and head alone keeps the links.
LEMMA LinksStill ==
  ASSUME Links, phase \notin {"idle", "writing"}, log' = log, last' = last
  PROVE  Links'
BY DEF Links, OpensIn

\* An open row at the end, with the head as its parent, keeps the links.
LEMMA LinksAppend ==
  ASSUME Shape, Links, OpensIn(log) = {}, NEW w \in {"turn", "user"},
         NEW ms \in Seq(Messages), NEW snap \in BOOLEAN, snap \/ Len(ms) = 1,
         log' = Append(log, Row(w, ms, snap)), last' = last,
         (w = "turn" /\ phase' = "writing") \/ (w = "user" /\ phase' = "idle")
  PROVE  Links'
<1>1. /\ log' \in LogRows /\ \A i \in 1..Len(log) : log'[i] = log[i]
      /\ log'[Len(log) + 1].parent = last
      /\ OpenIn(log', w) = OpenIn(log, w) \cup {Len(log) + 1}
      /\ \A v : v # w => OpenIn(log', v) = OpenIn(log, v)
      /\ WrittenIn(log') = WrittenIn(log)
  BY AppendsRow DEF Shape, Domains
<1>2. OpensIn(log') \subseteq {Len(log) + 1}
  BY <1>1 DEF OpensIn
<1>3. log \in LogRows
  BY DEF Shape, Places
<1>4. HeadsAt(log', last)
  BY <1>1, <1>2, <1>3, HeadsAppend DEF Links
<1>5. w = "turn" => OpenIn(log', "user") = {}
  BY <1>1 DEF OpensIn
<1> QED BY <1>4, <1>5 DEF Links

\* So does a history event that is yielded.
LEMMA LinksYields ==
  ASSUME Shape, Links, OpensIn(log) = {}, phase # "writing", NEW h, NEW ms \in Seq(Messages),
         NEW snap \in BOOLEAN, NEW deep \in BOOLEAN, NEW next,
         snap \/ Len(ms) = 1, Yields(h, ms, snap, deep, next), last' = last
  PROVE  Links'
<1>1. CASE deep
  <2>1. log' = log
    BY <1>1 DEF Yields
  <2> QED BY <2>1 DEF Links, OpensIn
<1>2. CASE ~deep
  <2>1. log' = Append(log, Row("turn", ms, snap)) /\ phase' = "writing"
    BY <1>2 DEF Yields
  <2> QED BY <2>1, LinksAppend
<1> QED BY <1>1, <1>2

\* So does a message that is appended and yielded.
LEMMA LinksAppends ==
  ASSUME Shape, Links, OpensIn(log) = {}, phase # "writing", NEW m \in Messages,
         NEW deep \in BOOLEAN, NEW next, Appends(m, deep, next), last' = last
  PROVE  Links'
<1>1. PICK h, ms : h = Append(mem, m) /\ ms = <<m>>
  OBVIOUS
<1>2. ms \in Seq(Messages) /\ Len(ms) = 1
  BY <1>1
<1>3. Yields(h, ms, FALSE, deep, next)
  BY <1>1 DEF Appends
<1> QED BY <1>2, <1>3, LinksYields

\* So does the end of the only open write.
LEMMA LinksBecome ==
  ASSUME Shape, Links, NEW i \in OpensIn(log), NEW s \in {"written", "failed"},
         log' = Become(i, s), last' = IF s = "written" THEN i ELSE last
  PROVE  Links'
<1> PICK l, k : l = log /\ k = BecomeOf(l, i, s)
  OBVIOUS
<1>1. l \in LogRows /\ HeadsAt(l, last) /\ i \in OpensIn(l)
  BY DEF Shape, Places, Links
<1>2. /\ OpensIn(k) = {}
      /\ s = "written" => HeadsAt(k, i)
      /\ s = "failed" => HeadsAt(k, last)
  BY <1>1, HeadsBecome
<1>3. log' = k
  BY DEF Become, BecomeOf
<1> QED BY <1>2, <1>3 DEF Links, OpensIn

\* Every step keeps the chain, as long as one writer is at work.
LEMMA ChainStep == Shape /\ Chain /\ [Next]_vars => Chain'
<1> SUFFICES ASSUME Shape, Chain, [Next]_vars, Tolerates(Linear)' PROVE Links'
  BY DEF Chain
<1> DEFINE Same == UNCHANGED <<departs, spent>>
           Left == \E ds : Departs(ds)
<1>t. Same \/ Left => Links
  BY DepartsTolerates DEF Chain, Tolerates
<1>d. Domains /\ mem \in Seq(Messages) /\ leaked \in BOOLEAN
  BY DEF Shape, Domains, Counts, Places
<1>r. /\ OpenRows = OpensIn(log) /\ OpenOf("turn") = OpenIn(log, "turn")
      /\ OpenOf("user") = OpenIn(log, "user")
  BY OpenRowsIn
<1>w. \A c, d : When(c, d) = IF c THEN {d} ELSE {}
  BY DEF When
<1>1. CASE Prompt
  <2>1. PICK m, c : m = Message("user", {}) /\ c = (OpenRows # {})
    OBVIOUS
  <2>2. m \in Messages
    BY <1>1, <1>d, <2>1, MessageTyped DEF Prompt
  <2>3. Appends(m, FALSE, "prepare") /\ phase # "writing" /\ last' = last /\ Departs(When(c, "context"))
    BY <1>1, <2>1 DEF Prompt
  <2>4. ~c
    BY <1>w, <2>3, DepartsTolerates DEF Linear
  <2>5. Links
    BY <1>t, <2>3
  <2>6. OpensIn(log) = {}
    BY <1>r, <2>1, <2>4
  <2> QED BY <2>2, <2>3, <2>5, <2>6, LinksAppends
<1>2. CASE Ready
  BY <1>2, <1>t, LinksStill DEF Ready
<1>3. CASE Microcompact
  BY <1>3, <1>t, LinksStill DEF Microcompact
<1>4. CASE StartSummary
  <2>1. Left /\ phase = "prepare" /\ log' = log /\ last' = last
    BY <1>4 DEF StartSummary
  <2> QED BY <1>t, <2>1, LinksStill
<1>5. CASE Summarise
  <2>1. PICK h : h = Compacted(mem, cut)
    OBVIOUS
  <2>2. h \in Seq(Messages)
    BY <1>d, <2>1, CompactedTyped DEF Shape, Places
  <2>3. Yields(h, h, TRUE, leaked, "streaming") /\ phase = "compacting" /\ last' = last /\ Same
    BY <1>5, <2>1 DEF Summarise
  <2>4. Links /\ OpensIn(log) = {}
    BY <1>t, <2>3 DEF Links
  <2> QED BY <1>d, <2>2, <2>3, <2>4, LinksYields
<1>6. CASE Answer
  <2>1. PICK picks \in Asks :
          LET m    == Message("assistant", {made + 1} \X picks)
              next == IF picks = {} THEN "stop" ELSE "tools"
          IN  /\ mem' = Append(mem, m)
              /\ IF leaked THEN phase' = next /\ after' = "idle" /\ UNCHANGED log
                 ELSE /\ log' = Append(log, Row("turn", <<m>>, FALSE))
                      /\ phase' = "writing" /\ after' = next
    BY <1>6 DEF Answer
  <2>2. PICK m : m = Message("assistant", {made + 1} \X picks)
    OBVIOUS
  <2>3. made < MaxMessages /\ phase = "streaming" /\ Same /\ last' = last
    BY <1>6 DEF Answer
  <2>4. {made + 1} \X picks \subseteq Calls
    <3>1. made + 1 \in Numbers /\ picks \subseteq {1, 2}
      BY <2>3, LogAssumption DEF Numbers, Shape, Counts
    <3> QED BY <3>1 DEF Calls
  <2>5. <<m>> \in Seq(Messages) /\ Len(<<m>>) = 1
    BY <1>d, <2>2, <2>3, <2>4, MessageTyped
  <2>6. Links /\ OpensIn(log) = {}
    BY <1>t, <2>3 DEF Links
  <2>7. CASE leaked
    BY <2>1, <2>3, <2>6, <2>7, LinksStill
  <2>8. CASE ~leaked
    <3>1. log' = Append(log, Row("turn", <<m>>, FALSE)) /\ phase' = "writing"
      BY <2>1, <2>2, <2>8
    <3> QED BY <2>3, <2>5, <2>6, <3>1, LinksAppend
  <2> QED BY <2>7, <2>8
<1>7. CASE EmptyAnswer
  BY <1>7, <1>t, LinksStill DEF EmptyAnswer
<1>8. CASE Retry
  BY <1>8, <1>t, LinksStill DEF Retry
<1>9. CASE Refused
  BY <1>9, <1>t, LinksStill DEF Refused
<1>10. CASE Recompact
  BY <1>10, <1>t, LinksStill DEF Recompact
<1>11. CASE End
  BY <1>11, <1>t, LinksStill DEF End
<1>12. CASE ToolsDone
  <2>1. PICK done \in SUBSET CallsOfLast(mem), deep \in BOOLEAN :
          /\ Departs(When(done # CallsOfLast(mem), "lost") \cup When(deep # leaked, "unlogged"))
          /\ IF done = {} THEN Go("prepare") /\ UNCHANGED <<mem, log>>
             ELSE Appends(Message("results", done), deep, "prepare")
    BY <1>12 DEF ToolsDone
  <2>2. phase = "tools" /\ made < MaxMessages /\ last' = last
    BY <1>12 DEF ToolsDone
  <2>3. done \subseteq Calls
    BY <1>d, CallsOfLastFacts
  <2>4. PICK m : m = Message("results", done)
    OBVIOUS
  <2>5. m \in Messages
    BY <1>d, <2>2, <2>3, <2>4, MessageTyped
  <2>6. Links /\ OpensIn(log) = {}
    BY <1>t, <2>1, <2>2 DEF Links
  <2>7. CASE done = {}
    BY <2>1, <2>2, <2>6, <2>7, LinksStill
  <2>8. CASE done # {}
    BY <2>1, <2>2, <2>4, <2>5, <2>6, <2>8, LinksAppends
  <2> QED BY <2>7, <2>8
<1>13. CASE Cancel
  <2>1. Pending(mem) \subseteq Calls
    BY <1>d, CallsOfLastFacts
  <2>2. PICK m : m = Message("results", Pending(mem))
    OBVIOUS
  <2>3. m \in Messages
    BY <1>13, <1>d, <2>1, <2>2, MessageTyped DEF Cancel
  <2>4. /\ phase \notin {"idle", "writing"} /\ last' = last /\ Left
        /\ IF Pending(mem) = {} THEN Go("idle") /\ UNCHANGED <<mem, log>>
           ELSE Appends(m, leaked, "idle")
    BY <1>13, <2>2 DEF Cancel
  <2>5. Links /\ OpensIn(log) = {}
    BY <1>t, <2>4 DEF Links
  <2>6. CASE Pending(mem) = {}
    BY <2>4, <2>5, <2>6, LinksStill
  <2>7. CASE Pending(mem) # {}
    BY <1>d, <2>3, <2>4, <2>5, <2>7, LinksAppends
  <2> QED BY <2>6, <2>7
<1>14. CASE CancelOutside
  <2>1. PICK a : a = Abandons
    OBVIOUS
  <2>2. Departs({"outside"} \cup a)
    BY <1>14, <2>1 DEF CancelOutside
  <2> QED BY <2>2, DepartsTolerates DEF Linear
<1>15. CASE \E i \in DOMAIN log : Write(i)
  <2>1. PICK i \in DOMAIN log : Write(i)
    BY <1>15
  <2>2. Links /\ log' = Become(i, "written") /\ last' = i /\ i \in OpenRows
    BY <1>t, <2>1 DEF Write, OpenRows
  <2> QED BY <1>r, <2>2, LinksBecome
<1>16. CASE \E i \in DOMAIN log : WriteFails(i)
  <2>1. PICK i \in DOMAIN log : WriteFails(i)
    BY <1>16
  <2>2. Links /\ log' = Become(i, "failed") /\ last' = last /\ i \in OpenRows
    BY <1>t, <2>1 DEF WriteFails, OpenRows
  <2> QED BY <1>r, <2>2, LinksBecome
<1>17. CASE AppendContext
  <2>1. PICK m, c : m = Message("user", {}) /\ c = (phase # "idle")
    OBVIOUS
  <2>2. <<m>> \in Seq(Messages) /\ Len(<<m>>) = 1
    BY <1>17, <1>d, <2>1, MessageTyped DEF AppendContext
  <2>3. log' = Append(log, Row("user", <<m>>, FALSE)) /\ last' = last /\ phase' = phase
        /\ OpenOf("user") = {} /\ Departs(When(c, "context"))
    BY <1>17, <2>1 DEF AppendContext, turn
  <2>4. phase = "idle"
    <3>1. ~c
      BY <1>w, <2>3, DepartsTolerates DEF Linear
    <3> QED BY <2>1, <3>1
  <2>5. OpensIn(log) = {}
    BY <1>r, <2>3, <2>4 DEF OpensIn, Shape, OneWrite
  <2>6. Links
    BY <1>t, <2>3
  <2> QED BY <2>2, <2>3, <2>4, <2>5, <2>6, LinksAppend
<1>18. CASE Restart
  <2>1. PICK l, top : l = log /\ top = last'
    OBVIOUS
  <2>2. l \in LogRows /\ HeadsAt(l, last) /\ DOMAIN l = 1..Len(l)
    BY <1>18, <1>t, <2>1, LogRowsFacts DEF Restart, Links, Shape, Places
  <2>3. top = IF WrittenIn(l) = {} THEN 0
              ELSE CHOOSE i \in WrittenIn(l) : \A j \in WrittenIn(l) : j <= i
    <3> DEFINE rows == {i \in DOMAIN l : l[i].state = "written"}
    <3>1. rows = WrittenIn(l)
      BY <2>2 DEF WrittenIn
    <3>2. last' = IF rows = {} THEN 0 ELSE CHOOSE i \in rows : \A j \in rows : j <= i
      BY <1>18, <2>1 DEF Restart
    <3> HIDE DEF rows
    <3> QED BY <2>1, <3>1, <3>2
  <2>4. log' = SettledOf(l, "failed")
    BY <1>18, <2>1 DEF Restart, SettledOf
  <2> QED BY <2>1, <2>2, <2>3, <2>4, HeadsRestart DEF Links, OpensIn
<1>19. CASE UNCHANGED vars
  BY <1>19, <1>t DEF vars, turn, Links, OpensIn
<1> QED BY <1>1, <1>2, <1>3, <1>4, <1>5, <1>6, <1>7, <1>8, <1>9, <1>10, <1>11, <1>12, <1>13,
           <1>14, <1>15, <1>16, <1>17, <1>18, <1>19 DEF Next

\* As long as one writer is at work, each event in the log names the one
\* written before it as its parent, through failed writes, cancels and
\* restarts.
THEOREM LogChained == Spec => []Chained
<1>1. Init => Chain
  <2> SUFFICES ASSUME Init PROVE Links
    BY DEF Chain
  <2>1. OpensIn(log) = {} /\ WrittenIn(log) = {}
    <3>1. 1..Len(<<>>) = {}
      OBVIOUS
    <3> QED BY <3>1 DEF Init, OpensIn, OpenIn, WrittenIn
  <2> QED BY <2>1 DEF Init, Links, HeadsAt, OpensIn
<1>2. Shape /\ Chain => Chained
  <2> SUFFICES ASSUME Shape, HeadsAt(log, last), NEW i \in DOMAIN log, log[i].state = "written"
               PROVE  /\ log[i].parent < i
                      /\ \A j \in (log[i].parent + 1)..(i - 1) : log[j].state # "written"
                      /\ log[i].parent = 0 \/ log[log[i].parent].state = "written"
    BY DEF Chain, Chained, Links, Linear
  <2>1. DOMAIN log = 1..Len(log) /\ Len(log) \in Nat /\ log[i].parent \in 0..(i - 1)
    BY LogRowsFacts DEF Shape, Places
  <2>2. i \in WrittenIn(log)
    BY <2>1 DEF WrittenIn
  <2>3. log[i].parent = 0 \/ log[log[i].parent].state = "written"
    BY <2>2 DEF HeadsAt, WrittenIn
  <2>4. ASSUME NEW j \in (log[i].parent + 1)..(i - 1), log[j].state = "written" PROVE FALSE
    <3>1. j \in 1..Len(log) /\ log[i].parent < j /\ j < i
      BY <2>1
    <3>2. j \in WrittenIn(log)
      BY <2>4, <3>1 DEF WrittenIn
    <3> QED BY <2>2, <3>1, <3>2 DEF HeadsAt
  <2> QED BY <2>1, <2>3, <2>4
<1> QED BY <1>1, <1>2, ShapeInit, ShapeStep, ChainStep, PTL DEF Spec

-----------------------------------------------------------------------------
(* The history a reload would give                                         *)

\* The next answer would replace the last message.
EndsAnswered(h) == h # <<>> /\ IsAnswer(Last(h))

\* Where the query loop is, or will be when its event is written.
Ahead == IF phase = "writing" THEN after ELSE phase

\* The log folds to a, the history is h and p was taken back, at this place of
\* the loop.
CalmAt(a, h, p, place, deep) ==
  /\ ~deep /\ place # "recompacting"
  /\ place \in {"prepare", "compacting", "streaming"} => ~EndsAnswered(h)
  /\ place = "stop" => ~EndsAnswered(h) \/ (p = None /\ ~EndsAnswered(Front(h)))
  /\ place = "tools" => p = None /\ EndsAnswered(h) /\ Last(h).calls # {}
  /\ place = "idle" => p = None
  /\ p # None => IsAnswer(p)
  /\ a = h \/ (p # None /\ a = Append(h, p))

Calm   == CalmAt(AfterOf(log), mem, popped, Ahead, leaked)
Steady == Tolerates({"crash", "cut"}) => Calm

\* A history ends with what was appended to it.
LEMMA AppendEnds ==
  ASSUME NEW h \in Seq(Messages), NEW m \in Messages
  PROVE  /\ Append(h, m) \in Seq(Messages) /\ Append(h, m) # <<>>
         /\ Last(Append(h, m)) = m /\ Front(Append(h, m)) = h
         /\ EndsAnswered(Append(h, m)) <=> IsAnswer(m)
<1> PICK k : k = Append(h, m)
  OBVIOUS
<1>1. /\ k \in Seq(Messages) /\ k # <<>> /\ Len(k) = Len(h) + 1 /\ Len(h) \in Nat
      /\ \A i \in 1..Len(h) : k[i] = h[i]
      /\ k[Len(h) + 1] = m
  BY AppendProperties, LenProperties
<1>2. /\ Front(k) \in Seq(Messages) /\ Len(Front(k)) = Len(k) - 1
      /\ \A i \in 1..(Len(k) - 1) : Front(k)[i] = k[i]
      /\ Last(k) = k[Len(k)]
  BY <1>1, FrontFacts
<1>3. Len(Front(k)) = Len(h) /\ \A i \in 1..Len(Front(k)) : Front(k)[i] = h[i]
  BY <1>1, <1>2
<1>4. Front(k) = h
  BY <1>2, <1>3, SeqEqual
<1> QED BY <1>1, <1>2, <1>4 DEF EndsAnswered

\* A history is its front and its last message.
LEMMA FrontLast ==
  ASSUME NEW h \in Seq(Messages), h # <<>>
  PROVE  Append(Front(h), Last(h)) = h /\ Front(h) \in Seq(Messages) /\ Last(h) \in Messages
<1>1. PICK s \in Seq(Messages), e \in Messages : h = Append(s, e)
  BY SequenceEmptyOrAppend
<1> QED BY <1>1, AppendEnds

\* A message applied to a history is appended to it, or takes the place of an
\* answer taken back.
LEMMA ApplyOne ==
  ASSUME NEW h \in Seq(Messages), NEW m \in Messages, NEW row,
         row.messages = <<m>>, row.snapshot = FALSE
  PROVE  /\ ~(EndsAnswered(h) /\ IsAnswer(m)) => Apply(h, row) = Append(h, m)
         /\ EndsAnswered(h) /\ IsAnswer(m) => Apply(h, row) = Append(Front(h), m)
<1>1. h \o <<m>> = Append(h, m)
  BY AppendIsConcat
<1>2. h # <<>> => Front(h) \o <<m>> = Append(Front(h), m)
  BY FrontFacts, AppendIsConcat
<1>3. row.messages[1] = m
  OBVIOUS
<1> QED BY <1>1, <1>2, <1>3 DEF Apply, EndsAnswered

\* A summary does not make an answer the last message.
LEMMA CompactedEnds ==
  ASSUME NEW h \in Seq(Messages), NEW b \in 0..Len(h), ~EndsAnswered(h)
  PROVE  ~EndsAnswered(Compacted(h, b))
<1>1. CASE b = 0
  BY <1>1 DEF Compacted
<1>2. CASE b # 0
  <2>1. Len(h) \in Nat /\ b \in 1..Len(h)
    BY <1>2, LenProperties
  <2> DEFINE s == SubSeq(h, b + 1, Len(h))
  <2>2. \A i \in (b + 1)..Len(h) : h[i] \in Messages
    <3> TAKE i \in (b + 1)..Len(h)
    <3>1. i \in 1..Len(h)
      BY <2>1
    <3> QED BY <3>1, ElementOfSeq
  <2>3. s \in Seq(Messages) /\ Len(s) = Len(h) - b
        /\ \A i \in 1..(Len(h) - b) : s[i] = h[b + i]
    <3>1. /\ SubSeq(h, b + 1, Len(h)) \in Seq(Messages)
          /\ Len(SubSeq(h, b + 1, Len(h))) = IF b + 1 <= Len(h) THEN Len(h) - (b + 1) + 1 ELSE 0
          /\ \A i \in 1..(Len(h) - (b + 1) + 1) : SubSeq(h, b + 1, Len(h))[i] = h[b + 1 + i - 1]
      BY <2>1, <2>2, SubSeqProperties
    <3>2. Len(s) = Len(h) - b
      BY <2>1, <3>1
    <3>3. ASSUME NEW i \in 1..(Len(h) - b) PROVE s[i] = h[b + i]
      <4>1. i \in 1..(Len(h) - (b + 1) + 1) /\ b + 1 + i - 1 = b + i
        BY <2>1
      <4>2. s[i] = h[b + 1 + i - 1]
        BY <3>1, <4>1
      <4> QED BY <4>1, <4>2
    <3> QED BY <3>1, <3>2, <3>3
  <2> HIDE DEF s
  <2>4. PICK c : c = <<Summary>> \o s
    OBVIOUS
  <2>5. <<Summary>> \in Seq(Messages) /\ Len(<<Summary>>) = 1 /\ <<Summary>>[1] = Summary
    BY SummaryTyped
  <2>6. c \in Seq(Messages) /\ Len(c) = 1 + Len(s)
        /\ \A i \in 1..(1 + Len(s)) : c[i] = IF i <= 1 THEN Summary ELSE s[i - 1]
    BY <2>3, <2>4, <2>5, ConcatProperties
  <2>7. c # <<>>
    BY <2>3, <2>6, EmptySeq
  <2>8. Last(c) = c[Len(c)]
    BY <2>6, <2>7, FrontFacts
  <2>9. ~IsAnswer(Summary)
    BY DEF IsAnswer, Summary
  <2>10. CASE b = Len(h)
    <3>1. Len(c) = 1 /\ 1 \in 1..(1 + Len(s))
      BY <2>1, <2>3, <2>6, <2>10
    <3>2. c[Len(c)] = Summary
      <4>1. c[1] = IF 1 <= 1 THEN Summary ELSE s[1 - 1]
        BY <2>6, <3>1
      <4>2. 1 <= 1
        OBVIOUS
      <4> QED BY <3>1, <4>1, <4>2
    <3>3. Compacted(h, b) = c
      BY <1>2, <2>4 DEF Compacted, s
    <3> QED BY <2>8, <2>9, <3>2, <3>3 DEF EndsAnswered
  <2>11. CASE b # Len(h)
    <3>1. Len(c) \in 1..(1 + Len(s)) /\ ~(Len(c) <= 1) /\ Len(c) - 1 = Len(h) - b
          /\ Len(h) - b \in 1..(Len(h) - b) /\ b + (Len(h) - b) = Len(h)
      BY <2>1, <2>3, <2>6, <2>11
    <3>2. c[Len(c)] = h[Len(h)]
      BY <2>3, <2>6, <3>1
    <3>3. h # <<>> /\ Last(h) = h[Len(h)]
      <4>1. h # <<>>
        BY <2>1, EmptySeq
      <4> QED BY <4>1, FrontFacts
    <3>4. ~IsAnswer(Last(c))
      BY <2>8, <3>2, <3>3 DEF EndsAnswered
    <3>5. Compacted(h, b) = c
      BY <1>2, <2>4 DEF Compacted, s
    <3> QED BY <3>4, <3>5 DEF EndsAnswered
  <2> QED BY <2>10, <2>11
<1> QED BY <1>1, <1>2

\* A message that is no answer is appended to memory and log alike.
LEMMA CalmAppend ==
  ASSUME NEW h \in Seq(Messages), NEW a \in Seq(Messages), NEW p, NEW q, NEW deep,
         CalmAt(a, h, p, q, deep), p = None,
         NEW m \in Messages, ~IsAnswer(m), NEW place \in {"prepare", "idle"},
         NEW row, row.messages = <<m>>, row.snapshot = FALSE
  PROVE  CalmAt(Apply(a, row), Append(h, m), p, place, deep)
<1>1. a = h /\ ~deep
  BY DEF CalmAt
<1>2. Apply(a, row) = Append(h, m)
  BY <1>1, ApplyOne
<1>3. ~EndsAnswered(Append(h, m))
  BY AppendEnds
<1> QED BY <1>1, <1>2, <1>3 DEF CalmAt

\* An answer is appended to the memory, and in the log it also replaces the
\* one taken back.
LEMMA CalmAnswer ==
  ASSUME NEW h \in Seq(Messages), NEW a \in Seq(Messages), NEW p \in Messages \cup {None}, NEW deep,
         CalmAt(a, h, p, "streaming", deep),
         NEW m \in Messages, IsAnswer(m), NEW place \in {"stop", "tools"},
         place = "tools" => m.calls # {},
         NEW row, row.messages = <<m>>, row.snapshot = FALSE
  PROVE  CalmAt(Apply(a, row), Append(h, m), None, place, deep)
<1>1. ~deep /\ ~EndsAnswered(h)
  BY DEF CalmAt
<1>2. Apply(a, row) = Append(h, m)
  <2>1. CASE a = h
    BY <1>1, <2>1, ApplyOne
  <2>2. CASE p # None /\ a = Append(h, p)
    <3>1. p \in Messages /\ IsAnswer(p)
      BY <2>2 DEF CalmAt
    <3>2. EndsAnswered(a) /\ Front(a) = h
      BY <2>2, <3>1, AppendEnds
    <3> QED BY <3>2, ApplyOne
  <2> QED BY <2>1, <2>2 DEF CalmAt
<1>3. EndsAnswered(Append(h, m)) /\ Last(Append(h, m)) = m /\ Front(Append(h, m)) = h
  BY AppendEnds
<1> QED BY <1>1, <1>2, <1>3 DEF CalmAt

\* An answer that is taken back stays at the end of the log.
LEMMA CalmRetry ==
  ASSUME NEW h \in Seq(Messages), NEW a \in Seq(Messages), NEW p, NEW deep,
         CalmAt(a, h, p, "stop", deep)
  PROVE  /\ EndsAnswered(h) => CalmAt(a, Front(h), Last(h), "prepare", deep)
         /\ ~EndsAnswered(h) => CalmAt(a, h, p, "prepare", deep)
<1>1. ASSUME EndsAnswered(h) PROVE CalmAt(a, Front(h), Last(h), "prepare", deep)
  <2>1. ~deep /\ p = None /\ ~EndsAnswered(Front(h)) /\ a = h
    BY <1>1 DEF CalmAt
  <2>2. Append(Front(h), Last(h)) = h /\ Last(h) \in Messages /\ IsAnswer(Last(h))
    BY <1>1, FrontLast DEF EndsAnswered
  <2>3. Last(h) # None
    BY <2>2 DEF IsAnswer, None
  <2> QED BY <2>1, <2>2, <2>3 DEF CalmAt
<1>2. ASSUME ~EndsAnswered(h) PROVE CalmAt(a, h, p, "prepare", deep)
  BY <1>2 DEF CalmAt
<1> QED BY <1>1, <1>2

\* A snapshot makes the log's history that of the memory.
LEMMA CalmCompact ==
  ASSUME NEW h \in Seq(Messages), NEW a, NEW p, NEW deep, NEW b \in 0..Len(h),
         CalmAt(a, h, p, "compacting", deep),
         NEW row, row.messages = Compacted(h, b), row.snapshot = TRUE
  PROVE  CalmAt(Apply(a, row), Compacted(h, b), p, "streaming", deep)
<1>1. Apply(a, row) = Compacted(h, b)
  BY DEF Apply
<1>2. ~EndsAnswered(Compacted(h, b))
  BY CompactedEnds DEF CalmAt
<1> QED BY <1>1, <1>2 DEF CalmAt

\* The history a reload would give is a function of the log.
LEMMA AfterIs ==
  ASSUME Shape
  PROVE  After = AfterOf(log) /\ AfterOf(log) \in Seq(Messages)
<1>1. After = AfterOf(log)
  BY DEF After, Settled, AfterOf, SettledOf
<1>2. PICK l, k : l = log /\ k = SettledOf(l, "written")
  OBVIOUS
<1>3. k \in LogRows
  BY <1>2, SettledTyped DEF Shape, Places
<1>4. Reload(k) \in Seq(Messages)
  BY <1>3, ReloadFacts DEF LogRows
<1> QED BY <1>1, <1>2, <1>4 DEF AfterOf

\* A message other than an answer is appended and its event yielded.
LEMMA CalmAppends ==
  ASSUME Shape, Calm, phase # "writing", popped = None, NEW m \in Messages, ~IsAnswer(m),
         NEW next \in {"prepare", "idle"}, Appends(m, FALSE, next), leaked' = FALSE
  PROVE  Calm'
<1>1. PICK row : row = Row("turn", <<m>>, FALSE)
  OBVIOUS
<1>2. /\ mem' = Append(mem, m) /\ log' = Append(log, row)
      /\ phase' = "writing" /\ after' = next /\ popped' = popped
  BY <1>1 DEF Appends, Yields
<1>3. <<m>> \in Seq(Messages) /\ Len(<<m>>) = 1 /\ Domains
  BY DEF Shape, Domains
<1>4. row.messages = <<m>> /\ row.snapshot = FALSE
  BY <1>1, <1>3, RowTyped
<1>5. AfterOf(log') = Apply(AfterOf(log), row)
  BY <1>1, <1>2, <1>3, AppendsRow
<1>6. mem \in Seq(Messages) /\ AfterOf(log) \in Seq(Messages)
  BY AfterIs DEF Shape, Places
<1>7. PICK a, h, q, p : a = AfterOf(log) /\ h = mem /\ q = Ahead /\ p = popped
  OBVIOUS
<1>8. CalmAt(a, h, p, q, leaked)
  BY <1>7 DEF Calm
<1>8a. ~leaked
  BY <1>8 DEF CalmAt
<1>9. CalmAt(a, h, p, q, FALSE)
  BY <1>8 DEF CalmAt
<1>10. CalmAt(Apply(a, row), Append(h, m), p, next, FALSE)
  BY <1>4, <1>6, <1>7, <1>9, CalmAppend
<1>11. Ahead' = next
  BY <1>2 DEF Ahead
<1> QED BY <1>2, <1>5, <1>7, <1>10, <1>11 DEF Calm

\* Every step keeps memory and log equal, but for the answer taken back.
LEMMA SteadyStep == Shape /\ Shape' /\ Steady /\ [Next]_vars => Steady'
<1> SUFFICES ASSUME Shape, Shape', Steady, [Next]_vars, Tolerates({"crash", "cut"})' PROVE Calm'
  BY DEF Steady
<1> DEFINE Same == UNCHANGED <<departs, spent>>
           Left == \E ds : Departs(ds)
<1>t. Same \/ Left => Calm
  BY DepartsTolerates DEF Steady, Tolerates
<1>d. Domains /\ mem \in Seq(Messages) /\ leaked \in BOOLEAN
      /\ popped \in Messages \cup {None} /\ after # "writing"
  BY DEF Shape, Domains, Counts, Places
<1>w. \A c, d : When(c, d) = IF c THEN {d} ELSE {}
  BY DEF When
<1>a. AfterOf(log) \in Seq(Messages)
  BY AfterIs
<1>b. \A ds : Departs(ds) => ds \subseteq {"crash", "cut"}
  BY DepartsTolerates
<1>e. Departs(Abandons) => popped = None
  <2>1. PICK c : c = (popped # None)
    OBVIOUS
  <2>2. Abandons = When(c, "abandon")
    BY <2>1 DEF Abandons
  <2>3. Departs(Abandons) => ~c
    BY <1>b, <1>w, <2>2
  <2> QED BY <2>1, <2>3
<1>1. CASE Prompt
  <2>1. PICK m : m = Message("user", {})
    OBVIOUS
  <2>2. m \in Messages /\ m.by = "user"
    BY <1>1, <1>d, <2>1, MessageTyped DEF Prompt
  <2>3. Appends(m, FALSE, "prepare") /\ phase = "idle" /\ leaked' = FALSE /\ Left
    BY <1>1, <2>1 DEF Prompt
  <2>4. Calm
    BY <1>t, <2>3
  <2>5. popped = None
    BY <2>3, <2>4 DEF Calm, CalmAt, Ahead
  <2>6. ~IsAnswer(m)
    BY <2>2 DEF IsAnswer
  <2> QED BY <2>2, <2>3, <2>4, <2>5, <2>6, CalmAppends
<1>2. CASE Ready
  <2>1. Calm /\ phase = "prepare" /\ phase' = "streaming" /\ UNCHANGED <<mem, log, leaked, popped>>
    BY <1>2, <1>t DEF Ready, Go
  <2> QED BY <2>1 DEF Calm, CalmAt, Ahead
<1>3. CASE Microcompact
  BY <1>3, <1>b DEF Microcompact
<1>4. CASE StartSummary
  <2>1. PICK h, c, d : h = Microcompacted(mem) /\ c = (h # mem) /\ d = Cuts(h, Boundary(h))
    OBVIOUS
  <2>2. Departs(When(c, "micro") \cup When(d, "cut")) /\ mem' = h
    BY <1>4, <2>1 DEF StartSummary
  <2>3. ~c
    BY <1>b, <1>w, <2>2
  <2>4. Calm /\ mem' = mem /\ phase = "prepare" /\ phase' = "compacting"
        /\ UNCHANGED <<log, leaked, popped>>
    BY <1>4, <1>t, <2>1, <2>2, <2>3 DEF StartSummary
  <2> QED BY <2>4 DEF Calm, CalmAt, Ahead
<1>5. CASE Summarise
  <2>1. PICK h : h = Compacted(mem, cut)
    OBVIOUS
  <2>2. h \in Seq(Messages) /\ cut \in 0..Len(mem)
    BY <1>d, <2>1, CompactedTyped DEF Shape, Places
  <2>3. Yields(h, h, TRUE, leaked, "streaming") /\ phase = "compacting" /\ Same /\ leaked' = leaked
    BY <1>5, <2>1 DEF Summarise
  <2>4. Calm /\ Ahead = "compacting"
    BY <1>t, <2>3 DEF Ahead
  <2>5. PICK a, q, p, row : a = AfterOf(log) /\ q = mem /\ p = popped /\ row = Row("turn", h, TRUE)
    OBVIOUS
  <2>6. CalmAt(a, q, p, "compacting", leaked) /\ ~leaked
    BY <2>4, <2>5 DEF Calm, CalmAt
  <2>7. log' = Append(log, row) /\ mem' = h /\ phase' = "writing" /\ after' = "streaming"
        /\ popped' = popped
    BY <2>3, <2>5, <2>6 DEF Yields
  <2>8. row.messages = h /\ row.snapshot = TRUE
    BY <1>d, <2>2, <2>5, RowTyped
  <2>9. AfterOf(log') = Apply(a, row)
    BY <1>d, <2>2, <2>5, <2>7, AppendsRow
  <2>10. CalmAt(Apply(a, row), h, p, "streaming", leaked)
    BY <1>d, <2>1, <2>2, <2>5, <2>6, <2>8, CalmCompact
  <2>11. Ahead' = "streaming"
    BY <2>7 DEF Ahead
  <2> QED BY <2>3, <2>5, <2>7, <2>9, <2>10, <2>11 DEF Calm
<1>6. CASE Answer
  <2>1. PICK picks \in Asks :
          LET m    == Message("assistant", {made + 1} \X picks)
              next == IF picks = {} THEN "stop" ELSE "tools"
          IN  /\ mem' = Append(mem, m)
              /\ IF leaked THEN phase' = next /\ after' = "idle" /\ UNCHANGED log
                 ELSE /\ log' = Append(log, Row("turn", <<m>>, FALSE))
                      /\ phase' = "writing" /\ after' = next
    BY <1>6 DEF Answer
  <2>2. PICK m, next : m = Message("assistant", {made + 1} \X picks)
                       /\ next = IF picks = {} THEN "stop" ELSE "tools"
    OBVIOUS
  <2>3. made < MaxMessages /\ phase = "streaming" /\ Same /\ popped' = None /\ leaked' = leaked
    BY <1>6 DEF Answer
  <2>4. {made + 1} \X picks \subseteq Calls
    <3>1. made + 1 \in Numbers /\ picks \subseteq {1, 2}
      BY <2>3, LogAssumption DEF Numbers, Shape, Counts
    <3> QED BY <3>1 DEF Calls
  <2>5. m \in Messages /\ <<m>> \in Seq(Messages) /\ Len(<<m>>) = 1
        /\ m.by = "assistant" /\ m.calls = {made + 1} \X picks
    BY <1>d, <2>2, <2>3, <2>4, MessageTyped
  <2>6. IsAnswer(m) /\ next \in {"stop", "tools"} /\ (next = "tools" => m.calls # {})
    <3>1. ASSUME picks # {} PROVE {made + 1} \X picks # {}
      <4>1. PICK e \in picks : TRUE
        BY <3>1
      <4>2. <<made + 1, e>> \in {made + 1} \X picks
        OBVIOUS
      <4> QED BY <4>2
    <3> QED BY <2>2, <2>5, <3>1 DEF IsAnswer
  <2>7. Calm /\ Ahead = "streaming"
    BY <1>t, <2>3 DEF Ahead
  <2>8. PICK a, h, p, row : a = AfterOf(log) /\ h = mem /\ p = popped /\ row = Row("turn", <<m>>, FALSE)
    OBVIOUS
  <2>9. CalmAt(a, h, p, "streaming", leaked) /\ ~leaked
    BY <2>7, <2>8 DEF Calm, CalmAt
  <2>10. mem' = Append(h, m) /\ log' = Append(log, row) /\ phase' = "writing" /\ after' = next
    BY <2>1, <2>2, <2>8, <2>9
  <2>11. row.messages = <<m>> /\ row.snapshot = FALSE
    BY <1>d, <2>5, <2>8, RowTyped
  <2>12. AfterOf(log') = Apply(a, row)
    BY <1>d, <2>5, <2>8, <2>10, AppendsRow
  <2>13. CalmAt(Apply(a, row), Append(h, m), None, next, leaked)
    <3>1. h \in Seq(Messages) /\ a \in Seq(Messages) /\ p \in Messages \cup {None}
      BY <1>a, <1>d, <2>8
    <3>2. m \in Messages
      BY <2>5
    <3>3. CalmAt(a, h, p, "streaming", leaked)
      BY <2>9
    <3> QED BY <2>6, <2>11, <3>1, <3>2, <3>3, CalmAnswer
  <2>14. Ahead' = next
    BY <2>10 DEF Ahead
  <2> QED BY <2>3, <2>10, <2>12, <2>13, <2>14 DEF Calm
<1>7. CASE EmptyAnswer
  <2>1. Calm /\ phase = "streaming" /\ phase' = "stop" /\ UNCHANGED <<mem, log, leaked, popped>>
    BY <1>7, <1>t DEF EmptyAnswer, Go
  <2> QED BY <2>1 DEF Calm, CalmAt, Ahead
<1>8. CASE Retry
  <2>1. Calm /\ phase = "stop" /\ phase' = "prepare" /\ UNCHANGED <<log, leaked>>
        /\ IF EndsAnswered(mem) THEN mem' = Front(mem) /\ popped' = Last(mem)
           ELSE UNCHANGED <<mem, popped>>
    BY <1>8, <1>t DEF Retry, EndsAnswered
  <2>2. PICK a, h, p : a = AfterOf(log) /\ h = mem /\ p = popped
    OBVIOUS
  <2>3. CalmAt(a, h, p, "stop", leaked)
    BY <2>1, <2>2 DEF Calm, Ahead
  <2>4. /\ EndsAnswered(h) => CalmAt(a, Front(h), Last(h), "prepare", leaked)
        /\ ~EndsAnswered(h) => CalmAt(a, h, p, "prepare", leaked)
    BY <1>a, <1>d, <2>2, <2>3, CalmRetry
  <2>5. Ahead' = "prepare" /\ AfterOf(log') = a /\ leaked' = leaked
    BY <2>1, <2>2 DEF Ahead
  <2>6. CASE EndsAnswered(h)
    BY <2>1, <2>2, <2>4, <2>5, <2>6 DEF Calm
  <2>7. CASE ~EndsAnswered(h)
    BY <2>1, <2>2, <2>4, <2>5, <2>7 DEF Calm
  <2> QED BY <2>6, <2>7
<1>9. CASE Refused
  <2>1. PICK c : c = When(Cuts(mem, Boundary(mem)), "cut")
    OBVIOUS
  <2>2. Departs({"reactive"} \cup c)
    BY <1>9, <2>1 DEF Refused
  <2> QED BY <1>b, <2>2
<1>10. CASE Recompact
  <2>1. Calm /\ phase = "recompacting"
    BY <1>10, <1>t DEF Recompact
  <2> QED BY <2>1 DEF Calm, CalmAt, Ahead
<1>11. CASE End
  <2>1. Calm /\ popped = None /\ phase # "writing" /\ phase' = "idle" /\ popped' = None
        /\ UNCHANGED <<mem, log>> /\ leaked' = FALSE
    BY <1>11, <1>t, <1>e DEF End, Go
  <2> QED BY <2>1 DEF Calm, CalmAt, Ahead
<1>12. CASE ToolsDone
  <2>1. PICK done \in SUBSET CallsOfLast(mem), deep \in BOOLEAN :
          /\ Departs(When(done # CallsOfLast(mem), "lost") \cup When(deep # leaked, "unlogged"))
          /\ leaked' = deep
          /\ IF done = {} THEN Go("prepare") /\ UNCHANGED <<mem, log>>
             ELSE Appends(Message("results", done), deep, "prepare")
    BY <1>12 DEF ToolsDone
  <2>2. phase = "tools" /\ made < MaxMessages
    BY <1>12 DEF ToolsDone
  <2>3. Calm /\ Ahead = "tools"
    BY <1>t, <2>1, <2>2 DEF Ahead
  <2>4. popped = None /\ EndsAnswered(mem) /\ Last(mem).calls # {} /\ ~leaked
    BY <2>3 DEF Calm, CalmAt
  <2>5. PICK c, d : c = (done # CallsOfLast(mem)) /\ d = (deep # leaked)
    OBVIOUS
  <2>6. ~c /\ ~d
    BY <1>b, <1>w, <2>1, <2>5
  <2>7. done = Last(mem).calls /\ deep = FALSE /\ done \subseteq Calls
    <3>1. CallsOfLast(mem) = Last(mem).calls /\ CallsOfLast(mem) \subseteq Calls
      BY <1>d, <2>4, CallsOfLastFacts DEF EndsAnswered
    <3>2. deep = leaked
      BY <2>5, <2>6
    <3> QED BY <1>d, <2>4, <2>5, <2>6, <3>1, <3>2
  <2>8. PICK m : m = Message("results", done)
    OBVIOUS
  <2>9. m \in Messages /\ ~IsAnswer(m)
    BY <1>d, <2>2, <2>7, <2>8, MessageTyped DEF IsAnswer
  <2>10. Appends(m, FALSE, "prepare") /\ leaked' = FALSE
    BY <2>1, <2>4, <2>7, <2>8
  <2> QED BY <2>2, <2>3, <2>4, <2>9, <2>10, CalmAppends
<1>13. CASE Cancel
  <2>1. Pending(mem) \subseteq Calls
    BY <1>d, CallsOfLastFacts
  <2>2. PICK m : m = Message("results", Pending(mem))
    OBVIOUS
  <2>3. m \in Messages /\ ~IsAnswer(m)
    BY <1>13, <1>d, <2>1, <2>2, MessageTyped DEF Cancel, IsAnswer
  <2>4. /\ phase # "writing" /\ leaked' = FALSE /\ Departs(Abandons)
        /\ IF Pending(mem) = {} THEN Go("idle") /\ UNCHANGED <<mem, log>>
           ELSE Appends(m, leaked, "idle")
    BY <1>13, <2>2 DEF Cancel
  <2>5. Calm /\ popped = None
    BY <1>t, <1>e, <2>4
  <2>6. CASE Pending(mem) = {}
    <3>1. phase' = "idle" /\ popped' = None /\ UNCHANGED <<mem, log>>
      BY <2>4, <2>6 DEF Go
    <3> QED BY <2>4, <2>5, <3>1 DEF Calm, CalmAt, Ahead
  <2>7. CASE Pending(mem) # {}
    <3>1. ~leaked
      BY <2>5 DEF Calm, CalmAt
    <3>2. leaked = FALSE
      BY <1>d, <3>1
    <3>3. Appends(m, FALSE, "idle")
      BY <2>4, <2>7, <3>2
    <3> QED BY <2>3, <2>4, <2>5, <3>3, CalmAppends
  <2> QED BY <2>6, <2>7
<1>14. CASE CancelOutside
  <2>1. PICK a : a = Abandons
    OBVIOUS
  <2>2. Departs({"outside"} \cup a)
    BY <1>14, <2>1 DEF CancelOutside
  <2> QED BY <1>b, <2>2
<1>15. CASE \E i \in DOMAIN log : Write(i)
  <2>1. PICK i \in DOMAIN log : Write(i)
    BY <1>15
  <2>2. PICK l, k, w : l = log /\ k = BecomeOf(l, i, "written") /\ w = log[i].writer
    OBVIOUS
  <2>3. l \in LogRows /\ i \in 1..Len(l) /\ l[i].state = "open" /\ w \in {"turn", "user"}
    BY <2>1, <2>2, LogRowsFacts DEF Write, Shape, Places
  <2>4. log' = k
    BY <2>1, <2>2 DEF Write, Become, BecomeOf
  <2>5. AfterOf(log') = AfterOf(log)
    BY <2>2, <2>3, <2>4, BecomeTyped
  <2>6. Calm /\ mem' = mem /\ Resumes(w)
    BY <1>t, <2>1, <2>2 DEF Write
  <2>7. CASE w = "turn"
    <3>1. phase = "writing"
      <4>1. i \in OpenIn(log, "turn")
        BY <2>2, <2>3, <2>7 DEF OpenIn
      <4> QED BY <4>1 DEF Shape, OneWrite
    <3>2. phase' = after /\ popped' = (IF after = "idle" THEN None ELSE popped)
          /\ leaked' = (leaked /\ after # "idle")
      BY <2>6, <2>7 DEF Resumes, Go
    <3>3. Ahead' = Ahead /\ Ahead = after
      BY <1>d, <3>1, <3>2 DEF Ahead
    <3>4. popped' = popped /\ ~leaked'
      BY <2>6, <3>2, <3>3 DEF Calm, CalmAt
    <3> QED BY <2>5, <2>6, <3>3, <3>4 DEF Calm, CalmAt
  <2>8. CASE w = "user"
    <3>1. UNCHANGED <<phase, after, popped, leaked>>
      BY <2>6, <2>8 DEF Resumes, turn
    <3> QED BY <2>5, <2>6, <3>1 DEF Calm, CalmAt, Ahead
  <2> QED BY <2>3, <2>7, <2>8
<1>16. CASE \E i \in DOMAIN log : WriteFails(i)
  BY <1>16, <1>b DEF WriteFails
<1>17. CASE AppendContext
  <2>1. PICK m, c, row : m = Message("user", {}) /\ c = (phase # "idle")
                         /\ row = Row("user", <<m>>, FALSE)
    OBVIOUS
  <2>2. m \in Messages /\ <<m>> \in Seq(Messages) /\ Len(<<m>>) = 1 /\ ~IsAnswer(m)
    BY <1>17, <1>d, <2>1, MessageTyped DEF AppendContext, IsAnswer
  <2>3. mem' = Append(mem, m) /\ log' = Append(log, row) /\ Departs(When(c, "context"))
        /\ UNCHANGED <<phase, after, popped, leaked>>
    BY <1>17, <2>1 DEF AppendContext, turn
  <2>4. phase = "idle"
    <3>1. When(c, "context") \subseteq {"crash", "cut"}
      BY <1>b, <2>3
    <3>2. ~c
      BY <1>w, <3>1
    <3> QED BY <2>1, <3>2
  <2>5. Calm /\ Ahead = "idle" /\ Ahead' = "idle"
    BY <1>t, <2>3, <2>4 DEF Ahead
  <2>6. row.messages = <<m>> /\ row.snapshot = FALSE
    BY <1>d, <2>1, <2>2, RowTyped
  <2>7. PICK a, h, p : a = AfterOf(log) /\ h = mem /\ p = popped
    OBVIOUS
  <2>8. AfterOf(log') = Apply(a, row)
    BY <1>d, <2>1, <2>2, <2>3, <2>7, AppendsRow
  <2>9. CalmAt(a, h, p, "idle", leaked) /\ p = None
    BY <2>5, <2>7 DEF Calm, CalmAt
  <2>10. CalmAt(Apply(a, row), Append(h, m), p, "idle", leaked)
    BY <1>a, <1>d, <2>2, <2>6, <2>7, <2>9, CalmAppend
  <2> QED BY <2>3, <2>5, <2>7, <2>8, <2>10 DEF Calm
<1>18. CASE Restart
  <2>1. PICK l : l = log
    OBVIOUS
  <2>2. l \in LogRows
    BY <2>1 DEF Shape, Places
  <2>3. log' = SettledOf(l, "failed") /\ mem' = Reload(l)
        /\ phase' = "idle" /\ popped' = None /\ leaked' = FALSE
    BY <1>18, <2>1 DEF Restart, SettledOf, Go
  <2>4. AfterOf(log') = mem'
    BY <2>2, <2>3, RestartTyped
  <2> QED BY <2>3, <2>4 DEF Calm, CalmAt, Ahead
<1>19. CASE UNCHANGED vars
  BY <1>19, <1>t DEF vars, turn, Calm, Ahead
<1> QED BY <1>1, <1>2, <1>3, <1>4, <1>5, <1>6, <1>7, <1>8, <1>9, <1>10, <1>11, <1>12, <1>13,
           <1>14, <1>15, <1>16, <1>17, <1>18, <1>19 DEF Next

\* A session loaded again goes on with the very history it had: the log folds
\* to the messages in memory, but for an answer that was taken back and is not
\* yet replaced.
THEOREM ReloadFaithful == Spec => []ReloadIsMemory
<1>1. Init => Steady
  <2> SUFFICES ASSUME Init PROVE Calm
    BY DEF Steady
  <2>1. AfterOf(log) = <<>>
    <3>1. PICK e, k : e = <<>> /\ k = SettledOf(e, "written")
      OBVIOUS
    <3>2. e \in LogRows /\ Len(e) = 0
      <4>1. <<>> \in Seq(Rows) /\ Len(<<>>) = 0 /\ 1..0 = {}
        BY EmptySeq
      <4> QED BY <3>1, <4>1 DEF LogRows
    <3>3. k \in LogRows /\ Len(k) = 0
      BY <3>1, <3>2, SettledTyped
    <3>4. k \in Seq(Rows) /\ k = <<>>
      BY <3>3, EmptySeq DEF LogRows
    <3>5. Reload(k) = <<>>
      BY <3>4, ReloadFacts
    <3> QED BY <3>1, <3>5 DEF Init, AfterOf
  <2> QED BY <2>1 DEF Init, Calm, CalmAt, Ahead
<1>2. Shape /\ Steady => ReloadIsMemory
  BY AfterIs DEF Steady, ReloadIsMemory, Calm, CalmAt
<1> QED BY <1>1, <1>2, ShapeInit, ShapeStep, SteadyStep, PTL DEF Spec

-----------------------------------------------------------------------------
(* What is in the history and in the log                                   *)

\* The first k messages.
Upto(k) == {m \in Messages : m.n <= k}

\* x is in the history.
In(x, h) == \E i \in 1..Len(h) : h[i] = x

\* Every message of r is a note or one of h.
Within(r, h) == \A i \in 1..Len(r) : r[i] = Summary \/ In(r[i], h)

\* What is in a history with one more message.
LEMMA InAppend ==
  ASSUME NEW h \in Seq(Messages), NEW m \in Messages, NEW x
  PROVE  In(x, Append(h, m)) <=> In(x, h) \/ x = m
<1> PICK k : k = Append(h, m)
  OBVIOUS
<1>1. /\ Len(k) = Len(h) + 1 /\ Len(h) \in Nat
      /\ \A i \in 1..Len(h) : k[i] = h[i]
      /\ k[Len(h) + 1] = m
  BY AppendProperties, LenProperties
<1>2. \A i \in 1..(Len(h) + 1) : i \in 1..Len(h) \/ i = Len(h) + 1
  BY <1>1
<1>3. 1..Len(h) \subseteq 1..(Len(h) + 1) /\ Len(h) + 1 \in 1..(Len(h) + 1)
  BY <1>1
<1>4. In(x, k) <=> In(x, h) \/ x = m
  BY <1>1, <1>2, <1>3 DEF In
<1> QED BY <1>4

\* What is in a history, seen from its last message.
LEMMA InFront ==
  ASSUME NEW h \in Seq(Messages), h # <<>>, NEW x
  PROVE  In(x, h) <=> In(x, Front(h)) \/ x = Last(h)
<1>1. Append(Front(h), Last(h)) = h /\ Front(h) \in Seq(Messages) /\ Last(h) \in Messages
  BY FrontLast
<1>2. PICK f, e : f = Front(h) /\ e = Last(h)
  OBVIOUS
<1>3. In(x, Append(f, e)) <=> In(x, f) \/ x = e
  BY <1>1, <1>2, InAppend
<1> QED BY <1>1, <1>2, <1>3

\* Nothing newer is in what comes from a history.
LEMMA WithinUpto ==
  ASSUME NEW k \in Nat, NEW h \in Seq(Upto(k)), NEW r \in Seq(Messages), Within(r, h)
  PROVE  r \in Seq(Upto(k))
<1>1. Len(r) \in Nat /\ r = [i \in 1..Len(r) |-> r[i]]
  BY LenProperties
<1>2. ASSUME NEW i \in 1..Len(r) PROVE r[i] \in Upto(k)
  <2>1. CASE r[i] = Summary
    BY <2>1, SummaryTyped DEF Upto, Summary
  <2>2. CASE In(r[i], h)
    <3>1. PICK j \in 1..Len(h) : h[j] = r[i]
      BY <2>2 DEF In
    <3> QED BY <3>1, ElementOfSeq
  <2> QED BY <2>1, <2>2 DEF Within
<1>3. [i \in 1..Len(r) |-> r[i]] \in Seq(Upto(k))
  BY <1>1, <1>2, IsASeq
<1> QED BY <1>1, <1>3

\* A compacted history has only messages of the history and its summary.
LEMMA CompactedWithin ==
  ASSUME NEW h \in Seq(Messages), NEW b \in 0..Len(h)
  PROVE  Within(Compacted(h, b), h)
<1>1. Len(h) \in Nat
  BY LenProperties
<1>2. CASE b = 0
  BY <1>2 DEF Compacted, Within, In
<1>3. CASE b # 0
  <2> PICK s : s = SubSeq(h, b + 1, Len(h))
    OBVIOUS
  <2>1. b \in 1..Len(h)
    BY <1>1, <1>3
  <2>2. \A i \in (b + 1)..Len(h) : i \in 1..Len(h) /\ h[i] \in Messages
    <3> TAKE i \in (b + 1)..Len(h)
    <3>1. i \in 1..Len(h)
      BY <1>1, <2>1
    <3> QED BY <3>1, ElementOfSeq
  <2>3. /\ s \in Seq(Messages)
        /\ Len(s) = IF b + 1 <= Len(h) THEN Len(h) - (b + 1) + 1 ELSE 0
        /\ \A i \in 1..(Len(h) - (b + 1) + 1) : s[i] = h[b + 1 + i - 1]
    BY <1>1, <2>1, <2>2, SubSeqProperties
  <2>4. <<Summary>> \in Seq(Messages) /\ Len(<<Summary>>) = 1 /\ <<Summary>>[1] = Summary
    BY SummaryTyped
  <2> PICK c : c = <<Summary>> \o s
    OBVIOUS
  <2>5. Len(c) = 1 + Len(s)
        /\ \A i \in 1..(1 + Len(s)) : c[i] = IF i <= 1 THEN <<Summary>>[i] ELSE s[i - 1]
    BY <2>3, <2>4, ConcatProperties
  <2>6. ASSUME NEW i \in 1..Len(c) PROVE c[i] = Summary \/ In(c[i], h)
    <3>1. CASE i = 1
      BY <2>4, <2>5, <3>1
    <3>2. CASE i # 1
      <4>1. Len(s) = Len(h) - b /\ Len(s) \in Nat
        BY <1>1, <2>1, <2>3
      <4>2. i - 1 \in 1..(Len(h) - (b + 1) + 1) /\ b + 1 + (i - 1) - 1 \in 1..Len(h) /\ ~(i <= 1)
        BY <1>1, <2>1, <2>5, <3>2, <4>1
      <4>3. c[i] = s[i - 1]
        BY <2>5, <4>2
      <4>4. s[i - 1] = h[b + 1 + (i - 1) - 1]
        BY <2>3, <4>2
      <4> QED BY <4>2, <4>3, <4>4 DEF In
    <3> QED BY <3>1, <3>2
  <2>7. Compacted(h, b) = c
    BY <1>3 DEF Compacted
  <2> QED BY <2>6, <2>7 DEF Within
<1> QED BY <1>2, <1>3

\* So has a micro-compacted one, and no answer becomes its last message.
LEMMA MicrocompactedWithin ==
  ASSUME NEW h \in Seq(Messages)
  PROVE  Within(Microcompacted(h), h) /\ (~EndsAnswered(h) => ~EndsAnswered(Microcompacted(h)))
<1>1. Len(h) \in Nat /\ Boundary(h) \in 0..Len(h) /\ \A i \in 1..Len(h) : h[i] \in Messages
  BY LenProperties, BoundaryFacts, ElementOfSeq
<1>2. CASE Pairs(h) = {}
  BY <1>2 DEF Microcompacted, Within, In
<1>3. CASE Pairs(h) # {}
  <2> PICK gone, r : gone = Pairs(h) /\ r = Noted(h, gone)
    OBVIOUS
  <2>1. /\ \A i \in 0..Len(h) : r[i] \in Seq(Messages)
        /\ r[0] = <<>>
        /\ \A i \in 1..Len(h) :
             r[i] = IF i = FirstOf(gone) THEN Append(r[i - 1], Summary)
                    ELSE IF i \in gone THEN r[i - 1] ELSE Append(r[i - 1], h[i])
    BY NotedUnfolds
  <2>2. \A x \in gone : x \in 1..Boundary(h)
    <3> TAKE x \in gone
    <3>1. PICK j \in 1..(Boundary(h) - 1) : x = j \/ x = j + 1
      BY DEF Pairs
    <3> QED BY <1>1, <3>1
  <2>3. gone \subseteq Nat /\ gone # {}
    BY <1>1, <1>3, <2>2
  <2>4. FirstOf(gone) \in gone
    <3>1. \E i \in gone : \A j \in gone : i <= j
      BY <2>3, LeastExists
    <3> QED BY <3>1 DEF FirstOf
  <2>5. Boundary(h) # Len(h) \/ Len(h) = 0
    BY BoundaryFacts
  <2>6. Len(h) \notin gone /\ Len(h) # FirstOf(gone) /\ Len(h) \in 1..Len(h)
    <3>1. Boundary(h) >= 1
      BY <1>1, <2>2, <2>4
    <3>2. Len(h) \notin gone
      BY <1>1, <2>2, <2>5, <3>1
    <3> QED BY <1>1, <2>4, <3>1, <3>2
  <2>7. Microcompacted(h) = r[Len(h)]
    BY <1>3 DEF Microcompacted
  <2>8. \A i \in 0..Len(h) : Within(r[i], h)
    <3> DEFINE S == {i \in Nat : i <= Len(h) => Within(r[i], h)}
    <3>1. 0 \in S
      <4>1. Within(<<>>, h)
        BY DEF Within
      <4> QED BY <2>1, <4>1
    <3>2. ASSUME NEW i \in Nat, i + 1 <= Len(h), Within(r[i], h) PROVE Within(r[i + 1], h)
      <4>1. i + 1 \in 1..Len(h) /\ (i + 1) - 1 = i /\ i \in 0..Len(h)
        BY <1>1, <3>2
      <4>2. h[i + 1] \in Messages /\ In(h[i + 1], h) /\ Summary \in Messages /\ r[i] \in Seq(Messages)
        BY <1>1, <2>1, <4>1, SummaryTyped DEF In
      <4>3. \/ r[i + 1] = Append(r[i], Summary)
            \/ r[i + 1] = r[i]
            \/ r[i + 1] = Append(r[i], h[i + 1])
        BY <2>1, <4>1
      <4>4. ASSUME NEW q \in Seq(Messages), Within(q, h), NEW e \in Messages, e = Summary \/ In(e, h)
            PROVE  Within(Append(q, e), h)
        <5>1. \A j \in 1..Len(q) : q[j] = Summary \/ In(q[j], h)
          BY <4>4 DEF Within
        <5>2. /\ Len(Append(q, e)) = Len(q) + 1 /\ Len(q) \in Nat
              /\ \A j \in 1..Len(q) : Append(q, e)[j] = q[j]
              /\ Append(q, e)[Len(q) + 1] = e
          BY AppendProperties, LenProperties
        <5>3. \A j \in 1..(Len(q) + 1) : j \in 1..Len(q) \/ j = Len(q) + 1
          BY <5>2
        <5> QED BY <4>4, <5>1, <5>2, <5>3 DEF Within
      <4> QED BY <3>2, <4>2, <4>3, <4>4
    <3>3. \A i \in S : i + 1 \in S
      BY <1>1, <3>2
    <3>4. S = Nat
      <4> HIDE DEF S
      <4>1. S \subseteq Nat
        BY DEF S
      <4> QED BY <3>1, <3>3, <4>1, SetInduction
    <3> QED BY <1>1, <3>4
  <2>9. Within(Microcompacted(h), h)
    BY <1>1, <2>7, <2>8
  <2>10. Microcompacted(h) = Append(r[Len(h) - 1], h[Len(h)])
    BY <2>1, <2>6, <2>7
  <2>11. ~EndsAnswered(h) => ~IsAnswer(h[Len(h)])
    <3>1. h # <<>>
      BY <2>6, EmptySeq
    <3>2. Last(h) = h[Len(h)]
      BY <3>1, FrontFacts
    <3> QED BY <3>1, <3>2 DEF EndsAnswered
  <2>12. h[Len(h)] \in Messages /\ r[Len(h) - 1] \in Seq(Messages)
    BY <1>1, <2>1, <2>6
  <2> QED BY <2>9, <2>10, <2>11, <2>12, AppendEnds
<1> QED BY <1>2, <1>3

\* What is reloaded was in some row.
LEMMA ReloadWithin ==
  ASSUME NEW M, M \subseteq Messages, NEW rows \in Seq(Rows),
         \A i \in 1..Len(rows) : rows[i].messages \in Seq(M)
  PROVE  Reload(rows) \in Seq(M)
<1>1. Len(rows) \in Nat
  BY LenProperties
<1>2. ASSUME NEW h \in Seq(M), NEW row, row.messages \in Seq(M)
      PROVE  Apply(h, row) \in Seq(M)
  <2>1. h \o row.messages \in Seq(M)
    BY <1>2, ConcatProperties
  <2>2. h # <<>> => Front(h) \o row.messages \in Seq(M)
    BY <1>2, FrontFacts, ConcatProperties
  <2> QED BY <1>2, <2>1, <2>2 DEF Apply
<1> DEFINE S == {i \in Nat : i <= Len(rows) => Replay(rows)[i] \in Seq(M)}
<1>3. 0 \in S
  BY ReplayUnfolds, EmptySeq
<1>4. ASSUME NEW i \in Nat, i + 1 <= Len(rows), Replay(rows)[i] \in Seq(M)
      PROVE  Replay(rows)[i + 1] \in Seq(M)
  <2>1. i + 1 \in 1..Len(rows) /\ (i + 1) - 1 = i
    BY <1>1, <1>4
  <2>2. rows[i + 1].messages \in Seq(M)
    BY <2>1
  <2>3. Apply(Replay(rows)[i], rows[i + 1]) \in Seq(M)
    BY <1>2, <1>4, <2>2
  <2> QED BY <1>4, <2>1, <2>3, ReplayUnfolds
<1>5. \A i \in S : i + 1 \in S
  BY <1>4
<1>6. S = Nat
  <2> HIDE DEF S
  <2>1. S \subseteq Nat
    BY DEF S
  <2> QED BY <1>3, <1>5, <2>1, SetInduction
<1> QED BY <1>1, <1>6 DEF Reload

\* What is no answer does not change which is the last.
LEMMA CallsOfLastAppend ==
  ASSUME NEW h \in Seq(Messages), NEW m \in Messages, ~IsAnswer(m)
  PROVE  CallsOfLast(Append(h, m)) = CallsOfLast(h)
<1> PICK k : k = Append(h, m)
  OBVIOUS
<1>1. /\ Len(k) = Len(h) + 1 /\ Len(h) \in Nat /\ DOMAIN h = 1..Len(h) /\ DOMAIN k = 1..(Len(h) + 1)
      /\ \A i \in 1..Len(h) : k[i] = h[i]
      /\ k[Len(h) + 1] = m
  BY AppendProperties, LenProperties
<1>2. \A i \in 1..(Len(h) + 1) : i \in 1..Len(h) \/ i = Len(h) + 1
  BY <1>1
<1>3. 1..Len(h) \subseteq 1..(Len(h) + 1)
  BY <1>1
<1>4. {i \in DOMAIN k : IsAnswer(k[i])} = {i \in DOMAIN h : IsAnswer(h[i])}
  BY <1>1, <1>2, <1>3
<1> DEFINE answers == {i \in DOMAIN h : IsAnswer(h[i])}
           final   == CHOOSE i \in answers : \A j \in answers : j <= i
<1>5. CASE answers = {}
  BY <1>4, <1>5 DEF CallsOfLast
<1>6. CASE answers # {}
  <2>1. final \in answers
    <3>1. answers \subseteq 0..Len(h)
      BY <1>1
    <3> HIDE DEF answers
    <3>2. \E i \in answers : \A j \in answers : j <= i
      BY <1>1, <1>6, <3>1, GreatestExists
    <3> QED BY <3>2
  <2>2. CallsOfLast(h) = h[final].calls /\ CallsOfLast(k) = k[final].calls
    BY <1>4, <1>6 DEF CallsOfLast
  <2> HIDE DEF final
  <2>3. k[final] = h[final]
    BY <1>1, <2>1
  <2> QED BY <2>2, <2>3
<1> QED BY <1>5, <1>6

\* Every message of the history and of the log has been made.
Fresh ==
  /\ mem \in Seq(Upto(made))
  /\ \A i \in 1..Len(log) : log[i].messages \in Seq(Upto(made))

\* Messages up to a number are also up to a greater one.
LEMMA UptoGrows ==
  ASSUME NEW k \in Nat, NEW j \in Nat, k <= j, NEW h \in Seq(Upto(k))
  PROVE  h \in Seq(Upto(j))
<1>1. \A m \in Messages : m.n \in Nat
  BY DEF Messages
<1>2. Upto(k) \subseteq Upto(j)
  BY <1>1 DEF Upto
<1>3. Len(h) \in Nat /\ h = [i \in 1..Len(h) |-> h[i]] /\ \A i \in 1..Len(h) : h[i] \in Upto(j)
  BY <1>2, LenProperties, ElementOfSeq
<1>4. [i \in 1..Len(h) |-> h[i]] \in Seq(Upto(j))
  BY <1>3, IsASeq
<1> QED BY <1>3, <1>4

\* A sequence of numbered messages is a history.
LEMMA UptoTyped ==
  ASSUME NEW k, NEW h \in Seq(Upto(k))
  PROVE  h \in Seq(Messages)
<1>1. Upto(k) \subseteq Messages
  BY DEF Upto
<1>2. Len(h) \in Nat /\ h = [i \in 1..Len(h) |-> h[i]] /\ \A i \in 1..Len(h) : h[i] \in Messages
  BY <1>1, LenProperties, ElementOfSeq
<1>3. [i \in 1..Len(h) |-> h[i]] \in Seq(Messages)
  BY <1>2, IsASeq
<1> QED BY <1>2, <1>3

\* The new message is the first of its number.
LEMMA NewestMade ==
  ASSUME Domains, made < MaxMessages, NEW by \in {"user", "assistant", "results"},
         NEW calls, calls \subseteq Calls, Fresh
  PROVE  LET m == Message(by, calls)
         IN  /\ m \in Messages /\ m \in Upto(made + 1) /\ <<m>> \in Seq(Upto(made + 1))
             /\ Append(mem, m) \in Seq(Upto(made + 1)) /\ ~In(m, mem)
             /\ made \in Nat /\ made + 1 \in Nat /\ made <= made + 1
<1>1. PICK m, h, k : m = Message(by, calls) /\ h = mem /\ k = made
  OBVIOUS
<1>2. m \in Messages /\ m.n = k + 1 /\ k \in Nat /\ k + 1 \in Nat /\ k <= k + 1
  <2>1. m \in Messages
    BY <1>1, MessageTyped
  <2>2. k \in Nat
    BY <1>1, LogAssumption DEF Domains, Counts
  <2> QED BY <1>1, <2>1, <2>2 DEF Message
<1>3. h \in Seq(Upto(k)) /\ h \in Seq(Upto(k + 1))
  BY <1>1, <1>2, UptoGrows DEF Fresh
<1>4. m \in Upto(k + 1)
  BY <1>2 DEF Upto
<1>5. <<m>> \in Seq(Upto(k + 1)) /\ Append(h, m) \in Seq(Upto(k + 1))
  BY <1>3, <1>4, AppendProperties
<1>6. ~In(m, h)
  <2> SUFFICES ASSUME NEW i \in 1..Len(h), h[i] = m PROVE FALSE
    BY DEF In
  <2>1. h[i] \in Upto(k)
    BY <1>3, ElementOfSeq
  <2> QED BY <1>2, <2>1 DEF Upto
<1> QED BY <1>1, <1>2, <1>4, <1>5, <1>6

\* A step that puts only numbered messages into memory and log keeps them
\* numbered.
LEMMA FreshLog ==
  ASSUME Shape, Fresh, made' \in Nat, made <= made', mem' \in Seq(Upto(made')),
         \/ log' = log
         \/ Alike(log, log')
         \/ \E w \in {"turn", "user"}, ms \in Seq(Upto(made')), snap \in BOOLEAN :
              log' = Append(log, Row(w, ms, snap))
  PROVE  Fresh'
<1>1. PICK l, k, a, b : l = log /\ k = log' /\ a = made /\ b = made'
  OBVIOUS
<1>2. /\ l \in LogRows /\ l \in Seq(Rows) /\ Len(l) \in Nat
      /\ a \in Nat /\ b \in Nat /\ a <= b
      /\ \A i \in 1..Len(l) : l[i].messages \in Seq(Upto(a))
  BY <1>1, LogRowsFacts, LogAssumption DEF Shape, Counts, Places, Fresh
<1>3. \A i \in 1..Len(l) : l[i].messages \in Seq(Upto(b))
  BY <1>2, UptoGrows
<1>4. \A i \in 1..Len(k) : k[i].messages \in Seq(Upto(b))
  <2>1. CASE k = l
    BY <1>3, <2>1
  <2>2. CASE Alike(l, k)
    BY <1>3, <2>2 DEF Alike
  <2>3. ASSUME NEW w \in {"turn", "user"}, NEW ms \in Seq(Upto(made')), NEW snap \in BOOLEAN,
               log' = Append(log, Row(w, ms, snap))
        PROVE  \A i \in 1..Len(k) : k[i].messages \in Seq(Upto(b))
    <3>1. PICK row : row = Row(w, ms, snap)
      OBVIOUS
    <3>2. row \in Rows /\ row.messages \in Seq(Upto(b))
      <4>1. ms \in Seq(Messages)
        BY UptoTyped
      <4>2. row \in Rows /\ row.messages = ms
        BY <3>1, <4>1, RowTyped DEF Shape, Domains
      <4> QED BY <1>1, <4>2
    <3>3. Len(k) = Len(l) + 1 /\ k[Len(l) + 1] = row /\ \A i \in 1..Len(l) : k[i] = l[i]
      BY <1>1, <1>2, <2>3, <3>1, <3>2, AppendProperties
    <3>4. \A i \in 1..(Len(l) + 1) : i \in 1..Len(l) \/ i = Len(l) + 1
      BY <1>2
    <3> QED BY <1>3, <3>2, <3>3, <3>4
  <2> QED BY <1>1, <2>1, <2>2, <2>3
<1> QED BY <1>1, <1>4 DEF Fresh

\* So does a history event that is yielded.
LEMMA FreshYields ==
  ASSUME Shape, Fresh, made' \in Nat, made <= made',
         NEW h \in Seq(Upto(made')), NEW ms \in Seq(Upto(made')),
         NEW snap \in BOOLEAN, NEW deep, NEW next, Yields(h, ms, snap, deep, next)
  PROVE  Fresh'
<1>1. mem' = h /\ (log' = log \/ log' = Append(log, Row("turn", ms, snap)))
  BY DEF Yields
<1> QED BY <1>1, FreshLog

\* No message in memory or log has a number that is yet to be given.
LEMMA FreshStep == Shape /\ Shape' /\ Fresh /\ [Next]_vars => Fresh'
<1> SUFFICES ASSUME Shape, Shape', Fresh, [Next]_vars PROVE Fresh'
  OBVIOUS
<1>d. Domains /\ mem \in Seq(Messages) /\ mem \in Seq(Upto(made)) /\ made \in Nat /\ made <= made
  <2>1. made \in Nat
    BY LogAssumption DEF Shape, Counts
  <2> QED BY <2>1 DEF Shape, Domains, Places, Fresh
<1>m. made + 1 \in Nat /\ made <= made + 1 /\ mem \in Seq(Upto(made + 1))
  BY <1>d, UptoGrows
<1>0. ASSUME mem' = mem, log' = log \/ Alike(log, log'), made' \in {made, made + 1}
      PROVE  Fresh'
  <2>1. made' \in Nat /\ made <= made' /\ mem' \in Seq(Upto(made'))
    BY <1>0, <1>d, <1>m
  <2> QED BY <1>0, <2>1, FreshLog
<1>e. ASSUME NEW h \in Seq(Messages), Within(h, mem), mem' = h, log' = log, made' = made
      PROVE  Fresh'
  <2>1. h \in Seq(Upto(made))
    BY <1>d, <1>e, WithinUpto
  <2> QED BY <1>d, <1>e, <2>1, FreshLog
<1>f. ASSUME NEW by \in {"user", "assistant", "results"}, NEW calls, calls \subseteq Calls,
             NEW m, m = Message(by, calls), made < MaxMessages, made' = made + 1,
             mem' = Append(mem, m) /\ (log' = log \/ \E w \in {"turn", "user"} :
                                         log' = Append(log, Row(w, <<m>>, FALSE)))
      PROVE  Fresh'
  <2>1. <<m>> \in Seq(Upto(made + 1)) /\ Append(mem, m) \in Seq(Upto(made + 1))
    BY <1>d, <1>f, NewestMade
  <2>2. made' \in Nat /\ made <= made' /\ mem' \in Seq(Upto(made')) /\ <<m>> \in Seq(Upto(made'))
        /\ FALSE \in BOOLEAN
    BY <1>f, <1>m, <2>1
  <2>3. PICK s : s = <<m>>
    OBVIOUS
  <2> QED BY <1>f, <2>2, <2>3, FreshLog
<1>1. CASE Prompt
  <2>1. PICK m : m = Message("user", {})
    OBVIOUS
  <2>2. made < MaxMessages /\ made' = made + 1 /\ Appends(m, FALSE, "prepare")
    BY <1>1, <2>1 DEF Prompt
  <2> QED BY <1>f, <2>1, <2>2 DEF Appends, Yields
<1>2. CASE Ready
  BY <1>0, <1>2 DEF Ready
<1>3. CASE Microcompact
  BY <1>3, <1>d, <1>e, MicrocompactedWithin, MicrocompactedTyped DEF Microcompact
<1>4. CASE StartSummary
  <2>1. mem' = Microcompacted(mem) /\ log' = log /\ made' = made
    BY <1>4 DEF StartSummary
  <2> QED BY <1>d, <1>e, <2>1, MicrocompactedWithin, MicrocompactedTyped
<1>5. CASE Summarise
  <2>1. PICK h, c : h = Compacted(mem, cut) /\ c = cut
    OBVIOUS
  <2>2. c \in 0..Len(mem)
    BY <2>1 DEF Shape, Places
  <2>3. h \in Seq(Messages) /\ Within(h, mem)
    BY <1>d, <2>1, <2>2, CompactedWithin, CompactedTyped
  <2>4. h \in Seq(Upto(made))
    BY <1>d, <2>3, WithinUpto
  <2>5. Yields(h, h, TRUE, leaked, "streaming") /\ made' = made
    BY <1>5, <2>1 DEF Summarise
  <2> QED BY <1>d, <2>4, <2>5, FreshYields
<1>6. CASE Answer
  <2>1. PICK picks \in Asks :
          LET m    == Message("assistant", {made + 1} \X picks)
              next == IF picks = {} THEN "stop" ELSE "tools"
          IN  /\ mem' = Append(mem, m)
              /\ IF leaked THEN phase' = next /\ after' = "idle" /\ UNCHANGED log
                 ELSE /\ log' = Append(log, Row("turn", <<m>>, FALSE))
                      /\ phase' = "writing" /\ after' = next
    BY <1>6 DEF Answer
  <2>2. PICK m, calls : calls = {made + 1} \X picks /\ m = Message("assistant", calls)
    OBVIOUS
  <2>3. made < MaxMessages /\ made' = made + 1
    BY <1>6 DEF Answer
  <2>4. calls \subseteq Calls
    <3>1. made + 1 \in Numbers /\ picks \subseteq {1, 2}
      BY <2>3, LogAssumption DEF Numbers, Shape, Counts
    <3> QED BY <2>2, <3>1 DEF Calls
  <2>5. mem' = Append(mem, m) /\ (log' = log \/ log' = Append(log, Row("turn", <<m>>, FALSE)))
    BY <2>1, <2>2
  <2> QED BY <1>f, <2>2, <2>3, <2>4, <2>5
<1>7. CASE EmptyAnswer
  BY <1>0, <1>7 DEF EmptyAnswer
<1>8. CASE Retry
  <2>1. log' = log /\ made' = made /\ (mem' = mem \/ (mem # <<>> /\ mem' = Front(mem)))
    BY <1>8 DEF Retry
  <2>2. ASSUME mem # <<>>, mem' = Front(mem) PROVE Fresh'
    <3>1. Front(mem) \in Seq(Upto(made))
      BY <1>d, <2>2, FrontFacts
    <3> QED BY <1>d, <2>1, <2>2, <3>1, FreshLog
  <2> QED BY <1>0, <2>1, <2>2
<1>9. CASE Refused
  BY <1>0, <1>9 DEF Refused
<1>10. CASE Recompact
  <2>1. PICK h, c : h = Compacted(mem, cut) /\ c = cut
    OBVIOUS
  <2>2. c \in 0..Len(mem)
    BY <2>1 DEF Shape, Places
  <2>3. h \in Seq(Messages) /\ Within(h, mem)
    BY <1>d, <2>1, <2>2, CompactedWithin, CompactedTyped
  <2> QED BY <1>10, <1>e, <2>1, <2>3 DEF Recompact
<1>11. CASE End
  BY <1>0, <1>11 DEF End
<1>12. CASE ToolsDone
  <2>1. PICK done \in SUBSET CallsOfLast(mem), deep \in BOOLEAN :
          IF done = {} THEN UNCHANGED <<mem, log>>
          ELSE Appends(Message("results", done), deep, "prepare")
    BY <1>12 DEF ToolsDone
  <2>2. made < MaxMessages /\ made' = made + 1
    BY <1>12 DEF ToolsDone
  <2>3. done \subseteq Calls
    BY <1>d, CallsOfLastFacts
  <2>4. PICK m : m = Message("results", done)
    OBVIOUS
  <2>5. CASE done = {}
    BY <1>0, <2>1, <2>2, <2>5
  <2>6. CASE done # {}
    BY <1>f, <2>1, <2>2, <2>3, <2>4, <2>6 DEF Appends, Yields
  <2> QED BY <2>5, <2>6
<1>13. CASE Cancel
  <2>1. PICK done : done = Pending(mem)
    OBVIOUS
  <2>2. made < MaxMessages /\ made' = made + 1
        /\ IF done = {} THEN UNCHANGED <<mem, log>>
           ELSE Appends(Message("results", done), leaked, "idle")
    BY <1>13, <2>1 DEF Cancel
  <2>3. done \subseteq Calls
    BY <1>d, <2>1, CallsOfLastFacts
  <2>4. PICK m : m = Message("results", done)
    OBVIOUS
  <2>5. CASE done = {}
    BY <1>0, <2>2, <2>5
  <2>6. CASE done # {}
    BY <1>f, <2>2, <2>3, <2>4, <2>6 DEF Appends, Yields
  <2> QED BY <2>5, <2>6
<1>h. ASSUME NEW i \in DOMAIN log, NEW s \in {"written", "failed"}, log[i].state = "open",
             log' = Become(i, s)
      PROVE  Alike(log, log')
  <2>1. PICK l, k : l = log /\ k = BecomeOf(l, i, s)
    OBVIOUS
  <2>2. l \in LogRows /\ i \in 1..Len(l)
    BY <2>1, LogRowsFacts DEF Shape, Places
  <2>3. Alike(l, k)
    BY <1>h, <2>1, <2>2, BecomeTyped
  <2> QED BY <1>h, <2>1, <2>3 DEF Become, BecomeOf
<1>14. CASE CancelOutside
  <2>1. mem' = mem /\ made' = made
        /\ (log' = log \/ \E i \in OpenOf("turn"), s \in {"written", "failed"} : log' = Become(i, s))
    BY <1>14 DEF CancelOutside
  <2>2. log' = log \/ Alike(log, log')
    BY <1>h, <2>1 DEF OpenOf, OpenRows
  <2> QED BY <1>0, <2>1, <2>2
<1>15. CASE \E i \in DOMAIN log : Write(i)
  <2>1. PICK i \in DOMAIN log : Write(i)
    BY <1>15
  <2>2. Alike(log, log') /\ mem' = mem /\ made' = made
    BY <1>h, <2>1 DEF Write
  <2> QED BY <1>0, <2>2
<1>16. CASE \E i \in DOMAIN log : WriteFails(i)
  <2>1. PICK i \in DOMAIN log : WriteFails(i)
    BY <1>16
  <2>2. Alike(log, log') /\ mem' = mem /\ made' = made
    BY <1>h, <2>1 DEF WriteFails
  <2> QED BY <1>0, <2>2
<1>17. CASE AppendContext
  <2>1. PICK m : m = Message("user", {})
    OBVIOUS
  <2>2. made < MaxMessages /\ made' = made + 1
        /\ mem' = Append(mem, m) /\ log' = Append(log, Row("user", <<m>>, FALSE))
    BY <1>17, <2>1 DEF AppendContext
  <2> QED BY <1>f, <2>1, <2>2
<1>18. CASE Restart
  <2>1. PICK l, k, a : l = log /\ k = SettledOf(l, "failed") /\ a = made
    OBVIOUS
  <2>2. l \in LogRows /\ l \in Seq(Rows) /\ \A i \in 1..Len(l) : l[i].messages \in Seq(Upto(a))
    BY <2>1, LogRowsFacts DEF Shape, Places, Fresh
  <2>3. Alike(l, k)
    BY <2>1, <2>2, SettledTyped
  <2>4. Reload(l) \in Seq(Upto(a))
    <3>1. Upto(a) \subseteq Messages
      BY DEF Upto
    <3> QED BY <2>2, <3>1, ReloadWithin
  <2>5. log' = k /\ mem' = Reload(l) /\ made' = made
    BY <1>18, <2>1 DEF Restart, SettledOf
  <2>6. Alike(log, log') /\ mem' \in Seq(Upto(made'))
    BY <2>1, <2>3, <2>4, <2>5
  <2> QED BY <1>d, <2>5, <2>6, FreshLog
<1>19. CASE UNCHANGED vars
  BY <1>0, <1>19 DEF vars
<1> QED BY <1>1, <1>2, <1>3, <1>4, <1>5, <1>6, <1>7, <1>8, <1>9, <1>10, <1>11, <1>12, <1>13,
           <1>14, <1>15, <1>16, <1>17, <1>18, <1>19 DEF Next

-----------------------------------------------------------------------------
(* Nothing of the history is missing from the log                          *)

\* Where the loop is before the answer.
Rewriting == {"prepare", "compacting", "streaming", "recompacting"}

\* The log folds to a, the history is h, at this place of the loop.  An answer
\* at the end of a would be replaced by the next one: it is not in h, or is
\* the last of h and may be taken back.
KnownAt(a, h, place, deep) ==
  /\ ~deep
  /\ \A i \in 1..Len(h) : h[i].by = "summary" \/ In(h[i], a)
  /\ place \in Rewriting => ~EndsAnswered(h) /\ (EndsAnswered(a) => ~In(Last(a), h))
  /\ place = "stop" =>
       /\ ~EndsAnswered(h) \/ ~EndsAnswered(Front(h))
       /\ EndsAnswered(a) /\ h # <<>> => ~In(Last(a), Front(h))
  /\ place = "tools" => CallsOfLast(h) # {}

\* The departures that lose no message.
Tolerable == {"crash", "cut", "context", "micro", "reactive", "abandon"}
Known     == KnownAt(AfterOf(log), mem, Ahead, leaked)
Remembers == Tolerates(Tolerable) => Known

\* A message that is no answer is known once it is appended to both.
LEMMA KnownAppend ==
  ASSUME NEW h \in Seq(Messages), NEW a \in Seq(Messages), NEW q, NEW deep,
         KnownAt(a, h, q, deep), NEW m \in Messages, ~IsAnswer(m),
         NEW place, place = "tools" => q = "tools",
         NEW row, row.messages = <<m>>, row.snapshot = FALSE
  PROVE  KnownAt(Apply(a, row), Append(h, m), place, deep)
<1> PICK b, k : b = Append(a, m) /\ k = Append(h, m)
  OBVIOUS
<1>1. Apply(a, row) = b
  BY ApplyOne
<1>2. ~EndsAnswered(b) /\ ~EndsAnswered(k)
  BY AppendEnds
<1>3. /\ Len(k) = Len(h) + 1 /\ Len(h) \in Nat
      /\ \A i \in 1..Len(h) : k[i] = h[i]
      /\ k[Len(h) + 1] = m
  BY AppendProperties, LenProperties
<1>4. \A x : In(x, b) <=> In(x, a) \/ x = m
  BY InAppend
<1>5. \A i \in 1..(Len(h) + 1) : i \in 1..Len(h) \/ i = Len(h) + 1
  BY <1>3
<1>6. \A i \in 1..Len(k) : k[i].by = "summary" \/ In(k[i], b)
  <2> TAKE i \in 1..Len(k)
  <2>1. CASE i \in 1..Len(h)
    BY <1>3, <1>4, <2>1 DEF KnownAt
  <2>2. CASE i = Len(h) + 1
    BY <1>3, <1>4, <2>2
  <2> QED BY <1>3, <1>5, <2>1, <2>2
<1>7. CallsOfLast(k) = CallsOfLast(h)
  BY CallsOfLastAppend
<1> QED BY <1>1, <1>2, <1>6, <1>7 DEF KnownAt

\* A new answer is known, and takes away from the log none that is in the
\* history.
LEMMA KnownAnswer ==
  ASSUME NEW h \in Seq(Messages), NEW a \in Seq(Messages), NEW deep,
         KnownAt(a, h, "streaming", deep), NEW m \in Messages, IsAnswer(m), ~In(m, h),
         NEW place \in {"stop", "tools"}, place = "tools" => m.calls # {},
         NEW row, row.messages = <<m>>, row.snapshot = FALSE
  PROVE  KnownAt(Apply(a, row), Append(h, m), place, deep)
<1>0. ~deep /\ ~EndsAnswered(h) /\ (EndsAnswered(a) => ~In(Last(a), h))
  BY DEF KnownAt, Rewriting
<1> PICK b, k : b = Apply(a, row) /\ k = Append(h, m)
  OBVIOUS
<1>1. PICK c : c = IF EndsAnswered(a) THEN Front(a) ELSE a
  OBVIOUS
<1>2. c \in Seq(Messages) /\ b = Append(c, m)
  <2>1. CASE EndsAnswered(a)
    <3>1. Front(a) \in Seq(Messages)
      BY <2>1, FrontLast DEF EndsAnswered
    <3> QED BY <1>1, <2>1, <3>1, ApplyOne
  <2>2. CASE ~EndsAnswered(a)
    BY <1>1, <2>2, ApplyOne
  <2> QED BY <2>1, <2>2
<1>3. Last(b) = m /\ Last(k) = m /\ Front(k) = h /\ EndsAnswered(b) /\ EndsAnswered(k)
      /\ k \in Seq(Messages) /\ k # <<>>
  BY <1>2, AppendEnds
<1>4. /\ Len(k) = Len(h) + 1 /\ Len(h) \in Nat
      /\ \A i \in 1..Len(h) : k[i] = h[i]
      /\ k[Len(h) + 1] = m
  BY AppendProperties, LenProperties
<1>5. \A x : In(x, b) <=> In(x, c) \/ x = m
  BY <1>2, InAppend
<1>6. \A i \in 1..(Len(h) + 1) : i \in 1..Len(h) \/ i = Len(h) + 1
  BY <1>4
<1>7. \A i \in 1..Len(h) : h[i].by = "summary" \/ In(h[i], c)
  <2> TAKE i \in 1..Len(h)
  <2>1. h[i].by = "summary" \/ In(h[i], a)
    BY DEF KnownAt
  <2>2. CASE EndsAnswered(a)
    <3>1. h[i] # Last(a)
      BY <1>0, <2>2 DEF In
    <3>2. In(h[i], a) => In(h[i], Front(a))
      BY <2>2, <3>1, InFront DEF EndsAnswered
    <3> QED BY <1>1, <2>1, <2>2, <3>2
  <2> QED BY <1>1, <2>1, <2>2
<1>8. \A i \in 1..Len(k) : k[i].by = "summary" \/ In(k[i], b)
  <2> TAKE i \in 1..Len(k)
  <2>1. CASE i \in 1..Len(h)
    BY <1>4, <1>5, <1>7, <2>1
  <2>2. CASE i = Len(h) + 1
    BY <1>4, <1>5, <2>2
  <2> QED BY <1>4, <1>6, <2>1, <2>2
<1>9. CallsOfLast(k) = m.calls
  BY <1>3, CallsOfLastFacts
<1> QED BY <1>0, <1>3, <1>8, <1>9 DEF KnownAt, Rewriting

\* What is taken back need not be known any more.
LEMMA KnownRetry ==
  ASSUME NEW h \in Seq(Messages), NEW a, NEW deep, KnownAt(a, h, "stop", deep)
  PROVE  /\ EndsAnswered(h) => KnownAt(a, Front(h), "prepare", deep)
         /\ ~EndsAnswered(h) => KnownAt(a, h, "prepare", deep)
<1>1. ASSUME EndsAnswered(h) PROVE KnownAt(a, Front(h), "prepare", deep)
  <2> PICK f : f = Front(h)
    OBVIOUS
  <2>1. h # <<>> /\ ~EndsAnswered(f) /\ (EndsAnswered(a) => ~In(Last(a), f))
    BY <1>1 DEF KnownAt, EndsAnswered
  <2>2. Len(f) = Len(h) - 1 /\ Len(h) \in Nat /\ \A i \in 1..(Len(h) - 1) : f[i] = h[i]
    BY <2>1, FrontFacts
  <2>3. \A i \in 1..Len(f) : i \in 1..Len(h) /\ f[i] = h[i]
    BY <2>2
  <2>4. \A i \in 1..Len(f) : f[i].by = "summary" \/ In(f[i], a)
    BY <2>3 DEF KnownAt
  <2> QED BY <2>1, <2>4 DEF KnownAt
<1>2. ASSUME ~EndsAnswered(h) PROVE KnownAt(a, h, "prepare", deep)
  <2>1. ASSUME EndsAnswered(a), In(Last(a), h) PROVE FALSE
    <3>1. h # <<>>
      BY <2>1, EmptySeq DEF In
    <3>2. Last(a) # Last(h)
      BY <1>2, <2>1, <3>1 DEF EndsAnswered
    <3>3. In(Last(a), Front(h))
      BY <2>1, <3>1, <3>2, InFront
    <3> QED BY <2>1, <3>1, <3>3 DEF KnownAt
  <2> QED BY <1>2, <2>1 DEF KnownAt
<1> QED BY <1>1, <1>2

\* An empty answer changes nothing.
LEMMA KnownEmpty ==
  ASSUME NEW h \in Seq(Messages), NEW a, NEW deep, KnownAt(a, h, "streaming", deep)
  PROVE  KnownAt(a, h, "stop", deep)
<1>1. EndsAnswered(a) /\ h # <<>> => ~In(Last(a), Front(h))
  BY InFront DEF KnownAt, Rewriting
<1> QED BY <1>1 DEF KnownAt, Rewriting

\* The history is rewritten, and the log is not told.
LEMMA KnownWithin ==
  ASSUME NEW h \in Seq(Messages), NEW a, NEW q \in Rewriting, NEW deep, KnownAt(a, h, q, deep),
         NEW r \in Seq(Messages), Within(r, h), ~EndsAnswered(r), NEW place \in Rewriting
  PROVE  KnownAt(a, r, place, deep)
<1>1. ~deep /\ (EndsAnswered(a) => ~In(Last(a), h))
      /\ \A i \in 1..Len(h) : h[i].by = "summary" \/ In(h[i], a)
  BY DEF KnownAt
<1>2. Summary.by = "summary"
  BY DEF Summary
<1>3. ASSUME NEW x, x = Summary \/ In(x, h) PROVE x.by = "summary" \/ In(x, a)
  BY <1>1, <1>2, <1>3 DEF In
<1>4. \A i \in 1..Len(r) : r[i].by = "summary" \/ In(r[i], a)
  BY <1>3 DEF Within
<1>5. ASSUME EndsAnswered(a), In(Last(a), r) PROVE FALSE
  <2>1. Last(a) # Summary
    BY <1>2, <1>5 DEF EndsAnswered, IsAnswer
  <2>2. In(Last(a), h)
    BY <1>5, <2>1 DEF In, Within
  <2> QED BY <1>1, <1>5, <2>2
<1> QED BY <1>1, <1>4, <1>5 DEF KnownAt, Rewriting

\* The history is summarised, and the log holds it.
LEMMA KnownSnapshot ==
  ASSUME NEW h \in Seq(Messages), NEW a, ~EndsAnswered(h),
         NEW row, row.messages = h, row.snapshot = TRUE
  PROVE  KnownAt(Apply(a, row), h, "streaming", FALSE)
<1>1. Apply(a, row) = h
  BY DEF Apply
<1>2. \A i \in 1..Len(h) : In(h[i], h)
  BY DEF In
<1> QED BY <1>1, <1>2 DEF KnownAt

\* A message other than an answer is appended and its event written or yielded.
LEMMA KnownAppends ==
  ASSUME Shape, Known, NEW m \in Messages, ~IsAnswer(m), NEW w \in {"turn", "user"},
         mem' = Append(mem, m), log' = Append(log, Row(w, <<m>>, FALSE)),
         Ahead' = "tools" => Ahead = "tools", leaked' = leaked \/ leaked' = FALSE
  PROVE  Known'
<1>1. PICK row : row = Row(w, <<m>>, FALSE)
  OBVIOUS
<1>2. <<m>> \in Seq(Messages) /\ Len(<<m>>) = 1 /\ Domains
  BY DEF Shape, Domains
<1>3. row.messages = <<m>> /\ row.snapshot = FALSE
  BY <1>1 DEF Row
<1>4. AfterOf(log') = Apply(AfterOf(log), row)
  BY <1>1, <1>2, AppendsRow
<1>5. mem \in Seq(Messages) /\ AfterOf(log) \in Seq(Messages)
  BY AfterIs DEF Shape, Places
<1>6. PICK a, h, q, p, d : /\ a = AfterOf(log) /\ h = mem /\ q = Ahead /\ p = Ahead' /\ d = leaked
  OBVIOUS
<1>7. KnownAt(a, h, q, d) /\ ~d
  BY <1>6 DEF Known, KnownAt
<1>8. KnownAt(Apply(a, row), Append(h, m), p, d)
  BY <1>3, <1>5, <1>6, <1>7, KnownAppend
<1>9. KnownAt(Apply(a, row), Append(h, m), p, leaked')
  BY <1>6, <1>7, <1>8 DEF KnownAt
<1> QED BY <1>4, <1>6, <1>9 DEF Known

\* Every step leaves the messages of the history in the log.
LEMMA RemembersStep == Shape /\ Shape' /\ Fresh /\ Remembers /\ [Next]_vars => Remembers'
<1> SUFFICES ASSUME Shape, Shape', Fresh, Remembers, [Next]_vars, Tolerates(Tolerable)' PROVE Known'
  BY DEF Remembers
<1> DEFINE Same == UNCHANGED <<departs, spent>>
           Left == \E ds : Departs(ds)
<1>t. Same \/ Left => Known
  BY DepartsTolerates DEF Remembers, Tolerates
<1>d. Domains /\ mem \in Seq(Messages) /\ leaked \in BOOLEAN /\ after # "writing"
  BY DEF Shape, Domains, Counts, Places
<1>w. \A c, d : When(c, d) = IF c THEN {d} ELSE {}
  BY DEF When
<1>a. AfterOf(log) \in Seq(Messages)
  BY AfterIs
<1>b. \A ds : Departs(ds) => ds \subseteq Tolerable
  BY DepartsTolerates
<1>k. Known => ~leaked /\ leaked = FALSE
  BY <1>d DEF Known, KnownAt
<1>i. ASSUME Known, UNCHANGED <<mem, log>>, Ahead' = "idle", leaked' = FALSE PROVE Known'
  BY <1>i DEF Known, KnownAt, Rewriting
<1>r. ASSUME Known, UNCHANGED <<mem, log, leaked>>, Ahead' \in Rewriting, Ahead \in Rewriting
      PROVE  Known'
  BY <1>r DEF Known, KnownAt, Rewriting
<1>p. ASSUME Known, NEW h \in Seq(Messages), Within(h, mem), ~EndsAnswered(h), mem' = h,
             UNCHANGED <<log, leaked>>, Ahead' \in Rewriting, Ahead \in Rewriting
      PROVE  Known'
  <2>1. PICK a, g, q, p, d : /\ a = AfterOf(log) /\ g = mem /\ q = Ahead /\ p = Ahead' /\ d = leaked
    OBVIOUS
  <2>2. KnownAt(a, g, q, d) /\ q \in Rewriting /\ p \in Rewriting /\ g \in Seq(Messages)
        /\ Within(h, g)
    BY <1>d, <1>p, <2>1 DEF Known
  <2>3. KnownAt(a, h, p, d)
    BY <1>p, <2>2, KnownWithin
  <2> QED BY <1>p, <2>1, <2>3 DEF Known
<1>s. Known /\ Ahead \in Rewriting => ~EndsAnswered(mem)
  BY DEF Known, KnownAt
<1>1. CASE Prompt
  <2>1. PICK m : m = Message("user", {})
    OBVIOUS
  <2>2. m \in Messages /\ ~IsAnswer(m)
    BY <1>1, <1>d, <2>1, MessageTyped DEF Prompt, IsAnswer
  <2>3. Appends(m, FALSE, "prepare") /\ leaked' = FALSE /\ Left
    BY <1>1, <2>1 DEF Prompt
  <2>4. /\ mem' = Append(mem, m) /\ log' = Append(log, Row("turn", <<m>>, FALSE))
        /\ Ahead' = "prepare"
    BY <2>3 DEF Appends, Yields, Ahead
  <2>5. Known
    BY <1>t, <2>3
  <2> QED BY <2>2, <2>3, <2>4, <2>5, KnownAppends
<1>2. CASE Ready
  <2>1. Known /\ UNCHANGED <<mem, log, leaked>> /\ Ahead = "prepare" /\ Ahead' = "streaming"
    BY <1>2, <1>t DEF Ready, Go, Ahead
  <2> QED BY <1>r, <2>1 DEF Rewriting
<1>3. CASE Microcompact
  <2>1. Known /\ mem' = Microcompacted(mem) /\ UNCHANGED <<log, leaked>>
        /\ Ahead = "prepare" /\ Ahead' = "streaming"
    BY <1>3, <1>t DEF Microcompact, Go, Ahead
  <2>2. Ahead \in Rewriting /\ Ahead' \in Rewriting
    BY <2>1 DEF Rewriting
  <2>3. ~EndsAnswered(mem)
    BY <1>s, <2>1, <2>2
  <2>4. PICK h : h = Microcompacted(mem)
    OBVIOUS
  <2>5. h \in Seq(Messages) /\ Within(h, mem) /\ ~EndsAnswered(h)
    BY <1>d, <2>3, <2>4, MicrocompactedWithin, MicrocompactedTyped
  <2> QED BY <1>p, <2>1, <2>2, <2>4, <2>5
<1>4. CASE StartSummary
  <2>1. PICK h, ds : h = Microcompacted(mem)
                     /\ ds = When(h # mem, "micro") \cup When(Cuts(h, Boundary(h)), "cut")
    OBVIOUS
  <2>2. Departs(ds) /\ mem' = h /\ UNCHANGED <<log, leaked>> /\ phase = "prepare"
        /\ phase' = "compacting"
    BY <1>4, <2>1 DEF StartSummary
  <2>3. Known /\ Ahead \in Rewriting /\ Ahead' \in Rewriting
    BY <1>t, <2>2 DEF Ahead, Rewriting
  <2>4. ~EndsAnswered(mem)
    BY <1>s, <2>3
  <2>5. h \in Seq(Messages) /\ Within(h, mem) /\ ~EndsAnswered(h)
    BY <1>d, <2>1, <2>4, MicrocompactedWithin, MicrocompactedTyped
  <2> QED BY <1>p, <2>2, <2>3, <2>5
<1>5. CASE Summarise
  <2>1. PICK h, c, g : h = Compacted(mem, cut) /\ c = cut /\ g = mem
    OBVIOUS
  <2>2. Yields(h, h, TRUE, leaked, "streaming") /\ phase = "compacting" /\ Same /\ leaked' = leaked
    BY <1>5, <2>1 DEF Summarise
  <2>3. Known /\ Ahead \in Rewriting
    BY <1>t, <2>2 DEF Ahead, Rewriting
  <2>4. g \in Seq(Messages) /\ c \in 0..Len(g) /\ ~EndsAnswered(g)
    BY <1>d, <1>s, <2>1, <2>3 DEF Shape, Places
  <2>5. h \in Seq(Messages) /\ ~EndsAnswered(h)
    BY <2>1, <2>4, CompactedEnds, CompactedTyped
  <2>6. PICK row, a : row = Row("turn", h, TRUE) /\ a = AfterOf(log)
    OBVIOUS
  <2>7. log' = Append(log, row) /\ mem' = h /\ Ahead' = "streaming" /\ leaked' = FALSE
    BY <1>k, <2>2, <2>3, <2>6 DEF Yields, Ahead
  <2>8. row.messages = h /\ row.snapshot = TRUE
    BY <1>d, <2>5, <2>6, RowTyped
  <2>9. AfterOf(log') = Apply(a, row)
    BY <1>d, <2>5, <2>6, <2>7, AppendsRow
  <2>10. KnownAt(Apply(a, row), h, "streaming", FALSE)
    BY <2>5, <2>8, KnownSnapshot
  <2> QED BY <2>7, <2>9, <2>10 DEF Known
<1>6. CASE Answer
  <2>1. PICK picks \in Asks :
          LET m    == Message("assistant", {made + 1} \X picks)
              next == IF picks = {} THEN "stop" ELSE "tools"
          IN  /\ mem' = Append(mem, m)
              /\ IF leaked THEN phase' = next /\ after' = "idle" /\ UNCHANGED log
                 ELSE /\ log' = Append(log, Row("turn", <<m>>, FALSE))
                      /\ phase' = "writing" /\ after' = next
    BY <1>6 DEF Answer
  <2>2. PICK m, next, calls : /\ calls = {made + 1} \X picks /\ m = Message("assistant", calls)
                              /\ next = IF picks = {} THEN "stop" ELSE "tools"
    OBVIOUS
  <2>3. made < MaxMessages /\ phase = "streaming" /\ Same /\ leaked' = leaked
    BY <1>6 DEF Answer
  <2>4. calls \subseteq Calls
    <3>1. made + 1 \in Numbers /\ picks \subseteq {1, 2}
      BY <2>3, LogAssumption DEF Numbers, Shape, Counts
    <3> QED BY <2>2, <3>1 DEF Calls
  <2>5. m \in Messages /\ <<m>> \in Seq(Messages) /\ Len(<<m>>) = 1
        /\ m.by = "assistant" /\ m.calls = calls
    BY <1>d, <2>2, <2>3, <2>4, MessageTyped
  <2>6. IsAnswer(m) /\ next \in {"stop", "tools"} /\ (next = "tools" => m.calls # {})
    <3>1. ASSUME picks # {} PROVE calls # {}
      <4>1. PICK e \in picks : TRUE
        BY <3>1
      <4>2. <<made + 1, e>> \in calls
        BY <2>2
      <4> QED BY <4>2
    <3> QED BY <2>2, <2>5, <3>1 DEF IsAnswer
  <2>7. ~In(m, mem)
    BY <1>d, <2>2, <2>3, <2>4, NewestMade
  <2>8. Known /\ Ahead = "streaming"
    BY <1>t, <2>3 DEF Ahead
  <2>9. PICK a, h, row, d : a = AfterOf(log) /\ h = mem /\ row = Row("turn", <<m>>, FALSE) /\ d = leaked
    OBVIOUS
  <2>10. KnownAt(a, h, "streaming", d) /\ ~leaked
    BY <1>k, <2>8, <2>9 DEF Known
  <2>11. mem' = Append(h, m) /\ log' = Append(log, row) /\ Ahead' = next
    BY <2>1, <2>2, <2>9, <2>10 DEF Ahead
  <2>12. row.messages = <<m>> /\ row.snapshot = FALSE
    BY <1>d, <2>5, <2>9, RowTyped
  <2>13. AfterOf(log') = Apply(a, row)
    BY <1>d, <2>5, <2>9, <2>11, AppendsRow
  <2>14. h \in Seq(Messages) /\ a \in Seq(Messages) /\ ~In(m, h) /\ m \in Messages
    BY <1>a, <1>d, <2>5, <2>7, <2>9
  <2>15. KnownAt(Apply(a, row), Append(h, m), next, d)
    BY <2>6, <2>10, <2>12, <2>14, KnownAnswer
  <2> QED BY <2>3, <2>9, <2>11, <2>13, <2>15 DEF Known
<1>7. CASE EmptyAnswer
  <2>1. Known /\ UNCHANGED <<mem, log, leaked>> /\ Ahead = "streaming" /\ Ahead' = "stop"
    BY <1>7, <1>t DEF EmptyAnswer, Go, Ahead
  <2>2. PICK a, h, d : a = AfterOf(log) /\ h = mem /\ d = leaked
    OBVIOUS
  <2>3. KnownAt(a, h, "stop", d)
    BY <1>d, <2>1, <2>2, KnownEmpty DEF Known
  <2> QED BY <2>1, <2>2, <2>3 DEF Known
<1>8. CASE Retry
  <2>1. /\ Known /\ Ahead = "stop" /\ Ahead' = "prepare" /\ UNCHANGED <<log, leaked>>
        /\ mem' = IF EndsAnswered(mem) THEN Front(mem) ELSE mem
    BY <1>8, <1>t DEF Retry, EndsAnswered, Ahead
  <2>2. PICK a, h, d : a = AfterOf(log) /\ h = mem /\ d = leaked
    OBVIOUS
  <2>3. KnownAt(a, h, "stop", d)
    BY <2>1, <2>2 DEF Known
  <2>4. KnownAt(a, IF EndsAnswered(h) THEN Front(h) ELSE h, "prepare", d)
    BY <1>d, <2>2, <2>3, KnownRetry
  <2> QED BY <2>1, <2>2, <2>4 DEF Known
<1>9. CASE Refused
  <2>1. PICK c : c = When(Cuts(mem, Boundary(mem)), "cut")
    OBVIOUS
  <2>2. Departs({"reactive"} \cup c) /\ UNCHANGED <<mem, log, leaked>> /\ phase = "streaming"
        /\ phase' = "recompacting"
    BY <1>9, <2>1 DEF Refused
  <2>3. Known /\ Ahead \in Rewriting /\ Ahead' \in Rewriting
    BY <1>t, <2>2 DEF Ahead, Rewriting
  <2> QED BY <1>r, <2>2, <2>3
<1>10. CASE Recompact
  <2>1. PICK h, c, g : h = Compacted(mem, cut) /\ c = cut /\ g = mem
    OBVIOUS
  <2>2. mem' = h /\ Same /\ UNCHANGED <<log, leaked>> /\ phase = "recompacting" /\ phase' = "prepare"
    BY <1>10, <2>1 DEF Recompact, Go
  <2>3. Known /\ Ahead \in Rewriting /\ Ahead' \in Rewriting
    BY <1>t, <2>2 DEF Ahead, Rewriting
  <2>4. g \in Seq(Messages) /\ c \in 0..Len(g) /\ ~EndsAnswered(g)
    BY <1>d, <1>s, <2>1, <2>3 DEF Shape, Places
  <2>5. h \in Seq(Messages) /\ ~EndsAnswered(h) /\ Within(h, mem)
    BY <2>1, <2>4, CompactedEnds, CompactedTyped, CompactedWithin
  <2> QED BY <1>p, <2>2, <2>3, <2>5
<1>11. CASE End
  <2>1. Known /\ UNCHANGED <<mem, log>> /\ leaked' = FALSE /\ Ahead' = "idle"
    BY <1>11, <1>t DEF End, Go, Ahead
  <2> QED BY <1>i, <2>1
<1>12. CASE ToolsDone
  <2>1. PICK done \in SUBSET CallsOfLast(mem), deep \in BOOLEAN :
          /\ Departs(When(done # CallsOfLast(mem), "lost") \cup When(deep # leaked, "unlogged"))
          /\ leaked' = deep
          /\ IF done = {} THEN Go("prepare") /\ UNCHANGED <<mem, log>>
             ELSE Appends(Message("results", done), deep, "prepare")
    BY <1>12 DEF ToolsDone
  <2>2. phase = "tools" /\ made < MaxMessages
    BY <1>12 DEF ToolsDone
  <2>3. Known /\ Ahead = "tools"
    BY <1>t, <2>1, <2>2 DEF Ahead
  <2>4. PICK c, d : c = (done # CallsOfLast(mem)) /\ d = (deep # leaked)
    OBVIOUS
  <2>5. When(c, "lost") \cup When(d, "unlogged") \subseteq Tolerable
    BY <1>b, <2>1, <2>4
  <2>6. ~c /\ ~d
    BY <1>w, <2>5 DEF Tolerable
  <2>7. deep = FALSE /\ done # {} /\ done \subseteq Calls
    <3>1. CallsOfLast(mem) # {} /\ CallsOfLast(mem) \subseteq Calls
      BY <1>d, <2>3, CallsOfLastFacts DEF Known, KnownAt
    <3>2. deep = leaked /\ done = CallsOfLast(mem)
      BY <2>4, <2>6
    <3> QED BY <1>k, <2>3, <3>1, <3>2
  <2>8. PICK m : m = Message("results", done)
    OBVIOUS
  <2>9. m \in Messages /\ ~IsAnswer(m)
    BY <1>d, <2>2, <2>7, <2>8, MessageTyped DEF IsAnswer
  <2>10. Appends(m, FALSE, "prepare") /\ leaked' = FALSE
    BY <2>1, <2>7, <2>8
  <2>11. /\ mem' = Append(mem, m) /\ log' = Append(log, Row("turn", <<m>>, FALSE))
         /\ Ahead' = "prepare"
    BY <2>10 DEF Appends, Yields, Ahead
  <2> QED BY <2>3, <2>9, <2>10, <2>11, KnownAppends
<1>13. CASE Cancel
  <2>1. PICK done : done = Pending(mem)
    OBVIOUS
  <2>2. /\ leaked' = FALSE /\ Departs(Abandons) /\ made < MaxMessages
        /\ IF done = {} THEN Go("idle") /\ UNCHANGED <<mem, log>>
           ELSE Appends(Message("results", done), leaked, "idle")
    BY <1>13, <2>1 DEF Cancel
  <2>3. Known
    BY <1>t, <2>2
  <2>4. CASE done = {}
    <3>1. Ahead' = "idle" /\ UNCHANGED <<mem, log>>
      BY <2>2, <2>4 DEF Go, Ahead
    <3> QED BY <1>i, <2>2, <2>3, <3>1
  <2>5. CASE done # {}
    <3>1. PICK m : m = Message("results", done)
      OBVIOUS
    <3>2. done \subseteq Calls
      BY <1>d, <2>1, CallsOfLastFacts
    <3>3. m \in Messages /\ ~IsAnswer(m)
      BY <1>d, <2>2, <3>1, <3>2, MessageTyped DEF IsAnswer
    <3>4. Appends(m, leaked, "idle") /\ ~leaked
      BY <1>k, <2>2, <2>3, <2>5, <3>1
    <3>5. /\ mem' = Append(mem, m) /\ log' = Append(log, Row("turn", <<m>>, FALSE))
          /\ Ahead' = "idle"
      BY <3>4 DEF Appends, Yields, Ahead
    <3> QED BY <2>2, <2>3, <3>3, <3>5, KnownAppends
  <2> QED BY <2>4, <2>5
<1>14. CASE CancelOutside
  <2>1. PICK a : a = Abandons
    OBVIOUS
  <2>2. Departs({"outside"} \cup a)
    BY <1>14, <2>1 DEF CancelOutside
  <2>3. {"outside"} \cup a \subseteq Tolerable
    BY <1>b, <2>2
  <2> QED BY <2>3 DEF Tolerable
<1>15. CASE \E i \in DOMAIN log : Write(i)
  <2>1. PICK i \in DOMAIN log : Write(i)
    BY <1>15
  <2>2. PICK l, k, w : l = log /\ k = BecomeOf(l, i, "written") /\ w = log[i].writer
    OBVIOUS
  <2>3. l \in LogRows /\ i \in 1..Len(l) /\ l[i].state = "open" /\ w \in {"turn", "user"}
    BY <2>1, <2>2, LogRowsFacts DEF Write, Shape, Places
  <2>4. log' = k
    BY <2>1, <2>2 DEF Write, Become, BecomeOf
  <2>5. AfterOf(log') = AfterOf(log)
    BY <2>2, <2>3, <2>4, BecomeTyped
  <2>6. Known /\ mem' = mem /\ Resumes(w)
    BY <1>t, <2>1, <2>2 DEF Write
  <2>7. CASE w = "turn"
    <3>1. phase = "writing"
      <4>1. i \in OpenIn(log, "turn")
        BY <2>2, <2>3, <2>7 DEF OpenIn
      <4> QED BY <4>1 DEF Shape, OneWrite
    <3>2. phase' = after /\ leaked' = (leaked /\ after # "idle")
      BY <2>6, <2>7 DEF Resumes, Go
    <3>3. Ahead' = Ahead /\ ~leaked'
      BY <1>d, <1>k, <2>6, <3>1, <3>2 DEF Ahead
    <3> QED BY <2>5, <2>6, <3>3 DEF Known, KnownAt
  <2>8. CASE w = "user"
    <3>1. UNCHANGED <<phase, after, leaked>>
      BY <2>6, <2>8 DEF Resumes, turn
    <3> QED BY <2>5, <2>6, <3>1 DEF Known, Ahead
  <2> QED BY <2>3, <2>7, <2>8
<1>16. CASE \E i \in DOMAIN log : WriteFails(i)
  <2>1. Departs({"unlogged"})
    BY <1>16 DEF WriteFails
  <2>2. {"unlogged"} \subseteq Tolerable
    BY <1>b, <2>1
  <2> QED BY <2>2 DEF Tolerable
<1>17. CASE AppendContext
  <2>1. PICK m : m = Message("user", {})
    OBVIOUS
  <2>2. m \in Messages /\ ~IsAnswer(m)
    BY <1>17, <1>d, <2>1, MessageTyped DEF AppendContext, IsAnswer
  <2>3. mem' = Append(mem, m) /\ log' = Append(log, Row("user", <<m>>, FALSE)) /\ Left
        /\ UNCHANGED <<phase, after, leaked>>
    BY <1>17, <2>1 DEF AppendContext, turn
  <2>4. Known /\ Ahead' = Ahead
    BY <1>t, <2>3 DEF Ahead
  <2> QED BY <2>2, <2>3, <2>4, KnownAppends
<1>18. CASE Restart
  <2>1. PICK l : l = log
    OBVIOUS
  <2>2. l \in LogRows
    BY <2>1 DEF Shape, Places
  <2>3. log' = SettledOf(l, "failed") /\ mem' = Reload(l) /\ phase' = "idle" /\ leaked' = FALSE
    BY <1>18, <2>1 DEF Restart, SettledOf, Go
  <2>4. AfterOf(log') = mem' /\ Ahead' = "idle"
    BY <2>2, <2>3, RestartTyped DEF Ahead
  <2>5. \A h : \A i \in 1..Len(h) : In(h[i], h)
    BY DEF In
  <2> QED BY <2>3, <2>4, <2>5 DEF Known, KnownAt, Rewriting
<1>19. CASE UNCHANGED vars
  BY <1>19, <1>t DEF vars, turn, Known, Ahead
<1> QED BY <1>1, <1>2, <1>3, <1>4, <1>5, <1>6, <1>7, <1>8, <1>9, <1>10, <1>11, <1>12, <1>13,
           <1>14, <1>15, <1>16, <1>17, <1>18, <1>19 DEF Next

\* No message of the history is missing from the log, whatever compaction,
\* retries, crashes and the user's executions do to the two.
THEOREM NothingIsForgotten == Spec => []NothingForgotten
<1>1. Init => Fresh /\ Remembers
  <2> SUFFICES ASSUME Init PROVE Fresh /\ Known
    BY DEF Remembers
  <2>1. <<>> \in Seq(Upto(made)) /\ Len(<<>>) = 0 /\ 1..0 = {}
    BY EmptySeq
  <2> QED BY <2>1 DEF Init, Fresh, Known, KnownAt, Ahead, Rewriting
<1>2. Shape /\ Remembers => NothingForgotten
  <2> SUFFICES ASSUME Shape, Known PROVE \A i \in DOMAIN mem : mem[i].by = "summary" \/ mem[i] \in Range(After)
    BY DEF Remembers, NothingForgotten, Tolerable
  <2>1. PICK a, h : a = AfterOf(log) /\ h = mem
    OBVIOUS
  <2>2. After = a /\ DOMAIN a = 1..Len(a) /\ DOMAIN h = 1..Len(h)
    BY <2>1, AfterIs, LenProperties DEF Shape, Places
  <2>3. \A x : In(x, a) => x \in Range(a)
    BY <2>2 DEF In, Range
  <2>4. \A i \in 1..Len(h) : h[i].by = "summary" \/ In(h[i], a)
    BY <2>1 DEF Known, KnownAt
  <2> QED BY <2>1, <2>2, <2>3, <2>4
<1> QED BY <1>1, <1>2, ShapeInit, ShapeStep, FreshStep, RemembersStep, PTL DEF Spec

-----------------------------------------------------------------------------
(* Calls and their results                                                 *)

\* The calls of the i-th message have their results behind it, and the results
\* in it their calls before it.
Followed(h, i) ==
  IsAnswer(h[i]) /\ h[i].calls # {} =>
    i < Len(h) /\ h[i + 1].by = "results" /\ h[i + 1].calls = h[i].calls
Led(h, i) ==
  h[i].by = "results" => i > 1 /\ IsAnswer(h[i - 1]) /\ h[i].calls = h[i - 1].calls

\* A history of whole pairs, message by message.
LEMMA WholeIs ==
  ASSUME NEW h \in Seq(Messages)
  PROVE  PairsWhole(h) <=> \A i \in 1..Len(h) : Followed(h, i) /\ Led(h, i)
<1>1. DOMAIN h = 1..Len(h)
  BY LenProperties
<1> QED BY <1>1 DEF PairsWhole, Followed, Led

\* No pair is cut where there is none.
LEMMA WholeEmpty == PairsWhole(<<>>)
BY DEF PairsWhole

\* Without an answer at its end a history of whole pairs is one, and the calls
\* of such an answer are none.
LEMMA WholeFront ==
  ASSUME NEW h \in Seq(Messages), PairsWhole(h), EndsAnswered(h)
  PROVE  PairsWhole(Front(h)) /\ Last(h).calls = {}
<1>1. h # <<>> /\ IsAnswer(Last(h))
  BY DEF EndsAnswered
<1> PICK f, n : f = Front(h) /\ n = Len(h)
  OBVIOUS
<1>2. /\ f \in Seq(Messages) /\ Len(f) = n - 1 /\ n \in Nat \ {0} /\ Last(h) = h[n]
      /\ \A i \in 1..(n - 1) : f[i] = h[i]
  BY <1>1, FrontFacts
<1>3. \A i \in 1..n : Followed(h, i) /\ Led(h, i)
  BY WholeIs
<1>4. h[n].calls = {}
  BY <1>1, <1>2, <1>3 DEF Followed
<1>5. ASSUME NEW i \in 1..(n - 1) PROVE Followed(f, i) /\ Led(f, i)
  <2>1. f[i] = h[i] /\ i \in 1..n /\ Followed(h, i) /\ Led(h, i)
    BY <1>2, <1>3
  <2>2. Led(f, i)
    <3>1. i > 1 => i - 1 \in 1..(n - 1) /\ f[i - 1] = h[i - 1]
      BY <1>2
    <3> QED BY <2>1, <3>1 DEF Led
  <2>3. Followed(f, i)
    <3>1. CASE i = n - 1
      <4>1. i + 1 = n
        BY <1>2, <3>1
      <4>2. h[i + 1].by # "results"
        BY <1>1, <1>2, <4>1 DEF IsAnswer
      <4> QED BY <2>1, <4>2 DEF Followed
    <3>2. CASE i # n - 1
      <4>1. i + 1 \in 1..(n - 1) /\ i < n - 1
        BY <1>2, <3>2
      <4>2. f[i + 1] = h[i + 1]
        BY <1>2, <4>1
      <4> QED BY <1>2, <2>1, <4>1, <4>2 DEF Followed
    <3> QED BY <3>1, <3>2
  <2> QED BY <2>2, <2>3
<1> QED BY <1>2, <1>4, <1>5, WholeIs

\* What no answer waits for may follow whole pairs, if it waits for nothing.
LEMMA WholeAppend ==
  ASSUME NEW h \in Seq(Messages), PairsWhole(h), NEW m \in Messages,
         m.by # "results", IsAnswer(m) => m.calls = {}
  PROVE  PairsWhole(Append(h, m))
<1> PICK k, n : k = Append(h, m) /\ n = Len(h)
  OBVIOUS
<1>1. /\ k \in Seq(Messages) /\ Len(k) = n + 1 /\ n \in Nat
      /\ \A i \in 1..n : k[i] = h[i]
      /\ k[n + 1] = m
  BY AppendProperties, LenProperties
<1>2. \A i \in 1..n : Followed(h, i) /\ Led(h, i)
  BY WholeIs
<1>3. ASSUME NEW i \in 1..n PROVE Followed(k, i) /\ Led(k, i)
  <2>1. k[i] = h[i] /\ Followed(h, i) /\ Led(h, i)
    BY <1>1, <1>2
  <2>2. Led(k, i)
    <3>1. i > 1 => i - 1 \in 1..n /\ k[i - 1] = h[i - 1]
      BY <1>1
    <3> QED BY <2>1, <3>1 DEF Led
  <2>3. i < n => i + 1 \in 1..n /\ k[i + 1] = h[i + 1] /\ i < n + 1
    BY <1>1
  <2> QED BY <1>1, <2>1, <2>2, <2>3 DEF Followed
<1>4. Followed(k, n + 1) /\ Led(k, n + 1)
  BY <1>1 DEF Followed, Led
<1>5. \A i \in 1..(n + 1) : i \in 1..n \/ i = n + 1
  BY <1>1
<1> QED BY <1>1, <1>3, <1>4, <1>5, WholeIs

\* An answer at the end gets its results.
LEMMA WholeAnswers ==
  ASSUME NEW h \in Seq(Messages), EndsAnswered(h), PairsWhole(Front(h)), NEW m \in Messages,
         m.by = "results", m.calls = Last(h).calls
  PROVE  PairsWhole(Append(h, m))
<1>1. h # <<>> /\ IsAnswer(Last(h))
  BY DEF EndsAnswered
<1> PICK f, k, n : f = Front(h) /\ k = Append(h, m) /\ n = Len(h)
  OBVIOUS
<1>2. /\ f \in Seq(Messages) /\ Len(f) = n - 1 /\ n \in Nat \ {0} /\ Last(h) = h[n]
      /\ \A i \in 1..(n - 1) : f[i] = h[i]
  BY <1>1, FrontFacts
<1>3. /\ k \in Seq(Messages) /\ Len(k) = n + 1
      /\ \A i \in 1..n : k[i] = h[i]
      /\ k[n + 1] = m
  BY AppendProperties, LenProperties
<1>4. \A i \in 1..(n - 1) : Followed(f, i) /\ Led(f, i)
  BY <1>2, WholeIs
<1>5. ASSUME NEW i \in 1..(n - 1) PROVE Followed(k, i) /\ Led(k, i)
  <2>0. i \in 1..n
    BY <1>2
  <2>1. i \in 1..n /\ k[i] = f[i] /\ Followed(f, i) /\ Led(f, i)
    BY <1>2, <1>3, <1>4, <2>0
  <2>2. Led(k, i)
    <3>1. i > 1 => i - 1 \in 1..(n - 1) /\ i - 1 \in 1..n
      BY <1>2
    <3>2. i > 1 => k[i - 1] = f[i - 1]
      BY <1>2, <1>3, <3>1
    <3> QED BY <2>1, <3>2 DEF Led
  <2>3. i < n - 1 => i + 1 \in 1..(n - 1) /\ i + 1 \in 1..n /\ i < n + 1
    BY <1>2
  <2>4. i < n - 1 => k[i + 1] = f[i + 1]
    BY <1>2, <1>3, <2>3
  <2> QED BY <1>2, <1>3, <2>1, <2>2, <2>3, <2>4 DEF Followed
<1>6. Followed(k, n) /\ Led(k, n)
  <2>1. n \in 1..n /\ k[n] = h[n] /\ IsAnswer(h[n]) /\ n < n + 1
    BY <1>1, <1>2, <1>3
  <2>2. Led(k, n)
    BY <2>1 DEF Led, IsAnswer
  <2> QED BY <1>2, <1>3, <2>1, <2>2 DEF Followed
<1>7. Followed(k, n + 1) /\ Led(k, n + 1)
  <2>1. n \in 1..n /\ k[n] = h[n] /\ IsAnswer(h[n]) /\ n + 1 > 1 /\ (n + 1) - 1 = n
    BY <1>1, <1>2, <1>3
  <2>2. Led(k, n + 1)
    BY <1>2, <1>3, <2>1 DEF Led
  <2> QED BY <1>3, <2>2 DEF Followed, IsAnswer
<1>8. \A i \in 1..(n + 1) : i \in 1..(n - 1) \/ i = n \/ i = n + 1
  BY <1>2
<1> QED BY <1>3, <1>5, <1>6, <1>7, <1>8, WholeIs

\* A history that ends with an answer whose calls have no results yet.
Asking(h) == EndsAnswered(h) /\ Last(h).calls # {} /\ PairsWhole(Front(h))

\* An answer with calls asks, whatever it takes the place of.
LEMMA AsksNow ==
  ASSUME NEW h \in Seq(Messages), PairsWhole(h), NEW m \in Messages, IsAnswer(m), m.calls # {}
  PROVE  Asking(Append(h, m)) /\ Last(Append(h, m)).calls = m.calls
BY AppendEnds DEF Asking

\* A message that is applied to whole pairs is appended to whole pairs.
LEMMA WholeApply ==
  ASSUME NEW h \in Seq(Messages), PairsWhole(h), NEW m \in Messages, m.by # "results",
         NEW row, row.messages = <<m>>, row.snapshot = FALSE
  PROVE  /\ (IsAnswer(m) => m.calls = {}) => PairsWhole(Apply(h, row))
         /\ IsAnswer(m) /\ m.calls # {} => Asking(Apply(h, row)) /\ Last(Apply(h, row)).calls = m.calls
<1>1. CASE EndsAnswered(h) /\ IsAnswer(m)
  <2>1. Apply(h, row) = Append(Front(h), m)
    BY <1>1, ApplyOne
  <2>2. Front(h) \in Seq(Messages) /\ PairsWhole(Front(h))
    BY <1>1, WholeFront, FrontLast DEF EndsAnswered
  <2> QED BY <2>1, <2>2, WholeAppend, AsksNow
<1>2. CASE ~(EndsAnswered(h) /\ IsAnswer(m))
  BY <1>2, ApplyOne, WholeAppend, AsksNow
<1> QED BY <1>1, <1>2

\* The calls that have no results are those of an answer at the end.
LEMMA PendingFacts ==
  ASSUME NEW h \in Seq(Messages)
  PROVE  /\ PairsWhole(h) => Pending(h) = {}
         /\ EndsAnswered(h) => Pending(h) = Last(h).calls
<1> DEFINE answers == {i \in DOMAIN h : IsAnswer(h[i])}
           final   == CHOOSE i \in answers : \A j \in answers : j <= i
           later   == UNION {h[i].calls : i \in {j \in DOMAIN h : j > final}}
<1>1. Len(h) \in Nat /\ DOMAIN h = 1..Len(h)
  BY LenProperties
<1>2. answers \subseteq 0..Len(h)
  BY <1>1
<1>3. EndsAnswered(h) => Last(h) = h[Len(h)] /\ Len(h) \in answers
  <2> SUFFICES ASSUME EndsAnswered(h) PROVE Last(h) = h[Len(h)] /\ Len(h) \in answers
    OBVIOUS
  <2>1. h # <<>> /\ IsAnswer(Last(h))
    BY DEF EndsAnswered
  <2>2. Last(h) = h[Len(h)] /\ Len(h) \in Nat \ {0}
    BY <2>1, FrontFacts
  <2> QED BY <1>1, <2>1, <2>2
<1>4. CASE answers = {}
  BY <1>3, <1>4 DEF Pending
<1>5. CASE answers # {}
  <2>1. \E i \in answers : \A j \in answers : j <= i
    <3> HIDE DEF answers
    <3> QED BY <1>1, <1>2, <1>5, GreatestExists
  <2>2. final \in answers /\ \A j \in answers : j <= final
    <3> HIDE DEF answers
    <3> QED BY <2>1
  <2>3. Pending(h) = h[final].calls \ later
    BY <1>5 DEF Pending
  <2> HIDE DEF final
  <2>4. final \in 1..Len(h) /\ IsAnswer(h[final])
    BY <1>1, <2>2
  <2>5. ASSUME PairsWhole(h) PROVE h[final].calls \subseteq later
    <3>1. CASE h[final].calls = {}
      BY <3>1
    <3>2. CASE h[final].calls # {}
      <4>1. Followed(h, final)
        BY <2>4, <2>5, WholeIs
      <4>2. final < Len(h) /\ h[final + 1].calls = h[final].calls
        BY <2>4, <3>2, <4>1 DEF Followed
      <4>3. final + 1 \in DOMAIN h /\ final + 1 > final
        BY <1>1, <2>4, <4>2
      <4> QED BY <4>2, <4>3
    <3> QED BY <3>1, <3>2
  <2>6. ASSUME EndsAnswered(h) PROVE final = Len(h) /\ later = {}
    <3>1. Len(h) <= final
      BY <1>3, <2>2, <2>6
    <3>2. final = Len(h)
      <4>1. \A n \in Nat : \A f \in 1..n : n <= f => f = n
        OBVIOUS
      <4> QED BY <1>1, <2>4, <3>1, <4>1, Zenon
    <3>3. {j \in DOMAIN h : j > final} = {}
      BY <1>1, <3>2
    <3> QED BY <3>2, <3>3
  <2> QED BY <1>3, <2>3, <2>5, <2>6
<1> QED BY <1>4, <1>5

\* Compaction leaves whole pairs, unless the boundary cuts one.
LEMMA WholeCompacted ==
  ASSUME NEW h \in Seq(Messages), PairsWhole(h), NEW b \in 0..Len(h), ~Cuts(h, b)
  PROVE  PairsWhole(Compacted(h, b))
<1>1. Len(h) \in Nat
  BY LenProperties
<1>2. CASE b = 0
  BY <1>2 DEF Compacted
<1>3. CASE b # 0
  <2> PICK s, n : s = SubSeq(h, b + 1, Len(h)) /\ n = Len(h) - b
    OBVIOUS
  <2>1. b \in 1..Len(h) /\ n \in Nat
    BY <1>1, <1>3
  <2>2. \A i \in (b + 1)..Len(h) : h[i] \in Messages
    <3> TAKE i \in (b + 1)..Len(h)
    <3>1. i \in 1..Len(h)
      BY <1>1, <2>1
    <3> QED BY <3>1, ElementOfSeq
  <2>3. /\ s \in Seq(Messages)
        /\ Len(s) = IF b + 1 <= Len(h) THEN Len(h) - (b + 1) + 1 ELSE 0
        /\ \A i \in 1..(Len(h) - (b + 1) + 1) : s[i] = h[b + 1 + i - 1]
    BY <1>1, <2>1, <2>2, SubSeqProperties
  <2>4. Len(s) = n /\ DOMAIN s = 1..n
    <3>1. Len(s) = n
      BY <1>1, <2>1, <2>3
    <3> QED BY <2>3, <3>1, LenProperties
  <2>5. \A i \in 1..n : s[i] = h[b + i] /\ b + i \in 1..Len(h)
    <3> TAKE i \in 1..n
    <3>1. i \in 1..(Len(h) - (b + 1) + 1) /\ b + 1 + i - 1 = b + i /\ b + i \in 1..Len(h)
      BY <1>1, <2>1
    <3>2. s[i] = h[b + 1 + i - 1]
      BY <2>3, <3>1
    <3> QED BY <3>1, <3>2
  <2>6. <<Summary>> \in Seq(Messages) /\ Len(<<Summary>>) = 1 /\ <<Summary>>[1] = Summary
    BY SummaryTyped
  <2> PICK c : c = <<Summary>> \o s
    OBVIOUS
  <2>7. /\ c \in Seq(Messages) /\ Len(c) = 1 + n
        /\ \A i \in 1..(1 + n) : c[i] = IF i <= 1 THEN <<Summary>>[i] ELSE s[i - 1]
    BY <2>3, <2>4, <2>6, ConcatProperties
  <2>8. c[1] = Summary /\ \A i \in 1..n : c[i + 1] = h[b + i]
    <3>1. c[1] = Summary
      <4>1. 1 \in 1..(1 + n) /\ 1 <= 1
        BY <2>1
      <4> QED BY <2>6, <2>7, <4>1
    <3>2. ASSUME NEW i \in 1..n PROVE c[i + 1] = h[b + i]
      <4>1. i + 1 \in 1..(1 + n) /\ ~(i + 1 <= 1) /\ (i + 1) - 1 = i
        BY <2>1
      <4> QED BY <2>5, <2>7, <4>1
    <3> QED BY <3>1, <3>2
  <2>9. ResultsHaveTheirCalls(s)
    BY DEF Cuts
  <2>10. ASSUME NEW i \in 1..n PROVE Followed(c, i + 1) /\ Led(c, i + 1)
    <3>1. c[i + 1] = h[b + i] /\ Followed(h, b + i) /\ Led(h, b + i)
      BY <2>5, <2>8, WholeIs
    <3>2. ASSUME b + i < Len(h)
          PROVE  i + 1 < 1 + n /\ c[(i + 1) + 1] = h[(b + i) + 1]
      <4>1. i + 1 \in 1..n /\ b + (i + 1) = (b + i) + 1 /\ i + 1 < 1 + n
        BY <1>1, <2>1, <3>2
      <4>2. c[(i + 1) + 1] = h[b + (i + 1)]
        BY <2>8, <4>1
      <4> QED BY <4>1, <4>2
    <3>3. Followed(c, i + 1)
      BY <2>7, <3>1, <3>2 DEF Followed
    <3>4. ASSUME h[b + i].by = "results" PROVE i # 1
      <4>1. ASSUME i = 1 PROVE FALSE
        <5>1. s[1] = h[b + 1] /\ 1 \in DOMAIN s
          BY <2>1, <2>4, <2>5, <4>1
        <5>2. s[1].by = "results"
          BY <3>4, <4>1, <5>1
        <5>3. \E j \in 1..(1 - 1) : IsAnswer(s[j]) /\ s[1].calls \subseteq s[j].calls
          BY <2>9, <5>1, <5>2 DEF ResultsHaveTheirCalls
        <5> QED BY <5>3
      <4> QED BY <4>1
    <3>5. ASSUME h[b + i].by = "results"
          PROVE  i + 1 > 1 /\ c[(i + 1) - 1] = h[(b + i) - 1]
      <4>1. i - 1 \in 1..n /\ b + (i - 1) = (b + i) - 1 /\ (i - 1) + 1 = (i + 1) - 1 /\ i + 1 > 1
        BY <2>1, <3>4, <3>5
      <4>2. c[(i - 1) + 1] = h[b + (i - 1)]
        BY <2>8, <4>1
      <4> QED BY <4>1, <4>2
    <3>6. Led(c, i + 1)
      BY <3>1, <3>5 DEF Led
    <3> QED BY <3>3, <3>6
  <2>11. Followed(c, 1) /\ Led(c, 1)
    BY <2>8 DEF Followed, Led, IsAnswer, Summary
  <2>12. ASSUME NEW i \in 1..Len(c) PROVE Followed(c, i) /\ Led(c, i)
    <3>1. CASE i = 1
      BY <2>11, <3>1
    <3>2. CASE i # 1
      <4>1. i - 1 \in 1..n /\ (i - 1) + 1 = i
        BY <2>1, <2>7, <3>2
      <4>2. Followed(c, (i - 1) + 1) /\ Led(c, (i - 1) + 1)
        BY <2>10, <4>1
      <4> QED BY <4>1, <4>2
    <3> QED BY <3>1, <3>2
  <2>13. Compacted(h, b) = c
    BY <1>3 DEF Compacted
  <2> QED BY <2>7, <2>12, <2>13, WholeIs
<1> QED BY <1>2, <1>3

\* What is left of the first k messages: whole pairs, or what ends with the
\* k-th, an answer whose results may come next.
Half(h, gone, r, k) ==
  IF k \in 1..Len(h) /\ k \notin gone /\ IsAnswer(h[k])
  THEN /\ EndsAnswered(r) /\ Last(r) = h[k] /\ PairsWhole(Front(r))
       /\ h[k].calls = {} => PairsWhole(r)
  ELSE PairsWhole(r)

\* Micro-compaction takes out calls with their results, and leaves whole pairs.
LEMMA WholeMicrocompacted ==
  ASSUME NEW h \in Seq(Messages), PairsWhole(h)
  PROVE  PairsWhole(Microcompacted(h))
<1>1. Len(h) \in Nat /\ Boundary(h) \in 0..Len(h) /\ \A i \in 1..Len(h) : h[i] \in Messages
  BY LenProperties, BoundaryFacts, ElementOfSeq
<1>2. CASE Pairs(h) = {}
  BY <1>2 DEF Microcompacted
<1>3. CASE Pairs(h) # {}
  <2> PICK gone, r, n : gone = Pairs(h) /\ r = Noted(h, gone) /\ n = Len(h)
    OBVIOUS
  <2>1. /\ \A i \in 0..n : r[i] \in Seq(Messages)
        /\ r[0] = <<>>
        /\ \A i \in 1..n :
             r[i] = IF i = FirstOf(gone) THEN Append(r[i - 1], Summary)
                    ELSE IF i \in gone THEN r[i - 1] ELSE Append(r[i - 1], h[i])
    BY NotedUnfolds
  <2>2. \A x \in gone : \E j \in 1..(Boundary(h) - 1) :
          (x = j \/ x = j + 1) /\ IsAnswer(h[j]) /\ h[j + 1].by = "results"
                               /\ j \in gone /\ j + 1 \in gone
    BY DEF Pairs, OnlyReads
  <2>3. gone \subseteq Nat /\ gone # {}
    <3>1. ASSUME NEW x \in gone PROVE x \in Nat
      <4>1. PICK j \in 1..(Boundary(h) - 1) : x = j \/ x = j + 1
        BY <2>2
      <4> QED BY <1>1, <4>1
    <3> QED BY <1>3, <3>1
  <2>4. FirstOf(gone) \in gone
    <3>1. \E i \in gone : \A j \in gone : i <= j
      BY <2>3, LeastExists
    <3> QED BY <3>1 DEF FirstOf
  <2>5. \A i \in 1..n : Followed(h, i) /\ Led(h, i)
    BY WholeIs
  <2>6. ASSUME NEW k \in 1..n, k \in gone, IsAnswer(h[k]) PROVE k + 1 \in gone
    <3>1. PICK j \in 1..(Boundary(h) - 1) :
            (k = j \/ k = j + 1) /\ h[j + 1].by = "results" /\ j + 1 \in gone
      BY <2>2, <2>6
    <3> QED BY <2>6, <3>1 DEF IsAnswer
  <2>7. ASSUME NEW k \in 1..n, k \in gone, ~IsAnswer(h[k]) PROVE k - 1 \in gone
    <3>1. PICK j \in 1..(Boundary(h) - 1) : (k = j \/ k = j + 1) /\ IsAnswer(h[j]) /\ j \in gone
      BY <2>2, <2>7
    <3>2. k = j + 1
      BY <2>7, <3>1
    <3>3. k - 1 = j
      BY <1>1, <3>2
    <3> QED BY <3>1, <3>3
  <2>8. ASSUME NEW k \in 0..n, k + 1 \in 1..n, Half(h, gone, r[k], k), h[k + 1].by # "results"
        PROVE  PairsWhole(r[k])
    <3>1. CASE k \in 1..n /\ k \notin gone /\ IsAnswer(h[k])
      <4>1. h[k].calls = {} => PairsWhole(r[k])
        BY <2>8, <3>1 DEF Half
      <4>2. h[k].calls = {}
        BY <2>5, <2>8, <3>1 DEF Followed
      <4> QED BY <4>1, <4>2
    <3> QED BY <2>8, <3>1 DEF Half
  <2>9. ASSUME NEW k \in 0..n, k + 1 \in 1..n, Half(h, gone, r[k], k), k + 1 \in gone
        PROVE  PairsWhole(r[k])
    <3>1. CASE IsAnswer(h[k + 1])
      BY <2>8, <2>9, <3>1 DEF IsAnswer
    <3>2. CASE ~IsAnswer(h[k + 1])
      <4>1. (k + 1) - 1 = k
        BY <1>1
      <4>2. k \in gone
        BY <2>7, <2>9, <3>2, <4>1
      <4> QED BY <2>9, <4>2 DEF Half
    <3> QED BY <3>1, <3>2
  <2>10. ASSUME NEW k \in 0..n, k + 1 \in 1..n, Half(h, gone, r[k], k)
         PROVE  Half(h, gone, r[k + 1], k + 1)
    <3> PICK q, m : q = r[k] /\ m = h[k + 1]
      OBVIOUS
    <3>1. q \in Seq(Messages) /\ m \in Messages /\ (k + 1) - 1 = k
      BY <1>1, <2>1, <2>10
    <3>2. r[k + 1] = IF k + 1 = FirstOf(gone) THEN Append(q, Summary)
                     ELSE IF k + 1 \in gone THEN q ELSE Append(q, m)
      BY <2>1, <2>10, <3>1
    <3>3. CASE k + 1 \in gone
      <4>1. PairsWhole(q)
        BY <2>9, <2>10, <3>3
      <4>2. PairsWhole(Append(q, Summary))
        <5>1. Summary \in Messages /\ Summary.by # "results" /\ ~IsAnswer(Summary)
          BY SummaryTyped DEF Summary, IsAnswer
        <5> QED BY <3>1, <4>1, <5>1, WholeAppend
      <4>3. PairsWhole(r[k + 1])
        BY <3>2, <3>3, <4>1, <4>2
      <4> QED BY <3>3, <4>3 DEF Half
    <3>4. CASE k + 1 \notin gone
      <4>1. r[k + 1] = Append(q, m)
        BY <2>4, <3>2, <3>4
      <4>2. CASE m.by = "results"
        <5>1. k \in 1..n /\ IsAnswer(h[k]) /\ m.calls = h[k].calls
          <6>1. Led(h, k + 1)
            BY <2>5, <2>10
          <6>2. k + 1 > 1 /\ IsAnswer(h[(k + 1) - 1]) /\ m.calls = h[(k + 1) - 1].calls
            BY <4>2, <6>1 DEF Led
          <6>3. k \in 1..n
            BY <1>1, <6>2
          <6> QED BY <3>1, <6>2, <6>3
        <5>2. k \notin gone
          BY <2>6, <3>4, <5>1
        <5>3. EndsAnswered(q) /\ Last(q) = h[k] /\ PairsWhole(Front(q))
          BY <2>10, <5>1, <5>2 DEF Half
        <5>4. PairsWhole(Append(q, m))
          BY <3>1, <4>2, <5>1, <5>3, WholeAnswers
        <5>5. ~IsAnswer(h[k + 1])
          BY <4>2 DEF IsAnswer
        <5> QED BY <4>1, <5>4, <5>5 DEF Half
      <4>3. CASE m.by # "results"
        <5>1. PairsWhole(q)
          BY <2>8, <2>10, <4>3
        <5>2. (IsAnswer(m) => m.calls = {}) => PairsWhole(Append(q, m))
          BY <3>1, <4>3, <5>1, WholeAppend
        <5>3. /\ Last(Append(q, m)) = m /\ Front(Append(q, m)) = q
              /\ EndsAnswered(Append(q, m)) <=> IsAnswer(m)
          BY <3>1, AppendEnds
        <5>4. k + 1 \in 1..Len(h) /\ h[k + 1] = m /\ r[k + 1] = Append(q, m)
          BY <2>10, <4>1
        <5>5. CASE IsAnswer(m)
          BY <3>4, <5>1, <5>2, <5>3, <5>4, <5>5 DEF Half
        <5>6. CASE ~IsAnswer(m)
          BY <5>2, <5>4, <5>6 DEF Half
        <5> QED BY <5>5, <5>6
      <4> QED BY <4>2, <4>3
    <3> QED BY <3>3, <3>4
  <2>11. \A i \in 0..n : Half(h, gone, r[i], i)
    <3> DEFINE S == {i \in Nat : i <= n => Half(h, gone, r[i], i)}
    <3>1. 0 \in S
      <4>1. 0 \notin 1..Len(h)
        BY <1>1
      <4>2. Half(h, gone, r[0], 0)
        BY <2>1, <4>1, WholeEmpty DEF Half
      <4> QED BY <4>2
    <3>2. ASSUME NEW i \in S PROVE i + 1 \in S
      <4>1. ASSUME i + 1 <= n PROVE Half(h, gone, r[i + 1], i + 1)
        <5>1. i \in 0..n /\ i + 1 \in 1..n /\ i <= n
          BY <1>1, <4>1
        <5> QED BY <2>10, <5>1
      <4> QED BY <4>1
    <3>3. S = Nat
      <4> HIDE DEF S
      <4>1. S \subseteq Nat
        BY DEF S
      <4> QED BY <3>1, <3>2, <4>1, SetInduction
    <3> QED BY <1>1, <3>3
  <2>12. Half(h, gone, r[n], n)
    BY <1>1, <2>11
  <2>13. n \in 1..n /\ IsAnswer(h[n]) => h[n].calls = {}
    BY <1>1, <2>5 DEF Followed
  <2>14. PairsWhole(r[n])
    BY <2>12, <2>13 DEF Half
  <2>15. Microcompacted(h) = r[n]
    BY <1>3 DEF Microcompacted
  <2> QED BY <2>14, <2>15
<1> QED BY <1>2, <1>3

-----------------------------------------------------------------------------
(* Pairs at every step                                                     *)

\* The log folds to a, the history is h, at this place of the loop: both hold
\* whole pairs, or both end with the answer whose calls are being made.
WholeAt(a, h, place, deep) ==
  /\ ~deep
  /\ place # "tools" => PairsWhole(h) /\ PairsWhole(a)
  /\ place = "tools" => Asking(h) /\ Asking(a) /\ Last(h).calls = Last(a).calls

\* The boundary that a summary is made for cuts no pair.
Summing == {"compacting", "recompacting"}
Uncut   == phase \in Summing => ~Cuts(mem, cut)

\* The departures that keep pairs whole, and what holds in spite of them.
Plain   == {"micro", "reactive", "abandon"}
Whole   == WholeAt(AfterOf(log), mem, Ahead, leaked) /\ Uncut
Pairing == Tolerates(Plain) => Whole

\* No pair is cut where nothing is summarised.
LEMMA UncutStart ==
  ASSUME NEW h \in Seq(Messages), PairsWhole(h)
  PROVE  ~Cuts(h, 0)
<1>1. Len(h) \in Nat /\ DOMAIN h = 1..Len(h)
  BY LenProperties
<1>2. SubSeq(h, 0 + 1, Len(h)) = h
  BY SubSeqFull
<1>3. ResultsHaveTheirCalls(h)
  <2> SUFFICES ASSUME NEW i \in 1..Len(h), h[i].by = "results"
               PROVE  \E j \in 1..(i - 1) : IsAnswer(h[j]) /\ h[i].calls \subseteq h[j].calls
    BY <1>1 DEF ResultsHaveTheirCalls
  <2>1. i > 1 /\ IsAnswer(h[i - 1]) /\ h[i].calls = h[i - 1].calls
    BY WholeIs DEF Led
  <2>2. i - 1 \in 1..(i - 1)
    BY <2>1
  <2> QED BY <2>1, <2>2
<1> QED BY <1>2, <1>3 DEF Cuts

\* A log without open writes folds to what a reload gives.
LEMMA ReloadSettled ==
  ASSUME NEW l \in LogRows, \A i \in 1..Len(l) : l[i].state # "open"
  PROVE  AfterOf(l) = Reload(l)
<1> PICK k : k = SettledOf(l, "written")
  OBVIOUS
<1>1. /\ k \in LogRows /\ Len(k) = Len(l) /\ Alike(l, k)
      /\ \A i \in 1..Len(l) : k[i].state = IF l[i].state = "open" THEN "written" ELSE l[i].state
  BY SettledTyped
<1>2. k \in Seq(Rows) /\ l \in Seq(Rows)
  BY <1>1 DEF LogRows
<1>3. \A i \in 1..Len(k) : /\ k[i].state = "written" <=> l[i].state = "written"
                           /\ k[i].messages = l[i].messages /\ k[i].snapshot = l[i].snapshot
  BY <1>1 DEF Alike
<1> QED BY <1>1, <1>2, <1>3, ReloadFacts DEF AfterOf

\* A user's message is appended and its event written.
LEMMA WholeAppends ==
  ASSUME Shape, Whole, Ahead # "tools", NEW m \in Messages, m.by = "user", NEW w \in {"turn", "user"},
         mem' = Append(mem, m), log' = Append(log, Row(w, <<m>>, FALSE)),
         Ahead' # "tools", phase' \notin Summing, leaked' = FALSE
  PROVE  Whole'
<1> PICK row, a, h, p : row = Row(w, <<m>>, FALSE) /\ a = AfterOf(log) /\ h = mem /\ p = Ahead'
  OBVIOUS
<1>1. <<m>> \in Seq(Messages) /\ Len(<<m>>) = 1 /\ Domains
  BY DEF Shape, Domains
<1>2. row.messages = <<m>> /\ row.snapshot = FALSE
  BY DEF Row
<1>3. AfterOf(log') = Apply(a, row)
  BY <1>1, AppendsRow
<1>4. h \in Seq(Messages) /\ a \in Seq(Messages) /\ PairsWhole(h) /\ PairsWhole(a)
  BY AfterIs DEF Shape, Places, Whole, WholeAt
<1>5. ~IsAnswer(m) /\ m.by # "results"
  BY DEF IsAnswer
<1>6. PairsWhole(Append(h, m)) /\ PairsWhole(Apply(a, row))
  BY <1>2, <1>4, <1>5, WholeAppend, WholeApply
<1>7. WholeAt(Apply(a, row), Append(h, m), p, FALSE)
  BY <1>6 DEF WholeAt
<1> QED BY <1>3, <1>7 DEF Whole, Uncut

\* The results of the calls are appended and their event written.
LEMMA WholeResults ==
  ASSUME Shape, Whole, Ahead = "tools", NEW m \in Messages, m.by = "results", m.calls = Last(mem).calls,
         mem' = Append(mem, m), log' = Append(log, Row("turn", <<m>>, FALSE)),
         Ahead' # "tools", phase' \notin Summing, leaked' = FALSE
  PROVE  Whole'
<1> PICK row, a, h, p : row = Row("turn", <<m>>, FALSE) /\ a = AfterOf(log) /\ h = mem /\ p = Ahead'
  OBVIOUS
<1>1. <<m>> \in Seq(Messages) /\ Len(<<m>>) = 1 /\ Domains
  BY DEF Shape, Domains
<1>2. row.messages = <<m>> /\ row.snapshot = FALSE
  BY DEF Row
<1>3. AfterOf(log') = Apply(a, row)
  BY <1>1, AppendsRow
<1>4. h \in Seq(Messages) /\ a \in Seq(Messages) /\ Asking(h) /\ Asking(a)
      /\ Last(h).calls = Last(a).calls
  BY AfterIs DEF Shape, Places, Whole, WholeAt
<1>5. ~IsAnswer(m)
  BY DEF IsAnswer
<1>6. Apply(a, row) = Append(a, m)
  BY <1>2, <1>4, <1>5, ApplyOne
<1>7. PairsWhole(Append(h, m)) /\ PairsWhole(Append(a, m))
  BY <1>4, WholeAnswers DEF Asking
<1>8. WholeAt(Append(a, m), Append(h, m), p, FALSE)
  BY <1>7 DEF WholeAt
<1> QED BY <1>3, <1>6, <1>8 DEF Whole, Uncut

\* Every step keeps calls and results together.
LEMMA PairingStep == Shape /\ Shape' /\ Pairing /\ [Next]_vars => Pairing'
<1> SUFFICES ASSUME Shape, Shape', Pairing, [Next]_vars, Tolerates(Plain)' PROVE Whole'
  BY DEF Pairing
<1> DEFINE Same == UNCHANGED <<departs, spent>>
           Left == \E ds : Departs(ds)
<1>t. Same \/ Left => Whole
  BY DepartsTolerates DEF Pairing, Tolerates
<1>d. Domains /\ mem \in Seq(Messages) /\ leaked \in BOOLEAN /\ after # "writing"
  BY DEF Shape, Domains, Counts, Places
<1>w. \A c, d : When(c, d) = IF c THEN {d} ELSE {}
  BY DEF When
<1>a. AfterOf(log) \in Seq(Messages)
  BY AfterIs
<1>b. \A ds : Departs(ds) => ds \subseteq Plain
  BY DepartsTolerates
<1>k. Whole => leaked = FALSE
  BY <1>d DEF Whole, WholeAt
<1>v. Whole /\ Ahead # "tools" => PairsWhole(mem) /\ PairsWhole(AfterOf(log))
  BY DEF Whole, WholeAt
<1>q. ASSUME NEW h \in Seq(Messages), NEW a \in Seq(Messages), PairsWhole(h), PairsWhole(a),
             mem' = h, AfterOf(log') = a, Ahead' # "tools", leaked' = FALSE,
             phase' \in Summing => ~Cuts(h, cut')
      PROVE  Whole'
  <2>1. PICK p : p = Ahead'
    OBVIOUS
  <2>2. WholeAt(a, h, p, FALSE)
    BY <1>q, <2>1 DEF WholeAt
  <2> QED BY <1>q, <2>1, <2>2 DEF Whole, Uncut
<1>m. ASSUME NEW h \in Seq(Messages), Whole, Ahead # "tools", PairsWhole(h), mem' = h, log' = log,
             Ahead' # "tools", leaked' = FALSE, phase' \in Summing => ~Cuts(h, cut')
      PROVE  Whole'
  <2>1. PICK a : a = AfterOf(log)
    OBVIOUS
  <2>2. a \in Seq(Messages) /\ PairsWhole(a) /\ AfterOf(log') = a
    BY <1>a, <1>m, <1>v, <2>1
  <2> QED BY <1>m, <1>q, <2>2
<1>1. CASE Prompt
  <2>1. PICK m : m = Message("user", {})
    OBVIOUS
  <2>2. m \in Messages /\ m.by = "user"
    BY <1>1, <1>d, <2>1, MessageTyped DEF Prompt
  <2>3. Appends(m, FALSE, "prepare") /\ leaked' = FALSE /\ phase = "idle" /\ Left
    BY <1>1, <2>1 DEF Prompt
  <2>4. /\ mem' = Append(mem, m) /\ log' = Append(log, Row("turn", <<m>>, FALSE))
        /\ Ahead' # "tools" /\ phase' \notin Summing
    BY <2>3 DEF Appends, Yields, Ahead, Summing
  <2>5. Whole /\ Ahead # "tools"
    BY <1>t, <2>3 DEF Ahead
  <2> QED BY <2>2, <2>3, <2>4, <2>5, WholeAppends
<1>2. CASE Ready
  <2>1. Whole /\ UNCHANGED <<mem, log, leaked>> /\ Ahead # "tools" /\ Ahead' # "tools"
        /\ phase' \notin Summing
    BY <1>2, <1>t DEF Ready, Go, Ahead, Summing
  <2> QED BY <1>d, <1>k, <1>m, <1>v, <2>1
<1>3. CASE Microcompact
  <2>1. PICK h : h = Microcompacted(mem)
    OBVIOUS
  <2>2. Whole /\ mem' = h /\ UNCHANGED <<log, leaked>> /\ Ahead # "tools" /\ Ahead' # "tools"
        /\ phase' \notin Summing
    BY <1>3, <1>t, <2>1 DEF Microcompact, Go, Ahead, Summing
  <2>3. h \in Seq(Messages) /\ PairsWhole(h)
    BY <1>d, <1>v, <2>1, <2>2, MicrocompactedTyped, WholeMicrocompacted
  <2> QED BY <1>k, <1>m, <2>2, <2>3
<1>4. CASE StartSummary
  <2>1. PICK h, b, c, d : /\ h = Microcompacted(mem) /\ b = Boundary(h)
                          /\ c = (h # mem) /\ d = Cuts(h, b)
    OBVIOUS
  <2>2. /\ Departs(When(c, "micro") \cup When(d, "cut"))
        /\ mem' = h /\ cut' = b /\ UNCHANGED <<log, leaked>> /\ phase = "prepare"
        /\ phase' = "compacting"
    BY <1>4, <2>1 DEF StartSummary
  <2>3. Whole /\ Ahead # "tools" /\ Ahead' # "tools"
    BY <1>t, <2>2 DEF Ahead
  <2>4. When(c, "micro") \cup When(d, "cut") \subseteq Plain
    BY <1>b, <2>2
  <2>5. ~d
    BY <1>w, <2>4 DEF Plain
  <2>6. h \in Seq(Messages) /\ PairsWhole(h)
    BY <1>d, <1>v, <2>1, <2>3, MicrocompactedTyped, WholeMicrocompacted
  <2> QED BY <1>k, <1>m, <2>1, <2>2, <2>3, <2>5, <2>6
<1>5. CASE Summarise
  <2>1. PICK h, c, g : h = Compacted(mem, cut) /\ c = cut /\ g = mem
    OBVIOUS
  <2>2. Yields(h, h, TRUE, leaked, "streaming") /\ phase = "compacting" /\ Same /\ leaked' = leaked
    BY <1>5, <2>1 DEF Summarise
  <2>3. Whole /\ Ahead # "tools"
    BY <1>t, <2>2 DEF Ahead
  <2>4. g \in Seq(Messages) /\ c \in 0..Len(g) /\ PairsWhole(g) /\ ~Cuts(g, c)
    BY <1>d, <1>v, <2>1, <2>2, <2>3 DEF Shape, Places, Whole, Uncut, Summing
  <2>5. h \in Seq(Messages) /\ PairsWhole(h)
    BY <2>1, <2>4, WholeCompacted, CompactedTyped
  <2>6. PICK row, a : row = Row("turn", h, TRUE) /\ a = AfterOf(log)
    OBVIOUS
  <2>7. log' = Append(log, row) /\ mem' = h /\ Ahead' = "streaming" /\ leaked' = FALSE
        /\ phase' \notin Summing
    BY <1>k, <2>2, <2>3, <2>6 DEF Yields, Ahead, Summing
  <2>8. row.messages = h /\ row.snapshot = TRUE
    BY <1>d, <2>5, <2>6, RowTyped
  <2>9. AfterOf(log') = Apply(a, row)
    BY <1>d, <2>5, <2>6, <2>7, AppendsRow
  <2>10. Apply(a, row) = h
    BY <2>8 DEF Apply
  <2> QED BY <1>q, <2>5, <2>7, <2>9, <2>10
<1>6. CASE Answer
  <2>1. PICK picks \in Asks :
          LET m    == Message("assistant", {made + 1} \X picks)
              next == IF picks = {} THEN "stop" ELSE "tools"
          IN  /\ mem' = Append(mem, m)
              /\ IF leaked THEN phase' = next /\ after' = "idle" /\ UNCHANGED log
                 ELSE /\ log' = Append(log, Row("turn", <<m>>, FALSE))
                      /\ phase' = "writing" /\ after' = next
    BY <1>6 DEF Answer
  <2>2. PICK m, next, calls : /\ calls = {made + 1} \X picks /\ m = Message("assistant", calls)
                              /\ next = IF picks = {} THEN "stop" ELSE "tools"
    OBVIOUS
  <2>3. made < MaxMessages /\ phase = "streaming" /\ Same /\ leaked' = leaked
    BY <1>6 DEF Answer
  <2>4. calls \subseteq Calls
    <3>1. made + 1 \in Numbers /\ picks \subseteq {1, 2}
      BY <2>3, LogAssumption DEF Numbers, Shape, Counts
    <3> QED BY <2>2, <3>1 DEF Calls
  <2>5. m \in Messages /\ <<m>> \in Seq(Messages) /\ Len(<<m>>) = 1
        /\ m.by = "assistant" /\ m.calls = calls
    BY <1>d, <2>2, <2>3, <2>4, MessageTyped
  <2>6. IsAnswer(m) /\ m.by # "results" /\ next \in {"stop", "tools"}
        /\ (next = "tools" <=> m.calls # {})
    <3>1. ASSUME picks # {} PROVE calls # {}
      <4>1. PICK e \in picks : TRUE
        BY <3>1
      <4>2. <<made + 1, e>> \in calls
        BY <2>2
      <4> QED BY <4>2
    <3>2. picks = {} => calls = {}
      BY <2>2
    <3> QED BY <2>2, <2>5, <3>1, <3>2 DEF IsAnswer
  <2>7. Whole /\ Ahead # "tools"
    BY <1>t, <2>3 DEF Ahead
  <2>8. PICK a, h, row : a = AfterOf(log) /\ h = mem /\ row = Row("turn", <<m>>, FALSE)
    OBVIOUS
  <2>9. mem' = Append(h, m) /\ log' = Append(log, row) /\ Ahead' = next /\ leaked' = FALSE
        /\ phase' \notin Summing
    BY <1>k, <2>1, <2>2, <2>3, <2>7, <2>8 DEF Ahead, Summing
  <2>10. row.messages = <<m>> /\ row.snapshot = FALSE
    BY <1>d, <2>5, <2>8, RowTyped
  <2>11. AfterOf(log') = Apply(a, row)
    BY <1>d, <2>5, <2>8, <2>9, AppendsRow
  <2>12. h \in Seq(Messages) /\ a \in Seq(Messages) /\ PairsWhole(h) /\ PairsWhole(a)
    BY <1>a, <1>d, <1>v, <2>7, <2>8
  <2>13. /\ m.calls = {} => PairsWhole(Append(h, m)) /\ PairsWhole(Apply(a, row))
         /\ m.calls # {} => /\ Asking(Append(h, m)) /\ Asking(Apply(a, row))
                            /\ Last(Append(h, m)).calls = Last(Apply(a, row)).calls
    BY <2>5, <2>6, <2>10, <2>12, WholeAppend, WholeApply, AsksNow
  <2>14. WholeAt(Apply(a, row), Append(h, m), next, FALSE)
    BY <2>6, <2>13 DEF WholeAt
  <2> QED BY <2>9, <2>11, <2>14 DEF Whole, Uncut
<1>7. CASE EmptyAnswer
  <2>1. Whole /\ UNCHANGED <<mem, log, leaked>> /\ Ahead # "tools" /\ Ahead' # "tools"
        /\ phase' \notin Summing
    BY <1>7, <1>t DEF EmptyAnswer, Go, Ahead, Summing
  <2> QED BY <1>d, <1>k, <1>m, <1>v, <2>1
<1>8. CASE Retry
  <2>1. /\ Whole /\ Ahead # "tools" /\ Ahead' # "tools" /\ UNCHANGED <<log, leaked>>
        /\ phase' \notin Summing
        /\ mem' = IF EndsAnswered(mem) THEN Front(mem) ELSE mem
    BY <1>8, <1>t DEF Retry, EndsAnswered, Ahead, Summing
  <2>2. PICK h : h = IF EndsAnswered(mem) THEN Front(mem) ELSE mem
    OBVIOUS
  <2>3. h \in Seq(Messages) /\ PairsWhole(h)
    BY <1>d, <1>v, <2>1, <2>2, WholeFront, FrontLast DEF EndsAnswered
  <2> QED BY <1>k, <1>m, <2>1, <2>2, <2>3
<1>9. CASE Refused
  <2>1. PICK h, b, d : h = mem /\ b = Boundary(h) /\ d = Cuts(h, b)
    OBVIOUS
  <2>2. /\ Departs({"reactive"} \cup When(d, "cut")) /\ UNCHANGED <<mem, log, leaked>>
        /\ phase = "streaming" /\ phase' = "recompacting" /\ cut' = b
    BY <1>9, <2>1 DEF Refused
  <2>3. Whole /\ Ahead # "tools" /\ Ahead' # "tools"
    BY <1>t, <2>2 DEF Ahead
  <2>4. {"reactive"} \cup When(d, "cut") \subseteq Plain
    BY <1>b, <2>2
  <2>5. ~d
    BY <1>w, <2>4 DEF Plain
  <2>6. h \in Seq(Messages) /\ PairsWhole(h) /\ mem' = h
    BY <1>d, <1>v, <2>1, <2>2, <2>3
  <2> QED BY <1>k, <1>m, <2>1, <2>2, <2>3, <2>5, <2>6
<1>10. CASE Recompact
  <2>1. PICK h, c, g : h = Compacted(mem, cut) /\ c = cut /\ g = mem
    OBVIOUS
  <2>2. mem' = h /\ Same /\ UNCHANGED <<log, leaked>> /\ phase = "recompacting" /\ phase' = "prepare"
    BY <1>10, <2>1 DEF Recompact, Go
  <2>3. Whole /\ Ahead # "tools" /\ Ahead' # "tools" /\ phase' \notin Summing
    BY <1>t, <2>2 DEF Ahead, Summing
  <2>4. g \in Seq(Messages) /\ c \in 0..Len(g) /\ PairsWhole(g) /\ ~Cuts(g, c)
    BY <1>d, <1>v, <2>1, <2>2, <2>3 DEF Shape, Places, Whole, Uncut, Summing
  <2>5. h \in Seq(Messages) /\ PairsWhole(h)
    BY <2>1, <2>4, WholeCompacted, CompactedTyped
  <2> QED BY <1>k, <1>m, <2>2, <2>3, <2>5
<1>11. CASE End
  <2>1. Whole /\ UNCHANGED <<mem, log>> /\ leaked' = FALSE /\ Ahead # "tools" /\ Ahead' # "tools"
        /\ phase' \notin Summing
    BY <1>11, <1>t DEF End, Go, Ahead, Summing
  <2> QED BY <1>d, <1>m, <1>v, <2>1
<1>12. CASE ToolsDone
  <2>1. PICK done \in SUBSET CallsOfLast(mem), deep \in BOOLEAN :
          /\ Departs(When(done # CallsOfLast(mem), "lost") \cup When(deep # leaked, "unlogged"))
          /\ leaked' = deep
          /\ IF done = {} THEN Go("prepare") /\ UNCHANGED <<mem, log>>
             ELSE Appends(Message("results", done), deep, "prepare")
    BY <1>12 DEF ToolsDone
  <2>2. phase = "tools" /\ made < MaxMessages
    BY <1>12 DEF ToolsDone
  <2>3. Whole /\ Ahead = "tools"
    BY <1>t, <2>1, <2>2 DEF Ahead
  <2>4. PICK c, d : c = (done # CallsOfLast(mem)) /\ d = (deep # leaked)
    OBVIOUS
  <2>5. When(c, "lost") \cup When(d, "unlogged") \subseteq Plain
    BY <1>b, <2>1, <2>4
  <2>6. ~c /\ ~d
    BY <1>w, <2>5 DEF Plain
  <2>7. deep = FALSE /\ done = Last(mem).calls /\ done # {} /\ done \subseteq Calls
    <3>1. EndsAnswered(mem) /\ Last(mem).calls # {}
      BY <2>3 DEF Whole, WholeAt, Asking
    <3>2. CallsOfLast(mem) = Last(mem).calls /\ CallsOfLast(mem) \subseteq Calls
      BY <1>d, <3>1, CallsOfLastFacts DEF EndsAnswered
    <3>3. deep = leaked /\ done = CallsOfLast(mem)
      BY <2>4, <2>6
    <3> QED BY <1>k, <2>3, <3>1, <3>2, <3>3
  <2>8. PICK m : m = Message("results", done)
    OBVIOUS
  <2>9. m \in Messages /\ m.by = "results" /\ m.calls = Last(mem).calls
    BY <1>d, <2>2, <2>7, <2>8, MessageTyped
  <2>10. Appends(m, FALSE, "prepare") /\ leaked' = FALSE
    BY <2>1, <2>7, <2>8
  <2>11. /\ mem' = Append(mem, m) /\ log' = Append(log, Row("turn", <<m>>, FALSE))
         /\ Ahead' # "tools" /\ phase' \notin Summing
    BY <2>10 DEF Appends, Yields, Ahead, Summing
  <2> QED BY <2>3, <2>9, <2>10, <2>11, WholeResults
<1>13. CASE Cancel
  <2>1. PICK done : done = Pending(mem)
    OBVIOUS
  <2>2. /\ leaked' = FALSE /\ Departs(Abandons) /\ made < MaxMessages
        /\ IF done = {} THEN Go("idle") /\ UNCHANGED <<mem, log>>
           ELSE Appends(Message("results", done), leaked, "idle")
        /\ phase # "writing"
    BY <1>13, <2>1 DEF Cancel
  <2>3. Whole
    BY <1>t, <2>2
  <2>4. CASE Ahead = "tools"
    <3>1. EndsAnswered(mem) /\ Last(mem).calls # {}
      BY <2>3, <2>4 DEF Whole, WholeAt, Asking
    <3>2. done = Last(mem).calls /\ done # {} /\ done \subseteq Calls
      BY <1>d, <2>1, <3>1, PendingFacts, CallsOfLastFacts
    <3>3. PICK m : m = Message("results", done)
      OBVIOUS
    <3>4. m \in Messages /\ m.by = "results" /\ m.calls = Last(mem).calls
      BY <1>d, <2>2, <3>2, <3>3, MessageTyped
    <3>5. Appends(m, leaked, "idle") /\ leaked = FALSE
      BY <1>k, <2>2, <2>3, <3>2, <3>3
    <3>6. /\ mem' = Append(mem, m) /\ log' = Append(log, Row("turn", <<m>>, FALSE))
          /\ Ahead' # "tools" /\ phase' \notin Summing
      BY <3>5 DEF Appends, Yields, Ahead, Summing
    <3> QED BY <2>2, <2>3, <2>4, <3>4, <3>6, WholeResults
  <2>5. CASE Ahead # "tools"
    <3>1. done = {}
      BY <1>d, <1>v, <2>1, <2>3, <2>5, PendingFacts
    <3>2. Ahead' # "tools" /\ phase' \notin Summing /\ UNCHANGED <<mem, log>>
      BY <2>2, <3>1 DEF Go, Ahead, Summing
    <3> QED BY <1>d, <1>m, <1>v, <2>2, <2>3, <2>5, <3>2
  <2> QED BY <2>4, <2>5
<1>14. CASE CancelOutside
  <2>1. PICK a : a = Abandons
    OBVIOUS
  <2>2. Departs({"outside"} \cup a)
    BY <1>14, <2>1 DEF CancelOutside
  <2>3. {"outside"} \cup a \subseteq Plain
    BY <1>b, <2>2
  <2> QED BY <2>3 DEF Plain
<1>15. CASE \E i \in DOMAIN log : Write(i)
  <2>1. PICK i \in DOMAIN log : Write(i)
    BY <1>15
  <2>2. PICK l, k, w : l = log /\ k = BecomeOf(l, i, "written") /\ w = log[i].writer
    OBVIOUS
  <2>3. l \in LogRows /\ i \in 1..Len(l) /\ l[i].state = "open" /\ w \in {"turn", "user"}
    BY <2>1, <2>2, LogRowsFacts DEF Write, Shape, Places
  <2>4. log' = k
    BY <2>1, <2>2 DEF Write, Become, BecomeOf
  <2>5. AfterOf(log') = AfterOf(log)
    BY <2>2, <2>3, <2>4, BecomeTyped
  <2>6. Whole /\ mem' = mem /\ Resumes(w)
    BY <1>t, <2>1, <2>2 DEF Write
  <2>7. CASE w = "turn"
    <3>1. phase = "writing"
      <4>1. i \in OpenIn(log, "turn")
        BY <2>2, <2>3, <2>7 DEF OpenIn
      <4> QED BY <4>1 DEF Shape, OneWrite
    <3>2. phase' = after /\ cut' = 0 /\ leaked' = (leaked /\ after # "idle")
      BY <2>6, <2>7 DEF Resumes, Go
    <3>3. Ahead' = Ahead /\ leaked' = leaked
      BY <1>d, <1>k, <2>6, <3>1, <3>2 DEF Ahead
    <3>4. WholeAt(AfterOf(log'), mem', Ahead', leaked')
      BY <2>5, <2>6, <3>3 DEF Whole
    <3>5. Uncut'
      <4>1. ASSUME after \in Summing PROVE ~Cuts(mem, 0)
        <5>1. Ahead # "tools"
          BY <3>1, <4>1 DEF Ahead, Summing
        <5> QED BY <1>d, <1>v, <2>6, <5>1, UncutStart
      <4> QED BY <2>6, <3>2, <4>1 DEF Uncut
    <3> QED BY <3>4, <3>5 DEF Whole
  <2>8. CASE w = "user"
    <3>1. UNCHANGED <<phase, after, cut, leaked>>
      BY <2>6, <2>8 DEF Resumes, turn
    <3> QED BY <2>5, <2>6, <3>1 DEF Whole, Uncut, Ahead
  <2> QED BY <2>3, <2>7, <2>8
<1>16. CASE \E i \in DOMAIN log : WriteFails(i)
  <2>1. Departs({"unlogged"})
    BY <1>16 DEF WriteFails
  <2>2. {"unlogged"} \subseteq Plain
    BY <1>b, <2>1
  <2> QED BY <2>2 DEF Plain
<1>17. CASE AppendContext
  <2>1. PICK m, c : m = Message("user", {}) /\ c = (phase # "idle")
    OBVIOUS
  <2>2. m \in Messages /\ m.by = "user"
    BY <1>17, <1>d, <2>1, MessageTyped DEF AppendContext
  <2>3. /\ Departs(When(c, "context"))
        /\ mem' = Append(mem, m) /\ log' = Append(log, Row("user", <<m>>, FALSE))
        /\ UNCHANGED <<phase, after, leaked>>
    BY <1>17, <2>1 DEF AppendContext, turn
  <2>4. When(c, "context") \subseteq Plain
    BY <1>b, <2>3
  <2>5. phase = "idle"
    BY <1>w, <2>1, <2>4 DEF Plain
  <2>6. Whole /\ Ahead # "tools" /\ Ahead' # "tools" /\ phase' \notin Summing
    BY <1>t, <2>3, <2>5 DEF Ahead, Summing
  <2>7. leaked' = FALSE
    BY <1>k, <2>3, <2>6
  <2> QED BY <2>2, <2>3, <2>6, <2>7, WholeAppends
<1>18. CASE Restart
  <2>1. PICK l, c : l = log /\ c = (phase # "idle" \/ OpenRows # {})
    OBVIOUS
  <2>2. l \in LogRows
    BY <2>1 DEF Shape, Places
  <2>3. /\ Departs(When(c, "crash"))
        /\ log' = SettledOf(l, "failed") /\ mem' = Reload(l) /\ phase' = "idle" /\ leaked' = FALSE
    BY <1>18, <2>1 DEF Restart, SettledOf, Go
  <2>4. When(c, "crash") \subseteq Plain
    BY <1>b, <2>3
  <2>5. phase = "idle" /\ OpenRows = {}
    BY <1>w, <2>1, <2>4 DEF Plain
  <2>6. \A i \in 1..Len(l) : l[i].state # "open"
    BY <2>1, <2>2, <2>5, LogRowsFacts DEF OpenRows
  <2>7. AfterOf(log') = Reload(l) /\ AfterOf(log) = Reload(l)
    BY <2>1, <2>2, <2>3, <2>6, RestartTyped, ReloadSettled
  <2>8. PICK h : h = Reload(l)
    OBVIOUS
  <2>9. h \in Seq(Messages) /\ PairsWhole(h)
    <3>1. Whole /\ Ahead # "tools"
      BY <1>t, <2>3, <2>5 DEF Ahead
    <3> QED BY <1>a, <1>v, <2>7, <2>8, <3>1
  <2>10. Ahead' # "tools" /\ phase' \notin Summing
    BY <2>3 DEF Ahead, Summing
  <2> QED BY <1>q, <2>3, <2>7, <2>8, <2>9, <2>10
<1>19. CASE UNCHANGED vars
  BY <1>19, <1>t DEF vars, turn, Whole, Uncut, Ahead
<1> QED BY <1>1, <1>2, <1>3, <1>4, <1>5, <1>6, <1>7, <1>8, <1>9, <1>10, <1>11, <1>12, <1>13,
           <1>14, <1>15, <1>16, <1>17, <1>18, <1>19 DEF Next

\* The provider gets each answer's calls with all their results right behind
\* them, and no other results, whatever retries, cancels, compaction and
\* reloads make of the history.
THEOREM PairsAreWhole == Spec => []Paired
<1>1. Init => Pairing
  <2> SUFFICES ASSUME Init PROVE Whole
    BY DEF Pairing
  <2>1. AfterOf(log) = <<>>
    <3>1. <<>> \in Seq(Rows) /\ Len(<<>>) = 0 /\ 1..0 = {} /\ <<>> \in LogRows
      BY EmptySeq DEF LogRows
    <3>2. Reload(<<>>) = <<>>
      BY <3>1, ReloadFacts
    <3>3. AfterOf(<<>>) = Reload(<<>>)
      BY <3>1, ReloadSettled
    <3> QED BY <3>2, <3>3 DEF Init
  <2>2. mem = <<>> /\ phase = "idle" /\ leaked = FALSE
    BY DEF Init
  <2> QED BY <2>1, <2>2, WholeEmpty DEF Whole, WholeAt, Uncut, Summing, Ahead
<1>2. Pairing => Paired
  <2> SUFFICES ASSUME Whole, phase = "streaming" PROVE PairsWhole(mem)
    BY DEF Pairing, Paired, Plain
  <2> QED BY DEF Whole, WholeAt, Ahead
<1> QED BY <1>1, <1>2, ShapeInit, ShapeStep, PairingStep, PTL DEF Spec
=============================================================================
