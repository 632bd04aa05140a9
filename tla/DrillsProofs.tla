----------------------------- MODULE DrillsProofs -----------------------------
(***************************************************************************)
(* The properties of the training games, for all targets and finishes, all *)
(* beds and all bounds.                                                    *)
(*                                                                         *)
(* A game is Sound: typed, ended as its targets or its score say, and an   *)
(* ended game holds no darts.  The result of an ended game is the newest   *)
(* one recorded (IInv).  Every operation of a game has a lemma saying what *)
(* it keeps of this (ResetKeeps, FollowKeeps, FinishKeeps);                *)
(* IndexesAre and ProgressIs say how the darts of a visit run through the  *)
(* targets, dart by dart.                                                  *)
(***************************************************************************)
EXTENDS Drills, RulesProofs

-----------------------------------------------------------------------------
(* What the state is made of.                                              *)

DrillFields == {"kind", "finished", "visit", "skip", "announced", "index", "darts", "hits",
                "score", "target", "start", "visits", "attemptDarts", "attempts", "successes"}

Typed(d) ==
    /\ DOMAIN d = DrillFields
    /\ d.kind \in Drills /\ d.finished \in BOOLEAN /\ d.announced \in BOOLEAN
    /\ d.visit \in Seq(Dart) /\ d.skip \in Nat
    /\ d.index \in 0..Len(Targets) /\ d.darts \in Nat /\ d.hits \in 0..d.darts
    /\ d.score \in Int
    /\ IsTarget(d) => d.hits = d.index
    /\ d.target \in CheckoutScores /\ d.start \in 2..d.target
    /\ d.visits \in 0..(CheckoutVisits - 1)
    /\ d.attemptDarts \in Nat /\ d.attempts \in Nat /\ d.successes \in 0..d.attempts

EndsWell(d) ==
    /\ IsTarget(d) => (d.finished <=> d.index = Len(Targets))
    /\ d.kind = "bobs_27" =>
         /\ d.index < Len(Targets)
         /\ d.score < 0 => d.finished
         /\ d.finished => d.score < 0 \/ d.index = Len(Targets) - 1
    /\ d.kind = "checkout" => ~d.finished

\* A game that is over holds no darts and skips none: the next dart begins the
\* game again.
Rests(d) == d.finished => d.skip = 0 /\ d.visit = <<>>

Sound(d) == Typed(d) /\ EndsWell(d) /\ Rests(d)

\* Only skipped darts of a visit were thrown before the game was chosen.
EarlyOk(d, visit) == \A i \in DOMAIN visit : visit[i].early => i <= d.skip

IInv ==
    /\ Sound(drill) /\ board \in Seq(Dart)
    /\ chosen \in BOOLEAN /\ stale \in BOOLEAN
    /\ ends \in 0..2 /\ (drill.finished => ends > 0)
    /\ drill.finished => recorded = Outcome(drill)
    /\ chosen => EarlyOk(drill, board)
    /\ chosen /\ ~stale => EarlyOk(drill, drill.visit)

-----------------------------------------------------------------------------
(* The darts of a visit run through the targets.                           *)

\* There is a target, and targets are numbers other than 0.
LEMMA TargetsAre ==
    /\ Len(Targets) \in Nat \ {0}
    /\ \A i \in 1..Len(Targets) : Targets[i] \in Nat \ {0}
<1>1. Targets \in Seq(Nat \ {0}) /\ Targets # <<>>
  BY DrillsAssumption
<1> QED BY <1>1, EmptySeq, ElementOfSeq

\* The darts that count hit beds.
LEMMA ThrownIs ==
    ASSUME NEW d, Typed(d)
    PROVE  /\ BedsOk(Beds(d)) /\ Len(Beds(d)) = Len(Thrown(d)) /\ Len(Thrown(d)) \in Nat
           /\ DOMAIN Thrown(d) = 1..Len(Thrown(d)) /\ DOMAIN Beds(d) = 1..Len(Thrown(d))
           /\ Len(Thrown(d)) = (IF d.skip < Len(d.visit) THEN Len(d.visit) - d.skip ELSE 0)
           /\ Thrown(d) = <<>> <=> Len(Thrown(d)) = 0
           /\ \A i \in 1..Len(Thrown(d)) :
                d.skip + i \in DOMAIN d.visit /\ Thrown(d)[i] = d.visit[d.skip + i]
<1>1. /\ d.visit \in Seq(Dart) /\ Len(d.visit) \in Nat /\ d.skip \in Nat
      /\ DOMAIN d.visit = 1..Len(d.visit) /\ \A i \in 1..Len(d.visit) : d.visit[i] \in Dart
  BY LenProperties, ElementOfSeq DEF Typed
<1> DEFINE n == Len(d.visit)
           k == IF d.skip < n THEN n - d.skip ELSE 0
           S == [number : Nat, multiplier : 0..3]
<1>2. /\ Thrown(d) \in Seq(Dart) /\ Len(Thrown(d)) = k
      /\ \A i \in 1..k : Thrown(d)[i] = d.visit[d.skip + i]
  <2>1. /\ d.skip + 1 \in Int /\ n \in Int /\ \A i \in (d.skip + 1)..n : d.visit[i] \in Dart
    BY <1>1
  <2>2. /\ SubSeq(d.visit, d.skip + 1, n) \in Seq(Dart)
        /\ Len(SubSeq(d.visit, d.skip + 1, n)) =
             IF d.skip + 1 <= n THEN n - (d.skip + 1) + 1 ELSE 0
        /\ \A i \in 1..(n - (d.skip + 1) + 1) :
             SubSeq(d.visit, d.skip + 1, n)[i] = d.visit[(d.skip + 1) + i - 1]
    BY SMTT(30), <2>1, SubSeqProperties
  <2>3. /\ (IF d.skip + 1 <= n THEN n - (d.skip + 1) + 1 ELSE 0) = k
        /\ \A i \in 1..k : i \in 1..(n - (d.skip + 1) + 1) /\ (d.skip + 1) + i - 1 = d.skip + i
    <3>1. n \in Nat /\ d.skip \in Nat
      BY <1>1
    <3> HIDE DEF n
    <3> QED BY <3>1
  <2>4. Thrown(d) = SubSeq(d.visit, d.skip + 1, n)
    BY DEF Thrown
  <2> HIDE DEF k, n
  <2> QED BY <2>2, <2>3, <2>4
<1>3. k \in Nat /\ \A i \in 1..k : d.skip + i \in 1..n
  BY <1>1
<1> HIDE DEF k, n
<1>4. DOMAIN Thrown(d) = 1..k /\ \A i \in 1..k : Thrown(d)[i] \in Dart
  BY <1>2, LenProperties, ElementOfSeq
<1>5. Beds(d) = [i \in 1..k |-> Thrown(d)[i].bed]
  BY <1>4 DEF Beds
<1>6. \A dart \in Dart : dart.bed \in [number : Nat, multiplier : 0..3]
  BY DrillsAssumption DEF Dart
<1>7. Beds(d) \in Seq(S)
  <2>1. Beds(d) \in [1..k -> S]
    BY <1>4, <1>5, <1>6
  <2> HIDE DEF S
  <2> QED BY <1>3, <2>1, SeqDef
<1>8. Len(Beds(d)) = k /\ DOMAIN Beds(d) = 1..k
  <2>1. DOMAIN Beds(d) = 1..k
    BY <1>5
  <2> QED BY <1>3, <1>7, <2>1, LenProperties
<1>9. Thrown(d) = <<>> <=> k = 0
  BY <1>2, EmptySeq
<1> QED BY <1>1, <1>2, <1>3, <1>4, <1>7, <1>8, <1>9 DEF BedsOk, k, n

\* What dart i of the visit does with the target index.
Advances(d, after, i) ==
    after[i] = IF after[i - 1] < Len(Targets) /\ Hit(d, Beds(d)[i], Targets[after[i - 1] + 1])
               THEN after[i - 1] + 1 ELSE after[i - 1]

\* The target indexes after each of the darts of a visit.
Runs(d, after) ==
    /\ after \in [0..Len(Beds(d)) -> 0..Len(Targets)]
    /\ after[0] = d.index
    /\ \A i \in 1..Len(Beds(d)) : Advances(d, after, i)

\* The indexes have a value.
LEMMA IndexesAre ==
    ASSUME NEW d, Typed(d)
    PROVE  Runs(d, Indexes(d))
<1> DEFINE beds == Beds(d)
           n == Len(beds)
           S == 0..Len(Targets)
           E(f) == f = [i \in 0..n |->
                          IF i = 0 THEN d.index
                          ELSE IF f[i - 1] < Len(Targets) /\ Hit(d, beds[i], Targets[f[i - 1] + 1])
                          THEN f[i - 1] + 1 ELSE f[i - 1]]
           G == [p \in (1..n) \X S |->
                   IF p[2] < Len(Targets) /\ Hit(d, beds[p[1]], Targets[p[2] + 1])
                   THEN p[2] + 1 ELSE p[2]]
<1>1. n \in Nat /\ Len(Targets) \in Nat /\ d.index \in S
  BY ThrownIs, TargetsAre DEF Typed
<1>2. G \in Steps(n, S)
  <2>1. \A p \in (1..n) \X S : (IF p[2] < Len(Targets) /\ Hit(d, beds[p[1]], Targets[p[2] + 1])
                                THEN p[2] + 1 ELSE p[2]) \in S
    BY <1>1
  <2> QED BY <2>1 DEF Steps
<1>3. PICK f : Leads(f, n, S, d.index, G)
  <2> HIDE DEF n, S, G
  <2> QED BY <1>1, <1>2, Recursion
<1>4. /\ f \in [0..n -> S] /\ f[0] = d.index
      /\ \A i \in 1..n : f[i] = IF f[i - 1] < Len(Targets) /\ Hit(d, beds[i], Targets[f[i - 1] + 1])
                                THEN f[i - 1] + 1 ELSE f[i - 1]
  <2>1. f \in [0..n -> S] /\ f[0] = d.index /\ \A i \in 1..n : f[i] = G[<<i, f[i - 1]>>]
    <3> HIDE DEF n, S, G
    <3> QED BY <1>3 DEF Leads
  <2>2. \A i \in 1..n : i - 1 \in 0..n
    BY <1>1
  <2>3. \A i \in 1..n : f[i - 1] \in S
    <3> HIDE DEF n, S
    <3> QED BY <2>1, <2>2
  <2>4. \A i \in 1..n : \A s \in S :
           G[<<i, s>>] = IF s < Len(Targets) /\ Hit(d, beds[i], Targets[s + 1])
                         THEN s + 1 ELSE s
    OBVIOUS
  <2> HIDE DEF n, S, G
  <2> QED BY <2>1, <2>3, <2>4
<1>5. E(f)
  <2>1. \A i \in 0..n : i # 0 => i \in 1..n
    BY <1>1
  <2>2. \A i \in 0..n : f[i] = IF i = 0 THEN d.index
                          ELSE IF f[i - 1] < Len(Targets) /\ Hit(d, beds[i], Targets[f[i - 1] + 1])
                          THEN f[i - 1] + 1 ELSE f[i - 1]
    <3> HIDE DEF n, S
    <3> QED BY <1>4, <2>1
  <2>3. f = [i \in 0..n |-> f[i]]
    BY <1>4
  <2> HIDE DEF n, S
  <2> QED BY <2>2, <2>3
<1> DEFINE c == CHOOSE h : E(h)
<1>6. E(c)
  <2> HIDE DEF E
  <2> QED BY <1>5
<1>7. Indexes(d) = c
  BY DEF Indexes
<1> HIDE DEF c
<1>8. /\ 0 \in 0..n /\ c[0] = d.index
      /\ \A i \in 1..n : c[i] = IF c[i - 1] < Len(Targets) /\ Hit(d, beds[i], Targets[c[i - 1] + 1])
                                THEN c[i - 1] + 1 ELSE c[i - 1]
  <2>1. 0 \in 0..n /\ \A i \in 1..n : i \in 0..n /\ i # 0
    BY <1>1
  <2> HIDE DEF n
  <2> QED BY <1>6, <2>1
<1>9. \A i \in 0..n : c[i] \in S
  <2> DEFINE T == {i \in 0..n : c[i] \in S}
  <2>1. 0 \in T
    BY <1>1, <1>8
  <2>2. ASSUME NEW i \in 1..n, i - 1 \in T
        PROVE  i \in T
    <3>1. c[i - 1] \in S /\ i \in 0..n
      BY <1>1, <2>2
    <3>2. c[i] = c[i - 1] \/ (c[i - 1] < Len(Targets) /\ c[i] = c[i - 1] + 1)
      BY <1>8
    <3>3. c[i] \in S
      BY <1>1, <3>1, <3>2
    <3> QED BY <3>1, <3>3
  <2>3. \A i \in 0..n : i \in T
    <3> HIDE DEF T, n
    <3> QED BY <1>1, <2>1, <2>2, UpTo
  <2> QED BY <2>3
<1>10. c \in [0..n -> S]
  <2>1. c = [i \in 0..n |-> c[i]]
    <3>1. DOMAIN c = 0..n
      BY <1>6
    <3>2. c = [i \in DOMAIN c |-> c[i]]
      BY <1>6
    <3> QED BY <3>1, <3>2
  <2> HIDE DEF n, S
  <2> QED BY <1>9, <2>1
<1> QED BY <1>7, <1>8, <1>10 DEF Runs, Advances

\* The index goes up from where it is, by at most one a dart.
LEMMA IndexesGrow ==
    ASSUME NEW d, Typed(d)
    PROVE  /\ \A i \in 0..Len(Beds(d)) :
                Indexes(d)[i] \in d.index..Len(Targets) /\ Indexes(d)[i] <= d.index + i
           /\ \A i \in 1..Len(Beds(d)) :
                \/ Indexes(d)[i] = Indexes(d)[i - 1]
                \/ Indexes(d)[i] = Indexes(d)[i - 1] + 1 /\ Indexes(d)[i - 1] < Len(Targets)
<1> DEFINE n == Len(Beds(d))
           f == Indexes(d)
           T == {i \in 0..n : f[i] \in d.index..Len(Targets) /\ f[i] <= d.index + i}
<1>1. n \in Nat /\ Len(Targets) \in Nat /\ d.index \in 0..Len(Targets)
  BY ThrownIs, TargetsAre DEF Typed
<1>2. /\ f \in [0..n -> 0..Len(Targets)] /\ f[0] = d.index
      /\ \A i \in 1..n : Advances(d, f, i)
  BY IndexesAre DEF Runs
<1>3. \A i \in 1..n : f[i] = f[i - 1] \/ (f[i] = f[i - 1] + 1 /\ f[i - 1] < Len(Targets))
  <2> HIDE DEF n, f
  <2> QED BY <1>2 DEF Advances
<1> HIDE DEF n, f
<1>4. 0 \in T
  BY <1>1, <1>2
<1>5. ASSUME NEW i \in 1..n, i - 1 \in T
      PROVE  i \in T
  <2>1. i \in 0..n /\ f[i - 1] \in d.index..Len(Targets) /\ f[i - 1] <= d.index + (i - 1)
    BY <1>1, <1>5
  <2>2. f[i] = f[i - 1] \/ (f[i] = f[i - 1] + 1 /\ f[i - 1] < Len(Targets))
    BY <1>3
  <2>3. f[i] \in d.index..Len(Targets) /\ f[i] <= d.index + i
    BY <1>1, <2>1, <2>2
  <2> QED BY <2>1, <2>3
<1>6. \A i \in 0..n : i \in T
  <2> HIDE DEF T
  <2> QED BY <1>1, <1>4, <1>5, UpTo
<1> QED BY <1>3, <1>6 DEF n, f

\* The last target is reached with the dart where the darts stop to count.
LEMMA ProgressIs ==
    ASSUME NEW d, Typed(d)
    PROVE  /\ Progress(d).index = Indexes(d)[Len(Beds(d))]
           /\ Progress(d).index \in d.index..Len(Targets)
           /\ Progress(d).darts \in 0..Len(Beds(d))
           /\ Progress(d).index - d.index <= Progress(d).darts
           /\ Thrown(d) = <<>> => Progress(d).index = d.index /\ Progress(d).darts = 0
           /\ d.index < Len(Targets) =>
                \A i \in 1..Len(Beds(d)) :
                   Indexes(d)[i - 1] < Len(Targets) <=> i <= Progress(d).darts
<1> DEFINE n == Len(Beds(d))
           f == Indexes(d)
           t == Len(Targets)
           over == {i \in 1..n : f[i] = t /\ f[i - 1] # f[i]}
           k == IF over = {} THEN n ELSE First(over)
<1>1. /\ n \in Nat /\ t \in Nat /\ d.index \in 0..t /\ Len(Thrown(d)) = n
      /\ (Thrown(d) = <<>> <=> n = 0)
  BY ThrownIs, TargetsAre DEF Typed
<1>2. /\ \A i \in 0..n : f[i] \in d.index..t /\ f[i] <= d.index + i
      /\ \A i \in 1..n : f[i] = f[i - 1] \/ (f[i] = f[i - 1] + 1 /\ f[i - 1] < t)
  BY IndexesGrow
<1>3. f[0] = d.index
  BY IndexesAre DEF Runs
<1>4. Progress(d) = [index |-> f[n], darts |-> k]
  BY <1>1 DEF Progress
<1> HIDE DEF n, f, t
<1>5. /\ k \in 0..n /\ (over = {} => k = n) /\ (over # {} => f[k] = t)
      /\ \A i \in 1..n : f[i] = t /\ f[i - 1] # f[i] => k <= i
  <2>1. over \subseteq Nat /\ over \subseteq 1..n
    BY <1>1
  <2>2. \A i \in 1..n : f[i] = t /\ f[i - 1] # f[i] => i \in over
    OBVIOUS
  <2>3. \A i \in over : f[i] = t
    OBVIOUS
  <2>4. CASE over = {}
    <3>1. k = n
      BY <2>4
    <3> HIDE DEF over, k
    <3> QED BY <1>1, <2>2, <2>4, <3>1
  <2>5. CASE over # {}
    <3>1. k \in over /\ \A i \in over : k <= i
      <4> HIDE DEF over
      <4> QED BY <2>1, <2>5, FirstIs
    <3>2. k \in 1..n
      BY <2>1, <3>1
    <3> HIDE DEF over, k
    <3> QED BY <1>1, <2>2, <2>3, <2>5, <3>1, <3>2
  <2> QED BY <2>4, <2>5
<1> HIDE DEF over, k
<1>6. ASSUME NEW i \in 1..n, d.index < t
      PROVE  f[i - 1] < t <=> i <= k
  <2> DEFINE Below == {j \in 0..n : j < k => f[j] < t}
             Above == {j \in 0..n : j >= k /\ over # {} => f[j] = t}
  <2>1. 0 \in Below /\ 0 \in Above
    <3>1. 0 \in 0..n /\ (0 >= k => k = 0)
      BY <1>1, <1>5
    <3> QED BY <1>3, <1>5, <1>6, <3>1
  <2>2. ASSUME NEW j \in 1..n, j - 1 \in Below
        PROVE  j \in Below
    <3>1. j \in 0..n /\ j - 1 \in 0..n /\ (j - 1 < k => f[j - 1] < t)
      BY <1>1, <2>2
    <3>2. ASSUME j < k, ~(f[j] < t)
          PROVE  FALSE
      <4>1. f[j - 1] < t /\ f[j] \in d.index..t
        BY <1>1, <1>2, <1>5, <3>1, <3>2
      <4>2. f[j] = t /\ f[j - 1] # f[j]
        BY <1>1, <3>2, <4>1
      <4> QED BY <1>1, <1>5, <3>2, <4>2
    <3> QED BY <3>1, <3>2
  <2>3. ASSUME NEW j \in 1..n, j - 1 \in Above
        PROVE  j \in Above
    <3>1. j \in 0..n /\ j - 1 \in 0..n /\ (j - 1 >= k /\ over # {} => f[j - 1] = t)
      BY <1>1, <2>3
    <3>2. ASSUME j >= k, over # {}
          PROVE  f[j] = t
      <4>1. CASE j = k
        BY <1>5, <3>2, <4>1
      <4>2. CASE j # k
        <5>1. f[j - 1] = t
          BY <1>1, <1>5, <3>1, <3>2, <4>2
        <5> QED BY <1>1, <1>2, <5>1
      <4> QED BY <4>1, <4>2
    <3> QED BY <3>1, <3>2
  <2>4. \A j \in 0..n : j \in Below
    <3> HIDE DEF Below
    <3> QED BY <1>1, <2>1, <2>2, UpTo
  <2>5. \A j \in 0..n : j \in Above
    <3> HIDE DEF Above
    <3> QED BY <1>1, <2>1, <2>3, UpTo
  <2>6. i - 1 \in 0..n
    BY <1>1
  <2>7. i <= k => f[i - 1] < t
    <3>1. i - 1 < k => f[i - 1] < t
      BY <2>4, <2>6
    <3> QED BY <1>1, <1>5, <3>1
  <2>8. ~(i <= k) => f[i - 1] = t
    <3>1. i - 1 >= k /\ over # {} => f[i - 1] = t
      BY <2>5, <2>6
    <3> QED BY <1>1, <1>5, <3>1
  <2> QED BY <1>1, <2>7, <2>8
<1>7. f[n] \in d.index..t
  BY <1>1, <1>2
<1>8. f[n] - d.index <= k
  <2>1. CASE over = {}
    BY <1>1, <1>2, <1>5, <2>1
  <2>2. CASE over # {}
    <3>1. f[k] = t /\ f[k] <= d.index + k /\ k \in 0..n
      BY <1>2, <1>5, <2>2
    <3> QED BY <1>1, <1>7, <3>1
  <2> QED BY <2>1, <2>2
<1>9. n = 0 => f[n] = d.index /\ k = 0
  BY <1>3, <1>5
<1> QED BY <1>1, <1>4, <1>5, <1>6, <1>7, <1>8, <1>9 DEF n, f, t

-----------------------------------------------------------------------------
(* What the operations of a game keep.                                     *)

\* Another visit of the same game.
SameGame(n, d) ==
    /\ DOMAIN n = DrillFields
    /\ n.kind = d.kind /\ n.finished = d.finished /\ n.index = d.index /\ n.darts = d.darts
    /\ n.hits = d.hits /\ n.score = d.score /\ n.target = d.target /\ n.start = d.start
    /\ n.visits = d.visits /\ n.attemptDarts = d.attemptDarts
    /\ n.attempts = d.attempts /\ n.successes = d.successes

\* What is on the board concerns neither the types of a drill nor its end.
LEMMA VisitChanges ==
    ASSUME NEW d, Typed(d), EndsWell(d), NEW n, SameGame(n, d), n.visit \in Seq(Dart),
           n.skip \in Nat, n.announced \in BOOLEAN
    PROVE  Typed(n) /\ EndsWell(n)
<1>1. IsTarget(n) = IsTarget(d)
  BY DEF SameGame, IsTarget
<1>2. Typed(n)
  BY <1>1 DEF Typed, SameGame
<1>3. EndsWell(n)
  BY <1>1 DEF EndsWell, SameGame
<1> QED BY <1>2, <1>3

\* The same counts make the same result, and it is one.
LEMMA OutcomesAre ==
    ASSUME NEW d, NEW n, n.kind = d.kind, n.darts = d.darts, n.hits = d.hits, n.score = d.score
    PROVE  Outcome(n) = Outcome(d) /\ Outcome(d) # NoResult
<1>1. Outcome(n) = Outcome(d)
  BY DEF Outcome, Summary
<1>2. "hits" \in DOMAIN Outcome(d)
  BY DEF Outcome, Summary
<1>3. "hits" \notin DOMAIN NoResult
  BY DEF NoResult
<1> QED BY <1>1, <1>2, <1>3

\* What the finishes are, and that the kinds differ.
LEMMA FinishesAre ==
    /\ CheckoutScores \subseteq Nat \ {0, 1} /\ BobsStart \in Nat
    /\ CheckoutVisits \in Nat \ {0} /\ Drills \subseteq DrillKinds
  BY DrillsAssumption

\* A new game is sound; it skips the darts on the board.
LEMMA ResetKeeps ==
    ASSUME NEW d, Typed(d), NEW onBoard \in Nat, NEW pick \in CheckoutScores
    PROVE  LET n == Reset(d, onBoard, pick)
           IN  /\ Sound(n) /\ ~n.finished /\ n.skip = onBoard
               /\ n.visit = d.visit /\ n.kind = d.kind /\ ~n.announced
<1> DEFINE n == Reset(d, onBoard, pick)
<1>1. /\ DOMAIN n = DrillFields /\ n.kind = d.kind /\ n.visit = d.visit
      /\ n.finished = FALSE /\ n.skip = onBoard /\ n.announced = FALSE
      /\ n.index = 0 /\ n.darts = 0 /\ n.hits = 0 /\ n.score = BobsStart
      /\ n.target = pick /\ n.start = pick /\ n.visits = 0 /\ n.attemptDarts = 0
      /\ n.attempts = 0 /\ n.successes = 0
  BY DEF Reset, Typed, DrillFields
<1> HIDE DEF n
<1>2. /\ pick \in 2..pick /\ 0 \in 0..(CheckoutVisits - 1) /\ BobsStart \in Nat
  BY FinishesAre
<1>3. Len(Targets) \in Nat /\ Len(Targets) > 0
  BY TargetsAre
<1>4. Typed(n)
  <2>1. d.visit \in Seq(Dart) /\ d.kind \in Drills
    BY DEF Typed
  <2>2. n.index \in 0..Len(Targets) /\ n.hits \in 0..n.darts /\ n.successes \in 0..n.attempts
    BY <1>1, <1>3
  <2>3. n.start \in 2..n.target /\ n.visits \in 0..(CheckoutVisits - 1)
    BY <1>1, <1>2
  <2>4. n.finished \in BOOLEAN /\ n.announced \in BOOLEAN
    BY <1>1
  <2>5. IsTarget(n) => n.hits = n.index
    BY <1>1
  <2>6. /\ n.kind \in Drills /\ n.visit \in Seq(Dart) /\ n.skip \in Nat /\ n.darts \in Nat
        /\ n.score \in Int /\ n.target \in CheckoutScores /\ n.attemptDarts \in Nat
        /\ n.attempts \in Nat
    BY <1>1, <1>2, <2>1
  <2> QED BY <1>1, <2>2, <2>3, <2>4, <2>5, <2>6 DEF Typed
<1>5. EndsWell(n) /\ Rests(n)
  BY <1>1, <1>2, <1>3 DEF EndsWell, Rests
<1> QED BY <1>1, <1>4, <1>5 DEF Sound, n

\* The game after the darts were seen, up to the announcement: the same game,
\* or a new one when a dart is thrown after the end.
Followed(d, n, visit) ==
    /\ Sound(n) /\ n.visit = visit /\ EarlyOk(n, visit) /\ n.kind = d.kind
    /\ n.finished => /\ d.finished /\ n.index = d.index /\ n.announced = d.announced
                     /\ Thrown(n) = <<>> /\ SameGame(n, d)

\* Following the board keeps a drill sound, and starts a finished one again.
LEMMA FollowKeeps ==
    ASSUME NEW d, Sound(d), NEW visit \in Seq(Dart), EarlyOk(d, visit)
    PROVE  Followed(d, Follow(d, visit), visit)
<1> DEFINE seen == [d EXCEPT !.visit = visit, !.skip = Least(d.skip, Len(visit))]
           new == Reset(seen, 0, d.target)
           starts == seen.finished /\ Thrown(seen) # <<>>
<1>1. Typed(d) /\ EndsWell(d) /\ Rests(d) /\ d.skip \in Nat /\ Len(visit) \in Nat
      /\ DOMAIN visit = 1..Len(visit) /\ d.announced \in BOOLEAN /\ d.target \in CheckoutScores
  BY LenProperties DEF Sound, Typed
<1>2. /\ SameGame(seen, d) /\ seen.visit = visit /\ seen.announced = d.announced
      /\ seen.skip = Least(d.skip, Len(visit))
  BY <1>1 DEF SameGame, Typed, DrillFields
<1>3. Follow(d, visit) = IF starts THEN new ELSE seen
  BY DEF Follow
<1> HIDE DEF seen
<1>4. seen.skip \in Nat /\ (d.skip = 0 => seen.skip = 0)
  BY <1>1, <1>2 DEF Least
<1>5. Typed(seen) /\ EndsWell(seen)
  BY <1>1, <1>2, <1>4, VisitChanges
<1>6. CASE ~starts
  <2>1. EarlyOk(seen, visit)
    BY <1>1, <1>2 DEF EarlyOk, Least
  <2>2. Follow(d, visit) = seen
    BY <1>3, <1>6
  <2>3. seen.finished = d.finished /\ seen.index = d.index /\ seen.kind = d.kind
    BY <1>2 DEF SameGame
  <2>4. seen.finished => Thrown(seen) = <<>>
    BY <1>6
  <2>5. Rests(seen)
    <3> SUFFICES ASSUME seen.finished
                 PROVE  seen.skip = 0 /\ seen.visit = <<>>
      BY DEF Rests
    <3>1. seen.skip = 0 /\ seen.visit \in Seq(Dart)
      BY <1>1, <1>2, <1>4, <2>3 DEF Rests
    <3>2. Len(seen.visit) \in Nat /\ (Len(seen.visit) = 0 => seen.visit = <<>>)
      BY <3>1, LenProperties, EmptySeq
    <3>3. 0 = IF 0 < Len(seen.visit) THEN Len(seen.visit) - 0 ELSE 0
      BY <1>5, <2>4, <3>1, ThrownIs
    <3> QED BY <3>1, <3>2, <3>3
  <2> QED BY <1>2, <1>5, <2>1, <2>2, <2>3, <2>4, <2>5 DEF Followed, Sound
<1>7. CASE starts
  <2>1. d.finished /\ d.skip = 0 /\ seen.kind = d.kind
    BY <1>1, <1>2, <1>7 DEF SameGame, Rests
  <2>2. Sound(new) /\ ~new.finished /\ new.skip = 0 /\ new.visit = seen.visit /\ new.kind = seen.kind
    BY <1>1, <1>5, ResetKeeps
  <2>3. Follow(d, visit) = new
    BY <1>3, <1>7
  <2> HIDE DEF new
  <2>4. EarlyOk(new, visit)
    BY <2>1, <2>2 DEF EarlyOk
  <2> QED BY <1>2, <2>1, <2>2, <2>3, <2>4 DEF Followed
<1> QED BY <1>6, <1>7

\* The game after the darts were seen and announced.
LEMMA TrackKeeps ==
    ASSUME NEW d, Sound(d), NEW visit \in Seq(Dart), EarlyOk(d, visit)
    PROVE  LET n == Track(d, visit)
           IN  /\ Sound(n) /\ n.visit = visit /\ EarlyOk(n, visit)
               /\ SameGame(n, Follow(d, visit)) /\ n.skip = Follow(d, visit).skip
<1> DEFINE seen == Follow(d, visit)
           told == seen.announced \/ Announced(seen) # NoResult
           n == [seen EXCEPT !.announced = told]
<1>1. Sound(seen) /\ seen.visit = visit /\ EarlyOk(seen, visit)
  BY FollowKeeps DEF Followed
<1>2. Track(d, visit) = n
  BY DEF Track
<1> HIDE DEF seen
<1>3. told \in BOOLEAN
  BY <1>1 DEF Sound, Typed
<1> HIDE DEF told
<1>4. SameGame(n, seen) /\ n.visit = visit /\ n.skip = seen.skip /\ n.announced = told
  BY <1>1 DEF SameGame, Sound, Typed, DrillFields
<1> HIDE DEF n
<1>5. Typed(n) /\ EndsWell(n)
  <2>1. n.visit \in Seq(Dart) /\ n.skip \in Nat /\ n.announced \in BOOLEAN
    BY <1>1, <1>3, <1>4 DEF Sound, Typed
  <2> QED BY <1>1, <1>4, <2>1, VisitChanges DEF Sound
<1>6. Rests(n) /\ EarlyOk(n, visit)
  BY <1>1, <1>4 DEF Rests, EarlyOk, Sound, SameGame
<1> QED BY <1>2, <1>4, <1>5, <1>6 DEF Sound, seen

\* A game that is over after a step was told to be, now or before.
LEMMA TellIs ==
    ASSUME NEW d, Sound(d), NEW visit \in Seq(Dart), EarlyOk(d, visit), NEW told \in BOOLEAN,
           ends \in 0..2, Tell(d, visit, told)
    PROVE  /\ ends' \in 0..2
           /\ /\ Follow(d, visit).finished
              /\ told \/ ends > 0 \/ (IsTarget(d) /\ ~d.announced)
              => ends' > 0
<1> DEFINE seen == Follow(d, visit)
           again == d.finished /\ ~seen.finished
           news == Announced(seen) # NoResult
           base == IF again THEN 0 ELSE ends + (IF told THEN 1 ELSE 0)
           extra == IF news THEN 1 ELSE 0
<1>1. Followed(d, seen, visit)
  BY FollowKeeps
<1>2. ends' = Least(2, base + extra)
  BY DEF Tell
<1> HIDE DEF seen
<1>3. seen.finished => d.finished
  BY <1>1 DEF Followed
<1>4. ASSUME seen.finished, IsTarget(d), ~d.announced
      PROVE  news
  <2>1. /\ Typed(seen) /\ EndsWell(seen) /\ ~seen.announced /\ Thrown(seen) = <<>>
        /\ IsTarget(seen)
    BY <1>1, <1>4 DEF Followed, Sound, IsTarget
  <2>2. Progress(seen).index = Len(Targets)
    <3>1. Progress(seen).index = seen.index
      BY <2>1, ProgressIs
    <3> QED BY <1>4, <2>1, <3>1 DEF EndsWell
  <2>3. Len(Targets) \in Nat
    BY TargetsAre
  <2>4. \E x, y : Announced(seen) = Summary(seen, x, y)
    <3>1. ~(Progress(seen).index < Len(Targets))
      BY <2>2, <2>3
    <3>2. Announced(seen) = Summary(seen, seen.darts + Progress(seen).darts,
                                    seen.hits + Progress(seen).index - seen.index)
      BY <2>1, <3>1 DEF Announced
    <3> QED BY <3>2
  <2>5. \A x, y : Summary(seen, x, y) # NoResult
    <3>1. \A x, y : "hits" \in DOMAIN Summary(seen, x, y)
      BY DEF Summary
    <3>2. "hits" \notin DOMAIN NoResult
      BY DEF NoResult
    <3> QED BY <3>1, <3>2
  <2> QED BY <2>4, <2>5
<1> HIDE DEF news
<1>5. base \in Nat /\ extra \in 0..1
  OBVIOUS
<1>6. ends' \in 0..2
  BY <1>2, <1>5 DEF Least
<1>7. ASSUME seen.finished, told \/ ends > 0 \/ (IsTarget(d) /\ ~d.announced)
      PROVE  ends' > 0
  <2>1. base > 0 \/ extra > 0
    BY <1>3, <1>4, <1>7
  <2> HIDE DEF base, extra
  <2> QED BY <1>2, <1>5, <2>1 DEF Least
<1> QED BY <1>6, <1>7 DEF seen

-----------------------------------------------------------------------------
(* Booking a visit.                                                        *)

BookFields == {"drill", "result", "tells"}

\* What booking keeps whatever is played, and what it says of the end.
Booked(d, b) ==
    /\ DOMAIN b = BookFields
    /\ Typed(b.drill) /\ EndsWell(b.drill) /\ b.tells \in BOOLEAN
    /\ b.drill.kind = d.kind /\ b.drill.visit = d.visit
    /\ b.drill.finished => (IsTarget(d) \/ b.tells) /\ b.result = Outcome(b.drill)

\* The fields that the training of targets and Bob's 27 leave alone.
NoCheckout(n, d) ==
    /\ DOMAIN n = DrillFields /\ n.kind = d.kind /\ n.visit = d.visit /\ n.skip = d.skip
    /\ n.announced = d.announced /\ n.target = d.target /\ n.start = d.start
    /\ n.visits = d.visits /\ n.attemptDarts = d.attemptDarts
    /\ n.attempts = d.attempts /\ n.successes = d.successes

\* A game with other counts.
LEMMA CountsChange ==
    ASSUME NEW d, Typed(d), NEW n, NoCheckout(n, d), n.finished \in BOOLEAN,
           n.index \in 0..Len(Targets), n.darts \in Nat, n.hits \in 0..n.darts, n.score \in Int,
           IsTarget(d) => n.hits = n.index
    PROVE  Typed(n)
<1>1. IsTarget(n) = IsTarget(d)
  BY DEF NoCheckout, IsTarget
<1> QED BY <1>1 DEF Typed, NoCheckout

\* Around the Clock and the doubles.
LEMMA BookTargetIs ==
    ASSUME NEW d, Typed(d), ~d.finished, NEW pick
    PROVE  LET b == BookTarget(d, pick)
               now == Progress(d)
           IN  /\ DOMAIN b = BookFields /\ b.tells = FALSE
               /\ NoCheckout(b.drill, d) /\ b.drill.score = d.score
               /\ b.drill.hits = d.hits + now.index - d.index
               /\ b.drill.darts = d.darts + now.darts /\ b.drill.index = now.index
               /\ b.drill.finished = ~(now.index < Len(Targets))
               /\ b.drill.finished => b.result = Outcome(b.drill)
<1> DEFINE now == Progress(d)
           kept == [d EXCEPT !.hits = @ + now.index - d.index, !.darts = @ + now.darts,
                             !.index = now.index]
           over == [kept EXCEPT !.finished = TRUE]
           b == BookTarget(d, pick)
<1>1. b = IF now.index < Len(Targets) THEN Open(kept)
          ELSE [drill |-> over, result |-> Outcome(kept), tells |-> FALSE]
  BY DEF BookTarget
<1> HIDE DEF now
<1>2. /\ NoCheckout(kept, d) /\ kept.score = d.score /\ kept.finished = d.finished
      /\ kept.hits = d.hits + now.index - d.index /\ kept.darts = d.darts + now.darts
      /\ kept.index = now.index
  BY DEF Typed, NoCheckout, DrillFields
<1> HIDE DEF kept
<1>3. /\ NoCheckout(over, d) /\ over.score = d.score /\ over.finished = TRUE
      /\ over.hits = kept.hits /\ over.darts = kept.darts /\ over.index = kept.index
      /\ over.kind = kept.kind
  BY <1>2 DEF NoCheckout, DrillFields
<1> HIDE DEF over, b
<1>4. /\ DOMAIN b = BookFields /\ b.tells = FALSE
      /\ b.drill = IF now.index < Len(Targets) THEN kept ELSE over
  BY <1>1 DEF Open, BookFields
<1>5. d.finished = FALSE
  BY DEF Typed
<1>6. b.drill.finished = ~(now.index < Len(Targets))
  BY <1>2, <1>3, <1>4, <1>5
<1>7. /\ NoCheckout(b.drill, d) /\ b.drill.score = d.score
      /\ b.drill.hits = d.hits + now.index - d.index
      /\ b.drill.darts = d.darts + now.darts /\ b.drill.index = now.index
  BY <1>2, <1>3, <1>4
<1>8. b.drill.finished => b.result = Outcome(b.drill)
  <2> SUFFICES ASSUME ~(now.index < Len(Targets))
               PROVE  b.result = Outcome(b.drill)
    BY <1>6
  <2>1. b.result = Outcome(kept) /\ b.drill = over
    BY <1>1, <1>4
  <2> QED BY <1>2, <1>3, <2>1, OutcomesAre
<1> QED BY <1>4, <1>6, <1>7, <1>8 DEF b, now

\* A visit to the targets books a sound drill.
LEMMA BookTargetKeeps ==
    ASSUME NEW d, Sound(d), ~d.finished, IsTarget(d), NEW pick
    PROVE  Booked(d, BookTarget(d, pick))
<1> DEFINE now == Progress(d)
           b == BookTarget(d, pick)
           n == b.drill
<1>1. Typed(d) /\ EndsWell(d)
  BY DEF Sound
<1>2. /\ DOMAIN b = BookFields /\ b.tells = FALSE
      /\ NoCheckout(n, d) /\ n.score = d.score
      /\ n.hits = d.hits + now.index - d.index
      /\ n.darts = d.darts + now.darts /\ n.index = now.index
      /\ n.finished = ~(now.index < Len(Targets))
      /\ n.finished => b.result = Outcome(n)
  BY <1>1, BookTargetIs
<1>3. /\ now.index \in d.index..Len(Targets) /\ now.darts \in Nat
      /\ now.index - d.index <= now.darts
  <2>1. /\ now.index \in d.index..Len(Targets) /\ now.darts \in 0..Len(Beds(d))
        /\ now.index - d.index <= now.darts
    BY <1>1, ProgressIs
  <2> HIDE DEF now
  <2> QED BY <2>1
<1> HIDE DEF b, n, now
<1>4. /\ d.index \in 0..Len(Targets) /\ d.hits \in 0..d.darts /\ d.darts \in Nat /\ d.hits = d.index
      /\ d.score \in Int /\ Len(Targets) \in Nat
  BY <1>1, TargetsAre DEF Typed
<1>5. /\ n.index \in 0..Len(Targets) /\ n.hits = n.index /\ n.darts \in Nat
      /\ n.hits \in 0..n.darts
  BY <1>2, <1>3, <1>4
<1>6. n.finished \in BOOLEAN /\ (n.finished <=> n.index = Len(Targets))
  <2>1. ~(now.index < Len(Targets)) <=> now.index = Len(Targets)
    BY <1>3, <1>4
  <2> QED BY <1>2, <2>1
<1>7. Typed(n)
  BY <1>1, <1>2, <1>4, <1>5, <1>6, CountsChange
<1>8. /\ n.kind = d.kind /\ n.visit = d.visit /\ n.kind # "bobs_27" /\ n.kind # "checkout"
      /\ b.tells \in BOOLEAN
  BY <1>2 DEF NoCheckout, IsTarget, TargetDrills
<1>9. EndsWell(n)
  BY <1>6, <1>8 DEF EndsWell
<1> QED BY <1>2, <1>7, <1>8, <1>9 DEF Booked, b, n

\* Hits on the double of the round are darts of the visit.
LEMMA VisitHitsAre ==
    ASSUME NEW d, Typed(d)
    PROVE  VisitHits(d) \in 0..Len(Thrown(d))
<1> DEFINE hits == {i \in DOMAIN Beds(d) : Beds(d)[i].number = RoundNumber(d) /\ IsDouble(Beds(d)[i])}
<1>1. DOMAIN Beds(d) = 1..Len(Thrown(d)) /\ Len(Thrown(d)) \in Nat
  BY ThrownIs
<1> DEFINE n == Len(Thrown(d))
<1>2. IsFiniteSet(1..n) /\ Cardinality(1..n) = n
  <2> HIDE DEF n
  <2>1. 1 \in Int /\ n \in Int /\ (1 > n => n = 0) /\ n - 1 + 1 = n
    BY <1>1 DEF n
  <2>2. IsFiniteSet(1..n) /\ Cardinality(1..n) = IF 1 > n THEN 0 ELSE n - 1 + 1
    BY <2>1, FS_Interval
  <2> QED BY <2>1, <2>2
<1>3. hits \subseteq 1..n
  BY <1>1
<1>4. Cardinality(hits) \in Nat /\ Cardinality(hits) <= n
  <2> HIDE DEF hits, n
  <2> QED BY <1>2, <1>3, FS_Subset, FS_CardinalityType
<1>5. VisitHits(d) = Cardinality(hits)
  BY DEF VisitHits
<1> HIDE DEF hits
<1> QED BY <1>1, <1>4, <1>5

\* Bob's 27.
LEMMA BookBobsIs ==
    ASSUME NEW d, Typed(d), ~d.finished, NEW pick
    PROVE  LET b == BookBobs(d, pick)
               hits == VisitHits(d)
               n == b.drill
               goesOn == n.score >= 0 /\ d.index < Len(Targets) - 1
           IN  /\ DOMAIN b = BookFields /\ b.tells = ~goesOn
               /\ NoCheckout(n, d)
               /\ n.score = d.score + (IF hits > 0 THEN hits * Value(d) ELSE -Value(d))
               /\ n.hits = d.hits + hits /\ n.darts = d.darts + Len(Thrown(d))
               /\ n.index = (IF goesOn THEN d.index + 1 ELSE d.index)
               /\ n.finished = ~goesOn
               /\ n.finished => b.result = Outcome(n)
<1> DEFINE hits == VisitHits(d)
           won == IF hits > 0 THEN hits * Value(d) ELSE -Value(d)
           darts == Len(Thrown(d))
           kept == [d EXCEPT !.score = @ + won, !.hits = @ + hits, !.darts = @ + darts]
           next == [kept EXCEPT !.index = @ + 1]
           over == [kept EXCEPT !.finished = TRUE]
           goesOn == kept.score >= 0 /\ d.index < Len(Targets) - 1
           b == BookBobs(d, pick)
<1>1. b = IF goesOn THEN Open(next)
          ELSE [drill |-> over, result |-> Outcome(kept), tells |-> TRUE]
  BY DEF BookBobs
<1> HIDE DEF won, darts, hits
<1>2. /\ NoCheckout(kept, d) /\ kept.score = d.score + won /\ kept.finished = d.finished
      /\ kept.hits = d.hits + hits /\ kept.darts = d.darts + darts /\ kept.index = d.index
  BY DEF Typed, NoCheckout, DrillFields
<1> HIDE DEF kept
<1>3. /\ NoCheckout(over, d) /\ over.score = kept.score /\ over.finished = TRUE
      /\ over.hits = kept.hits /\ over.darts = kept.darts /\ over.index = kept.index
      /\ over.kind = kept.kind
  BY <1>2 DEF NoCheckout, DrillFields
<1>4. /\ NoCheckout(next, d) /\ next.score = kept.score /\ next.finished = kept.finished
      /\ next.hits = kept.hits /\ next.darts = kept.darts /\ next.index = kept.index + 1
  BY <1>2 DEF NoCheckout, DrillFields
<1> HIDE DEF over, next, b
<1>5. CASE goesOn
  <2>1. DOMAIN b = BookFields /\ b.tells = FALSE /\ b.drill = next
    BY <1>1, <1>5 DEF Open, BookFields
  <2>2. b.drill.score >= 0 /\ d.index < Len(Targets) - 1
    BY <1>4, <1>5, <2>1
  <2>3. b.drill.finished = FALSE
    BY <1>2, <1>4, <2>1
  <2> QED BY <1>2, <1>4, <2>1, <2>2, <2>3 DEF b, won, hits, darts
<1>6. CASE ~goesOn
  <2>1. DOMAIN b = BookFields /\ b.tells = TRUE /\ b.drill = over
    BY <1>1, <1>6 DEF BookFields
  <2>2. ~(b.drill.score >= 0 /\ d.index < Len(Targets) - 1)
    BY <1>3, <1>6, <2>1
  <2>3. b.result = Outcome(b.drill)
    <3>1. b.result = Outcome(kept)
      BY <1>1, <1>6
    <3> QED BY <1>3, <2>1, <3>1, OutcomesAre
  <2> QED BY <1>2, <1>3, <2>1, <2>2, <2>3 DEF b, won, hits, darts
<1> QED BY <1>5, <1>6

\* A visit of Bob's 27 books a sound drill.
LEMMA BookBobsKeeps ==
    ASSUME NEW d, Sound(d), ~d.finished, d.kind = "bobs_27", NEW pick
    PROVE  Booked(d, BookBobs(d, pick))
<1> DEFINE b == BookBobs(d, pick)
           n == b.drill
           hits == VisitHits(d)
           goesOn == n.score >= 0 /\ d.index < Len(Targets) - 1
           darts == Len(Thrown(d))
<1>1. Typed(d) /\ EndsWell(d)
  BY DEF Sound
<1>2. /\ DOMAIN b = BookFields /\ b.tells = ~goesOn
      /\ NoCheckout(n, d)
      /\ n.score = d.score + (IF hits > 0 THEN hits * Value(d) ELSE -Value(d))
      /\ n.hits = d.hits + hits /\ n.darts = d.darts + darts
      /\ n.index = (IF goesOn THEN d.index + 1 ELSE d.index)
      /\ n.finished = ~goesOn
      /\ n.finished => b.result = Outcome(n)
  BY <1>1, BookBobsIs
<1>3. hits \in 0..darts /\ darts \in Nat
  BY <1>1, VisitHitsAre, ThrownIs
<1>4. /\ d.index \in 0..(Len(Targets) - 1) /\ d.hits \in 0..d.darts /\ d.darts \in Nat
      /\ d.score \in Int /\ Len(Targets) \in Nat
  BY <1>1, TargetsAre DEF Typed, EndsWell
<1>5. Value(d) \in Nat
  <2>1. d.index + 1 \in 1..Len(Targets)
    BY <1>4
  <2>2. RoundNumber(d) \in Nat
    BY <2>1, TargetsAre DEF RoundNumber
  <2> QED BY <2>2 DEF Value
<1> HIDE DEF b, n, hits, darts
<1>6. n.score \in Int
  <2>1. \A v \in Nat, h \in Nat : h * v \in Int
    OBVIOUS
  <2>2. hits * Value(d) \in Int
    BY <1>3, <1>5, <2>1
  <2> QED BY <1>2, <1>4, <1>5, <2>2
<1>7. /\ n.index \in 0..(Len(Targets) - 1) /\ n.darts \in Nat /\ n.hits \in 0..n.darts
  <2>1. n.index = d.index \/ (n.index = d.index + 1 /\ d.index < Len(Targets) - 1)
    BY <1>2
  <2>2. n.hits = d.hits + hits /\ n.darts = d.darts + darts
    BY <1>2
  <2>3. n.index \in 0..(Len(Targets) - 1)
    BY SMTT(30), <1>4, <2>1
  <2>4. n.darts \in Nat /\ n.hits \in 0..n.darts
    BY SMTT(30), <1>3, <1>4, <2>2
  <2> QED BY <2>3, <2>4
<1>8. ~IsTarget(d) /\ n.kind = d.kind /\ n.visit = d.visit
  BY <1>2 DEF NoCheckout, IsTarget, TargetDrills
<1>9. n.finished \in BOOLEAN /\ b.tells \in BOOLEAN /\ (n.finished => b.tells)
      /\ (n.score < 0 => n.finished)
      /\ (n.finished => n.score < 0 \/ n.index = Len(Targets) - 1)
  <2>1. n.score < 0 => ~goesOn
    BY <1>6
  <2>2. ~goesOn => n.score < 0 \/ n.index = Len(Targets) - 1
    BY <1>2, <1>4, <1>6
  <2> HIDE DEF goesOn
  <2> QED BY <1>2, <2>1, <2>2
<1>10. n.index \in 0..Len(Targets) /\ n.index < Len(Targets)
  BY <1>4, <1>7
<1>11. Typed(n)
  BY <1>1, <1>2, <1>6, <1>7, <1>8, <1>9, <1>10, CountsChange
<1>12. EndsWell(n)
  BY <1>8, <1>9, <1>10 DEF EndsWell, IsTarget
<1> QED BY <1>2, <1>8, <1>9, <1>11, <1>12 DEF Booked, b, n

\* The fields that the checkout training leaves alone.
OnlyCheckout(n, d) ==
    /\ DOMAIN n = DrillFields /\ n.kind = d.kind /\ n.visit = d.visit /\ n.skip = d.skip
    /\ n.announced = d.announced /\ n.finished = d.finished /\ n.index = d.index
    /\ n.darts = d.darts /\ n.hits = d.hits /\ n.score = d.score

\* What the visit of an attempt comes to.
CheckoutNow(d) == EvaluateVisit(d.start, Beds(d), 0, TRUE)

\* An attempt goes on after the visit n books.
GoesOn(d, n) ==
    /\ CheckoutNow(d).outcome = "none" /\ d.visits + 1 < CheckoutVisits
    /\ n.start = CheckoutNow(d).remaining /\ n.target = d.target
    /\ n.visits = d.visits + 1 /\ n.attemptDarts = d.attemptDarts + CheckoutNow(d).darts
    /\ n.attempts = d.attempts /\ n.successes = d.successes

\* An attempt is over, and the next one begins.
AttemptOver(d, n, pick) ==
    /\ n.start = pick /\ n.target = pick /\ n.visits = 0 /\ n.attemptDarts = 0
    /\ n.attempts = d.attempts + 1
    /\ n.successes = d.successes + (IF CheckoutNow(d).outcome = "won" THEN 1 ELSE 0)

\* A checkout visit goes on with its attempt or ends it.
LEMMA BookCheckoutIs ==
    ASSUME NEW d, Typed(d), NEW pick
    PROVE  LET b == BookCheckout(d, pick)
           IN  /\ DOMAIN b = BookFields /\ b.tells = FALSE /\ OnlyCheckout(b.drill, d)
               /\ \/ GoesOn(d, b.drill)
                  \/ /\ AttemptOver(d, b.drill, pick)
                     /\ b.result = [darts |-> d.attemptDarts + CheckoutNow(d).darts]
<1> DEFINE now == CheckoutNow(d)
           kept == [d EXCEPT !.visits = @ + 1, !.attemptDarts = @ + now.darts]
           next == [kept EXCEPT !.start = now.remaining]
           over == [kept EXCEPT !.attempts = @ + 1,
                                !.successes = @ + (IF now.outcome = "won" THEN 1 ELSE 0),
                                !.target = pick, !.start = pick, !.visits = 0,
                                !.attemptDarts = 0]
           open == now.outcome = "none" /\ kept.visits < CheckoutVisits
           b == BookCheckout(d, pick)
<1>1. b = IF open THEN Open(next)
          ELSE [drill |-> over, result |-> [darts |-> kept.attemptDarts], tells |-> FALSE]
  BY DEF BookCheckout, CheckoutNow
<1> HIDE DEF now
<1>2. /\ OnlyCheckout(kept, d) /\ kept.visits = d.visits + 1 /\ kept.start = d.start
      /\ kept.attemptDarts = d.attemptDarts + now.darts /\ kept.target = d.target
      /\ kept.attempts = d.attempts /\ kept.successes = d.successes
  BY DEF Typed, OnlyCheckout, DrillFields
<1> HIDE DEF kept
<1>3. /\ OnlyCheckout(next, d) /\ next.start = now.remaining /\ next.visits = kept.visits
      /\ next.attemptDarts = kept.attemptDarts /\ next.target = kept.target
      /\ next.attempts = kept.attempts /\ next.successes = kept.successes
  BY <1>2 DEF OnlyCheckout, DrillFields
<1>4. /\ OnlyCheckout(over, d) /\ over.start = pick /\ over.visits = 0
      /\ over.attemptDarts = 0 /\ over.target = pick /\ over.attempts = kept.attempts + 1
      /\ over.successes = kept.successes + (IF now.outcome = "won" THEN 1 ELSE 0)
  BY <1>2 DEF OnlyCheckout, DrillFields
<1> HIDE DEF next, over, b
<1>5. CASE open
  <2>1. DOMAIN b = BookFields /\ b.tells = FALSE /\ b.drill = next
    BY <1>1, <1>5 DEF Open, BookFields
  <2>2. GoesOn(d, b.drill)
    BY <1>2, <1>3, <1>5, <2>1 DEF GoesOn, now
  <2> QED BY <1>3, <2>1, <2>2 DEF b
<1>6. CASE ~open
  <2>1. /\ DOMAIN b = BookFields /\ b.tells = FALSE /\ b.drill = over
        /\ b.result = [darts |-> kept.attemptDarts]
    BY <1>1, <1>6 DEF BookFields
  <2>2. AttemptOver(d, b.drill, pick)
    BY <1>2, <1>4, <2>1 DEF AttemptOver, now
  <2> QED BY <1>2, <1>4, <2>1, <2>2 DEF b, now
<1> QED BY <1>5, <1>6

\* A visit leaves at least 2 of a score that a double can still finish.
LEMMA CheckoutNowIs ==
    ASSUME NEW d, Typed(d)
    PROVE  /\ CheckoutNow(d).darts \in Nat
           /\ CheckoutNow(d).outcome = "none" => CheckoutNow(d).remaining \in 2..d.start
           /\ Thrown(d) = <<>> => /\ CheckoutNow(d).outcome = "none"
                                  /\ CheckoutNow(d).remaining = d.start
<1>1. d.start \in Nat /\ d.start > 1
  <2>1. d.start \in 2..d.target /\ d.target \in Nat
    BY FinishesAre DEF Typed
  <2> QED BY <2>1
<1>2. /\ Len(Beds(d)) \in Nat /\ (Thrown(d) = <<>> => 0 = Len(Beds(d)))
      /\ \A i \in 1..Len(Beds(d)) : Score(Beds(d)[i]) \in Nat
  BY ThrownIs, BedsAre
<1> DEFINE e == EvaluateVisit(d.start, Beds(d), 0, TRUE)
<1>3. /\ e.remaining \in Nat /\ e.remaining <= d.start /\ e.darts \in Nat
      /\ 0 = Len(Beds(d)) => e.outcome = "none" /\ e.remaining = d.start
      /\ e.outcome = "none" => e.remaining > 1
  <2>1. 0 \in 0..Len(Beds(d)) /\ TRUE \in BOOLEAN
    BY <1>2
  <2>2. /\ e.remaining \in Nat /\ e.remaining <= d.start
        /\ e.outcome \in {"none", "bust", "won"}
        /\ e.outcome = "won" => e.remaining = 0
        /\ d.start > 0 /\ e.outcome # "won" => e.remaining > 0
        /\ 0 = Len(Beds(d)) => e.outcome = "none"
        /\ 0 = Len(Beds(d)) => e.remaining = d.start
        /\ TRUE /\ d.start > 1 /\ e.outcome = "none" => e.remaining > 1
        /\ e.darts \in Nat
    BY <1>1, <1>2, <2>1, EvaluateIs
  <2> HIDE DEF e
  <2> QED BY <1>1, <2>2
<1>4. CheckoutNow(d) = e
  BY DEF CheckoutNow
<1> HIDE DEF e
<1> QED BY <1>1, <1>2, <1>3, <1>4

\* A checkout visit books a sound drill.
LEMMA BookCheckoutKeeps ==
    ASSUME NEW d, Sound(d), ~d.finished, d.kind = "checkout", NEW pick \in CheckoutScores
    PROVE  Booked(d, BookCheckout(d, pick))
<1> DEFINE b == BookCheckout(d, pick)
           n == b.drill
<1>1. Typed(d) /\ EndsWell(d)
  BY DEF Sound
<1>2. /\ DOMAIN b = BookFields /\ b.tells = FALSE /\ OnlyCheckout(n, d)
      /\ GoesOn(d, n) \/ AttemptOver(d, n, pick)
  BY <1>1, BookCheckoutIs
<1> HIDE DEF b, n
<1>3. /\ n.start \in 2..n.target /\ n.target \in CheckoutScores
      /\ n.visits \in 0..(CheckoutVisits - 1) /\ n.attemptDarts \in Nat /\ n.attempts \in Nat
      /\ n.successes \in 0..n.attempts
  <2>1. /\ d.start \in 2..d.target /\ d.target \in CheckoutScores /\ d.visits \in 0..(CheckoutVisits - 1)
        /\ d.attemptDarts \in Nat /\ d.attempts \in Nat /\ d.successes \in 0..d.attempts
    BY <1>1 DEF Typed
  <2>2. pick \in 2..pick /\ d.target \in Nat /\ CheckoutVisits \in Nat \ {0}
    <3>1. pick \in Nat \ {0, 1} /\ d.target \in Nat \ {0, 1} /\ CheckoutVisits \in Nat \ {0}
      BY <2>1, FinishesAre
    <3> QED BY <3>1
  <2>3. /\ CheckoutNow(d).darts \in Nat
        /\ CheckoutNow(d).outcome = "none" => CheckoutNow(d).remaining \in 2..d.start
    BY <1>1, CheckoutNowIs
  <2>4. CASE GoesOn(d, n)
    BY <2>1, <2>2, <2>3, <2>4 DEF GoesOn
  <2>5. CASE AttemptOver(d, n, pick)
    BY <2>1, <2>2, <2>5 DEF AttemptOver
  <2> QED BY <1>2, <2>4, <2>5
<1>4. Typed(n) /\ IsTarget(n) = IsTarget(d) /\ ~IsTarget(d)
  BY <1>1, <1>2, <1>3 DEF Typed, OnlyCheckout, IsTarget, TargetDrills
<1>5. EndsWell(n)
  BY <1>2, <1>4 DEF EndsWell, OnlyCheckout
<1>6. n.kind = d.kind /\ n.visit = d.visit /\ ~n.finished /\ b.tells \in BOOLEAN
  BY <1>2 DEF OnlyCheckout
<1> QED BY <1>2, <1>4, <1>5, <1>6 DEF Booked, b, n

\* r is the result of the game, if it is over.
Records(d, r) == d.finished => r = Outcome(d)

\* The game after its visit was finished: nothing is on the board.
LEMMA FinishKeeps ==
    ASSUME NEW d, Sound(d), NEW pick \in CheckoutScores
    PROVE  LET done == Finish(d, pick)
           IN  /\ Sound(done.drill) /\ done.tells \in BOOLEAN
               /\ done.drill.visit = <<>> /\ done.drill.skip = 0 /\ ~done.drill.announced
               /\ done.drill.kind = d.kind
               /\ done.drill.finished => d.finished \/ IsTarget(d) \/ done.tells
               /\ \A r : (d.finished => r = Outcome(d)) =>
                    Records(done.drill, IF done.result = NoResult THEN r ELSE done.result)
<1> DEFINE booked == IF ~Books(d) THEN Open(d)
                     ELSE IF IsTarget(d) THEN BookTarget(d, pick)
                     ELSE IF d.kind = "bobs_27" THEN BookBobs(d, pick)
                     ELSE BookCheckout(d, pick)
           done == [booked EXCEPT !.drill.visit = <<>>, !.drill.skip = 0, !.drill.announced = FALSE]
<1>1. Finish(d, pick) = done
  BY DEF Finish
<1>2. Typed(d) /\ EndsWell(d) /\ d.kind \in DrillKinds
  BY FinishesAre DEF Sound, Typed
<1>3. /\ DOMAIN booked = BookFields /\ Typed(booked.drill) /\ EndsWell(booked.drill)
      /\ booked.tells \in BOOLEAN /\ booked.drill.kind = d.kind
      /\ booked.drill.finished => d.finished \/ IsTarget(d) \/ booked.tells
      /\ booked.drill.finished =>
           booked.result = (IF Books(d) THEN Outcome(booked.drill) ELSE NoResult)
      /\ ~Books(d) => booked.drill = d
  <2>1. CASE ~Books(d)
    <3>1. booked = Open(d)
      BY <2>1
    <3> HIDE DEF booked
    <3> QED BY <1>2, <2>1, <3>1 DEF Open, BookFields
  <2>2. CASE Books(d)
    <3>1. ~d.finished
      BY <2>2 DEF Books
    <3>2. Booked(d, booked)
      <4>1. CASE IsTarget(d)
        BY <2>2, <3>1, <4>1, BookTargetKeeps
      <4>2. CASE ~IsTarget(d) /\ d.kind = "bobs_27"
        BY <2>2, <3>1, <4>2, BookBobsKeeps
      <4>3. CASE ~IsTarget(d) /\ d.kind # "bobs_27"
        <5>1. d.kind = "checkout"
          BY <1>2, <4>3 DEF DrillKinds, IsTarget
        <5> QED BY <2>2, <3>1, <4>3, <5>1, BookCheckoutKeeps
      <4> QED BY <4>1, <4>2, <4>3
    <3> HIDE DEF booked
    <3> QED BY <2>2, <3>2 DEF Booked
  <2> QED BY <2>1, <2>2
<1> HIDE DEF booked
<1>4. /\ done.tells = booked.tells /\ SameGame(done.drill, booked.drill)
      /\ done.result = booked.result
      /\ done.drill.visit = <<>> /\ done.drill.skip = 0 /\ done.drill.announced = FALSE
  BY <1>3 DEF SameGame, BookFields, DrillFields, Typed
<1> HIDE DEF done
<1>5. <<>> \in Seq(Dart) /\ 0 \in Nat
  BY EmptySeq
<1>6. Typed(done.drill) /\ EndsWell(done.drill)
  BY <1>3, <1>4, <1>5, VisitChanges
<1>7. Rests(done.drill)
  BY <1>4 DEF Rests
<1>8. done.drill.kind = d.kind /\ done.drill.finished = booked.drill.finished
  BY <1>3, <1>4 DEF SameGame
<1>9. ASSUME NEW r, d.finished => r = Outcome(d)
      PROVE  Records(done.drill, IF done.result = NoResult THEN r ELSE done.result)
  <2> SUFFICES ASSUME done.drill.finished
               PROVE  (IF done.result = NoResult THEN r ELSE done.result) = Outcome(done.drill)
    BY DEF Records
  <2>1. Outcome(done.drill) = Outcome(booked.drill) /\ Outcome(booked.drill) # NoResult
    BY <1>4, OutcomesAre DEF SameGame
  <2>2. booked.drill.finished
    BY <1>8
  <2> QED BY <1>3, <1>4, <1>9, <2>1, <2>2
<1> QED BY <1>1, <1>3, <1>4, <1>6, <1>7, <1>8, <1>9 DEF Sound

-----------------------------------------------------------------------------
(* The steps.                                                              *)

\* A state of the board that skips the darts it has to keeps the invariant.
LEMMA ReviseKeeps ==
    ASSUME IInv, NEW visit \in Seq(Dart), chosen => EarlyOk(drill, visit), Revise(visit)
    PROVE  IInv'
<1>1. board' = visit /\ chosen' = chosen
  BY DEF Revise
<1>2. CASE ~chosen
  <2>1. drill' = drill /\ ends' = ends /\ stale' = stale /\ recorded' = recorded
    BY <1>2 DEF Revise
  <2> QED BY <1>1, <1>2, <2>1 DEF IInv
<1>3. CASE chosen
  <2>1. drill' = Track(drill, visit) /\ Tell(drill, visit, FALSE) /\ stale' = FALSE
    BY <1>3 DEF Revise
  <2>2. Sound(drill) /\ EarlyOk(drill, visit) /\ ends \in 0..2 /\ (drill.finished => ends > 0)
    BY <1>3 DEF IInv
  <2>3. /\ Sound(drill') /\ drill'.visit = visit /\ EarlyOk(drill', visit)
        /\ SameGame(drill', Follow(drill, visit))
    BY <2>1, <2>2, TrackKeeps
  <2>4. Follow(drill, visit).finished => drill.finished /\ SameGame(Follow(drill, visit), drill)
    BY <2>2, FollowKeeps DEF Followed
  <2>5. /\ ends' \in 0..2
        /\ /\ Follow(drill, visit).finished
           /\ FALSE \/ ends > 0 \/ (IsTarget(drill) /\ ~drill.announced)
           => ends' > 0
    BY <2>1, <2>2, TellIs
  <2>6. drill'.finished => ends' > 0
    BY <2>2, <2>3, <2>4, <2>5 DEF SameGame
  <2>7. chosen' \in BOOLEAN /\ stale' \in BOOLEAN
    BY <1>1, <2>1 DEF IInv
  <2>8. drill'.finished => recorded' = Outcome(drill')
    <3> SUFFICES ASSUME drill'.finished
                 PROVE  recorded' = Outcome(drill')
      OBVIOUS
    <3>1. drill.finished /\ SameGame(Follow(drill, visit), drill)
      BY <2>3, <2>4 DEF SameGame
    <3>2. Outcome(drill') = Outcome(drill)
      BY <2>3, <3>1, OutcomesAre DEF SameGame
    <3>3. recorded' = recorded
      BY DEF Revise
    <3> QED BY <3>1, <3>2, <3>3 DEF IInv
  <2> QED BY <1>1, <2>3, <2>5, <2>6, <2>7, <2>8 DEF IInv
<1>4. chosen \in BOOLEAN
  BY DEF IInv
<1> QED BY <1>2, <1>3, <1>4

\* A dart of a bed that is tried.
LEMMA NewIs ==
    ASSUME IInv, NEW b \in DrillBeds[drill.kind]
    PROVE  New(b) \in Dart /\ New(b).early = ~chosen
<1>1. drill.kind \in Drills /\ chosen \in BOOLEAN
  BY DEF IInv, Sound, Typed
<1>2. b \in UNION {DrillBeds[kind] : kind \in Drills}
  BY <1>1
<1> QED BY <1>1, <1>2 DEF New, Dart

\* A dart that lands.
LEMMA DetectKeeps == ASSUME IInv, NEW b \in DrillBeds[drill.kind], Detect(b) PROVE IInv'
<1> DEFINE visit == Append(board, New(b))
<1>1. board \in Seq(Dart) /\ New(b) \in Dart /\ New(b).early = ~chosen
  BY NewIs DEF IInv
<1>2. /\ visit \in Seq(Dart) /\ DOMAIN visit = 1..(Len(board) + 1)
      /\ \A i \in 1..Len(board) : visit[i] = board[i]
      /\ visit[Len(board) + 1] = New(b)
      /\ DOMAIN board = 1..Len(board) /\ Len(board) \in Nat
  BY <1>1, AppendProperties, LenProperties
<1> HIDE DEF visit
<1>3. chosen => EarlyOk(drill, visit)
  <2> SUFFICES ASSUME chosen, NEW i \in DOMAIN visit, visit[i].early
               PROVE  i <= drill.skip
    BY DEF EarlyOk
  <2>1. EarlyOk(drill, board)
    BY DEF IInv
  <2>2. i # Len(board) + 1
    BY <1>1, <1>2
  <2>3. i \in DOMAIN board /\ visit[i] = board[i]
    BY <1>2, <2>2
  <2> QED BY <2>1, <2>3 DEF EarlyOk
<1> QED BY <1>2, <1>3, ReviseKeeps DEF Detect, visit

\* A dart that is corrected.
LEMMA CorrectKeeps ==
    ASSUME IInv, NEW i \in DOMAIN board, NEW b \in DrillBeds[drill.kind], Correct(i, b)
    PROVE  IInv'
<1> DEFINE visit == [board EXCEPT ![i].bed = b]
           dart == [board[i] EXCEPT !.bed = b]
<1>1. /\ board \in Seq(Dart) /\ DOMAIN board = 1..Len(board) /\ Len(board) \in Nat
      /\ \A j \in 1..Len(board) : board[j] \in Dart
  BY LenProperties, ElementOfSeq DEF IInv
<1>2. b \in UNION {DrillBeds[kind] : kind \in Drills}
  <2>1. drill.kind \in Drills
    BY DEF IInv, Sound, Typed
  <2> QED BY <2>1
<1>3. dart \in Dart /\ dart.early = board[i].early
  BY <1>1, <1>2 DEF Dart
<1>4. visit = [j \in 1..Len(board) |-> IF j = i THEN dart ELSE board[j]]
  BY <1>1
<1> HIDE DEF visit, dart
<1>5. /\ DOMAIN visit = 1..Len(board)
      /\ \A j \in 1..Len(board) : visit[j] \in Dart /\ visit[j].early = board[j].early
  BY <1>1, <1>3, <1>4
<1>6. visit \in Seq(Dart)
  <2>1. visit = [j \in 1..Len(board) |-> visit[j]]
    BY <1>4
  <2> QED BY <1>1, <1>5, <2>1, IsASeq
<1>7. chosen => EarlyOk(drill, visit)
  BY <1>1, <1>5 DEF IInv, EarlyOk
<1> QED BY <1>6, <1>7, ReviseKeeps DEF Correct, visit

\* A dart that is taken back.
LEMMA WithdrawKeeps == ASSUME IInv, NEW i \in DOMAIN board, Withdraw(i) PROVE IInv'
<1> DEFINE visit == SubSeq(board, 1, i - 1) \o SubSeq(board, i + 1, Len(board))
           n == Len(board)
<1>1. board \in Seq(Dart) /\ DOMAIN board = 1..n /\ n \in Nat /\ i \in 1..n
  BY LenProperties DEF IInv
<1>2. /\ visit \in Seq(Dart) /\ DOMAIN visit = 1..(n - 1)
      /\ \A j \in 1..(n - 1) : visit[j] = IF j <= i - 1 THEN board[j] ELSE board[j + 1]
  BY <1>1, WithoutIs
<1> HIDE DEF visit, n
<1>3. chosen => EarlyOk(drill, visit)
  <2> SUFFICES ASSUME chosen, NEW j \in DOMAIN visit, visit[j].early
               PROVE  j <= drill.skip
    BY DEF EarlyOk
  <2>1. \A k \in 1..n : board[k].early => k <= drill.skip
    BY <1>1 DEF IInv, EarlyOk
  <2>2. j \in 1..(n - 1) /\ j \in 1..n /\ j + 1 \in 1..n
    BY <1>1, <1>2
  <2>5. drill.skip \in Nat
    BY DEF IInv, Sound, Typed
  <2>3. CASE j <= i - 1
    BY <1>2, <2>1, <2>2, <2>3
  <2>4. CASE ~(j <= i - 1)
    BY <1>2, <2>1, <2>2, <2>4, <2>5
  <2> QED BY <2>3, <2>4
<1> QED BY <1>2, <1>3, ReviseKeeps DEF Withdraw, visit

\* A visit that nobody is told of.
LEMMA DropKeeps == ASSUME IInv, Drop PROVE IInv'
<1>1. <<>> \in Seq(Dart) /\ EarlyOk(drill, <<>>)
  BY EmptySeq DEF EarlyOk
<1> QED BY <1>1, ReviseKeeps DEF Drop

\* A visit whose darts were pulled, and a dart that may be seen at once.
LEMMA CompleteKeeps == ASSUME IInv, Complete PROVE IInv'
<1>1. PICK pick \in CheckoutScores, visit \in {<<>>} \cup {<<New(b)>> : b \in DrillBeds[drill.kind]} :
         /\ board' = visit
         /\ IF chosen
            THEN LET done == Finish(drill, pick)
                 IN  /\ drill' = Track(done.drill, visit)
                     /\ recorded' = IF done.result = NoResult THEN recorded ELSE done.result
                     /\ tried' = DoubleAttempts(drill)
                     /\ Tell(done.drill, visit, done.tells)
                     /\ stale' = FALSE
            ELSE tried' = <<>> /\ UNCHANGED <<drill, recorded, ends, stale>>
  BY DEF Complete
<1>2. chosen' = chosen /\ chosen \in BOOLEAN
  BY DEF Complete, IInv
<1>3. /\ visit \in Seq(Dart)
      /\ chosen => \A i \in DOMAIN visit : ~visit[i].early
  <2>1. CASE visit = <<>>
    BY <2>1, EmptySeq
  <2>2. ASSUME NEW b \in DrillBeds[drill.kind], visit = <<New(b)>>
        PROVE  /\ visit \in Seq(Dart)
               /\ chosen => \A i \in DOMAIN visit : ~visit[i].early
    <3>1. New(b) \in Dart /\ New(b).early = ~chosen
      BY NewIs
    <3> DEFINE dart == New(b)
    <3> HIDE DEF dart
    <3>2. <<dart>> \in Seq(Dart) /\ DOMAIN <<dart>> = {1} /\ <<dart>>[1] = dart
      BY <3>1 DEF dart
    <3> QED BY <2>2, <3>1, <3>2 DEF dart
  <2> QED BY <2>1, <2>2
<1>4. CASE ~chosen
  <2>1. /\ drill' = drill /\ ends' = ends /\ stale' = stale /\ board' = visit
        /\ recorded' = recorded
    BY <1>1, <1>4
  <2> QED BY <1>2, <1>3, <1>4, <2>1 DEF IInv
<1>5. CASE chosen
  <2> DEFINE done == Finish(drill, pick)
             d == done.drill
             told == done.tells
             result == IF done.result = NoResult THEN recorded ELSE done.result
  <2>1. /\ board' = visit /\ drill' = Track(d, visit) /\ Tell(d, visit, told) /\ stale' = FALSE
        /\ recorded' = result
    BY <1>1, <1>5
  <2>2. Sound(drill) /\ ends \in 0..2 /\ (drill.finished => ends > 0)
    BY DEF IInv
  <2>3. /\ Sound(d) /\ told \in BOOLEAN /\ ~d.announced /\ d.kind = drill.kind
        /\ d.finished => drill.finished \/ IsTarget(drill) \/ told
        /\ Records(d, result)
    <3>1. drill.finished => recorded = Outcome(drill)
      BY DEF IInv
    <3> QED BY <2>2, <3>1, FinishKeeps
  <2> HIDE DEF d, told, done, result
  <2>4. EarlyOk(d, visit)
    BY <1>3, <1>5 DEF EarlyOk
  <2>5. /\ Sound(drill') /\ drill'.visit = visit /\ EarlyOk(drill', visit)
        /\ SameGame(drill', Follow(d, visit))
    BY <1>3, <2>1, <2>3, <2>4, TrackKeeps
  <2>6. Follow(d, visit).finished => d.finished /\ SameGame(Follow(d, visit), d)
    BY <1>3, <2>3, <2>4, FollowKeeps DEF Followed
  <2>7. /\ ends' \in 0..2
        /\ /\ Follow(d, visit).finished
           /\ told \/ ends > 0 \/ (IsTarget(d) /\ ~d.announced)
           => ends' > 0
    BY <1>3, <2>1, <2>2, <2>3, <2>4, TellIs
  <2>8. drill'.finished => ends' > 0
    BY <2>2, <2>3, <2>5, <2>6, <2>7 DEF SameGame, IsTarget
  <2>9. stale' \in BOOLEAN
    BY <2>1
  <2>10. drill'.finished => recorded' = Outcome(drill')
    <3> SUFFICES ASSUME drill'.finished
                 PROVE  recorded' = Outcome(drill')
      OBVIOUS
    <3>1. d.finished /\ SameGame(Follow(d, visit), d)
      BY <2>5, <2>6 DEF SameGame
    <3>2. Outcome(drill') = Outcome(d)
      BY <2>5, <3>1, OutcomesAre DEF SameGame
    <3> QED BY <2>1, <2>3, <3>1, <3>2 DEF Records
  <2> QED BY <1>2, <1>3, <2>1, <2>5, <2>7, <2>8, <2>9, <2>10 DEF IInv
<1> QED BY <1>2, <1>4, <1>5

\* Darts of a visit that were thrown before the game was chosen.
LEMMA EarlyIs ==
    ASSUME NEW visit \in Seq(Dart)
    PROVE  Early(visit) \in Seq(Dart) /\ DOMAIN Early(visit) = 1..Len(visit) /\ Len(visit) \in Nat
<1>1. /\ DOMAIN visit = 1..Len(visit) /\ Len(visit) \in Nat
      /\ \A j \in 1..Len(visit) : visit[j] \in Dart
  BY LenProperties, ElementOfSeq
<1>2. \A d \in Dart : [d EXCEPT !.early = TRUE] \in Dart
  BY DEF Dart
<1>3. Early(visit) = [i \in 1..Len(visit) |-> [visit[i] EXCEPT !.early = TRUE]]
  BY <1>1 DEF Early
<1> DEFINE n == Len(visit)
<1>4. Early(visit) \in [1..n -> Dart]
  BY <1>1, <1>2, <1>3
<1> HIDE DEF n
<1>5. Early(visit) \in Seq(Dart)
  BY <1>1, <1>4, SeqDef DEF n
<1> QED BY <1>1, <1>3, <1>5

\* The game is chosen: nothing on the board counts in it.
LEMMA ChooseKeeps == ASSUME IInv, Choose PROVE IInv'
<1>1. PICK pick \in CheckoutScores :
         drill' = [Reset(drill, Len(board), pick) EXCEPT !.visit = Early(drill.visit)]
  BY DEF Choose
<1>2. /\ chosen' = TRUE /\ board' = Early(board) /\ stale' = (Len(drill.visit) > Len(board))
      /\ ends' = 0
  BY DEF Choose
<1>3. Typed(drill) /\ board \in Seq(Dart) /\ drill.visit \in Seq(Dart)
  BY DEF IInv, Sound, Typed
<1>4. /\ Early(board) \in Seq(Dart) /\ DOMAIN Early(board) = 1..Len(board) /\ Len(board) \in Nat
      /\ Early(drill.visit) \in Seq(Dart) /\ DOMAIN Early(drill.visit) = 1..Len(drill.visit)
      /\ Len(drill.visit) \in Nat
  BY <1>3, EarlyIs
<1> DEFINE n == Reset(drill, Len(board), pick)
<1>5. Sound(n) /\ ~n.finished /\ n.skip = Len(board)
  BY <1>3, <1>4, ResetKeeps
<1> HIDE DEF n
<1>6. /\ SameGame(drill', n) /\ drill'.visit = Early(drill.visit) /\ drill'.skip = n.skip
      /\ drill'.announced = n.announced
  BY <1>1, <1>5 DEF n, Sound, Typed, SameGame, DrillFields
<1>7. Typed(drill') /\ EndsWell(drill')
  <2>1. n.skip \in Nat /\ n.announced \in BOOLEAN
    BY <1>5 DEF Sound, Typed
  <2> QED BY <1>4, <1>5, <1>6, <2>1, VisitChanges DEF Sound
<1>8. ~drill'.finished /\ drill'.skip = Len(board)
  BY <1>5, <1>6 DEF SameGame
<1>9. Sound(drill')
  BY <1>7, <1>8 DEF Sound, Rests
<1>10. EarlyOk(drill', board')
  BY <1>2, <1>4, <1>8 DEF EarlyOk
<1>11. ~stale' => EarlyOk(drill', drill'.visit)
  <2> SUFFICES ASSUME ~stale', NEW i \in 1..Len(drill.visit)
               PROVE  i <= Len(board)
    BY <1>4, <1>6, <1>8 DEF EarlyOk
  <2>1. ~(Len(drill.visit) > Len(board))
    BY <1>2
  <2> QED BY <1>4, <2>1
<1>12. stale' \in BOOLEAN /\ chosen' \in BOOLEAN /\ ends' \in 0..2
  BY <1>2
<1> QED BY <1>2, <1>4, <1>8, <1>9, <1>10, <1>11, <1>12 DEF IInv

\* A restart: nothing is left of the visit.
LEMMA RestartKeeps == ASSUME IInv, Restart PROVE IInv'
<1>1. /\ drill' = [drill EXCEPT !.visit = <<>>, !.skip = 0, !.announced = FALSE]
      /\ board' = <<>> /\ stale' = FALSE /\ chosen' = chosen /\ ends' = ends
      /\ recorded' = recorded
  BY DEF Restart
<1>2. /\ Typed(drill) /\ EndsWell(drill) /\ chosen \in BOOLEAN /\ ends \in 0..2
      /\ drill.finished => ends > 0 /\ recorded = Outcome(drill)
  BY DEF IInv, Sound
<1>3. /\ SameGame(drill', drill) /\ drill'.visit = <<>> /\ drill'.skip = 0
      /\ drill'.announced = FALSE
  BY <1>1, <1>2 DEF SameGame, Typed, DrillFields
<1>4. <<>> \in Seq(Dart) /\ DOMAIN <<>> = {}
  BY EmptySeq
<1>5. Typed(drill') /\ EndsWell(drill')
  <2>1. drill'.skip \in Nat
    BY <1>3
  <2>2. drill'.announced \in BOOLEAN
    BY <1>3
  <2>3. drill'.visit \in Seq(Dart)
    BY ONLY <1>3, <1>4
  <2> QED BY <1>2, <1>3, <2>1, <2>2, <2>3, VisitChanges
<1>6. Sound(drill') /\ drill'.finished = drill.finished
  BY <1>3, <1>5 DEF Sound, Rests, SameGame
<1>7. EarlyOk(drill', <<>>)
  BY <1>4 DEF EarlyOk
<1>8. stale' \in BOOLEAN
  BY <1>1
<1>9. Outcome(drill') = Outcome(drill)
  BY <1>3, OutcomesAre DEF SameGame
<1> QED BY <1>1, <1>2, <1>3, <1>4, <1>6, <1>7, <1>8, <1>9 DEF IInv

\* The games begin sound.
LEMMA InitHolds == Init => IInv
<1> SUFFICES ASSUME Init
             PROVE  IInv
  OBVIOUS
<1>1. PICK kind \in Drills, pick \in CheckoutScores :
         drill = [kind |-> kind, finished |-> FALSE, visit |-> <<>>, skip |-> 0,
                  announced |-> FALSE, index |-> 0, darts |-> 0, hits |-> 0,
                  score |-> BobsStart, target |-> pick, start |-> pick, visits |-> 0,
                  attemptDarts |-> 0, attempts |-> 0, successes |-> 0]
  BY DEF Init
<1>2. /\ board = <<>> /\ chosen = FALSE /\ stale = FALSE /\ ends = 0
  BY DEF Init
<1>3. /\ DOMAIN drill = DrillFields /\ drill.kind = kind /\ drill.finished = FALSE
      /\ drill.visit = <<>> /\ drill.skip = 0 /\ drill.announced = FALSE /\ drill.index = 0
      /\ drill.darts = 0 /\ drill.hits = 0 /\ drill.score = BobsStart /\ drill.target = pick
      /\ drill.start = pick /\ drill.visits = 0 /\ drill.attemptDarts = 0
      /\ drill.attempts = 0 /\ drill.successes = 0
  BY <1>1 DEF DrillFields
<1>4. <<>> \in Seq(Dart) /\ BobsStart \in Nat /\ Len(Targets) \in Nat /\ Len(Targets) > 0
  BY EmptySeq, FinishesAre, TargetsAre
<1>5. Typed(drill)
  <2>1. pick \in 2..pick /\ 0 \in 0..(CheckoutVisits - 1)
    <3>1. pick \in Nat \ {0, 1} /\ CheckoutVisits \in Nat \ {0}
      BY FinishesAre
    <3> QED BY <3>1
  <2>2. drill.index \in 0..Len(Targets) /\ drill.hits \in 0..drill.darts
        /\ drill.successes \in 0..drill.attempts
    BY <1>3, <1>4
  <2>3. drill.start \in 2..drill.target /\ drill.visits \in 0..(CheckoutVisits - 1)
    BY <1>3, <2>1
  <2>4. drill.finished \in BOOLEAN /\ drill.announced \in BOOLEAN
    BY <1>3
  <2>5. IsTarget(drill) => drill.hits = drill.index
    BY <1>3
  <2>6. /\ drill.kind \in Drills /\ drill.visit \in Seq(Dart) /\ drill.skip \in Nat
        /\ drill.darts \in Nat /\ drill.score \in Int /\ drill.target \in CheckoutScores
        /\ drill.attemptDarts \in Nat /\ drill.attempts \in Nat
    BY <1>3, <1>4
  <2> QED BY <1>3, <2>2, <2>3, <2>4, <2>5, <2>6 DEF Typed
<1>6. EndsWell(drill) /\ Rests(drill)
  BY <1>3, <1>4 DEF EndsWell, Rests
<1>7. chosen \in BOOLEAN /\ stale \in BOOLEAN /\ ~chosen /\ ~drill.finished
  BY <1>2, <1>3
<1> QED BY <1>2, <1>4, <1>5, <1>6, <1>7 DEF IInv, Sound

\* Every step keeps the invariant.
LEMMA NextKeeps == IInv /\ [Next]_vars => IInv'
<1> SUFFICES ASSUME IInv, [Next]_vars
             PROVE  IInv'
  OBVIOUS
<1>1. CASE \E b \in DrillBeds[drill.kind] : Detect(b)
  BY <1>1, DetectKeeps
<1>2. CASE \E i \in DOMAIN board, b \in DrillBeds[drill.kind] : Correct(i, b)
  BY <1>2, CorrectKeeps
<1>3. CASE \E i \in DOMAIN board : Withdraw(i)
  BY <1>3, WithdrawKeeps
<1>4. CASE Drop
  BY <1>4, DropKeeps
<1>5. CASE Complete
  BY <1>5, CompleteKeeps
<1>6. CASE Choose
  BY <1>6, ChooseKeeps
<1>7. CASE Leave
  <2>1. /\ chosen' = FALSE /\ drill' = drill /\ board' = board /\ ends' = ends /\ stale' = stale
        /\ recorded' = recorded
    BY <1>7 DEF Leave
  <2>2. chosen' \in BOOLEAN /\ ~chosen'
    BY <2>1
  <2> QED BY <2>1, <2>2 DEF IInv
<1>8. CASE Restart
  BY <1>8, RestartKeeps
<1>9. CASE UNCHANGED vars
  BY <1>9 DEF vars, IInv
<1> QED BY <1>1, <1>2, <1>3, <1>4, <1>5, <1>6, <1>7, <1>8, <1>9 DEF Next

-----------------------------------------------------------------------------
(* What a visit shows, and what booking it makes of that.                  *)

\* The card of each kind of game.
LEMMA ShownIs ==
    ASSUME NEW d, d.kind \in DrillKinds
    PROVE  LET now  == Progress(d)
               hits == IF d.finished THEN 0 ELSE VisitHits(d)
           IN  /\ IsTarget(d) =>
                    Shown(d) = [progress |-> now.index, darts |-> d.darts + now.darts,
                                hits |-> d.hits + now.index - d.index]
               /\ d.kind = "bobs_27" =>
                    Shown(d) = [darts |-> d.darts + (IF d.finished THEN 0 ELSE Len(Thrown(d))),
                                hits |-> d.hits + hits, score |-> d.score + hits * Value(d)]
               /\ d.kind = "checkout" =>
                    Shown(d) = [remaining |-> CheckoutNow(d).remaining,
                                outcome |-> CheckoutNow(d).outcome]
<1>1. CASE IsTarget(d)
  <2>1. d.kind # "bobs_27" /\ d.kind # "checkout"
    BY <1>1 DEF IsTarget, TargetDrills
  <2> QED BY <1>1, <2>1 DEF Shown
<1>2. CASE d.kind = "bobs_27"
  <2>1. ~IsTarget(d)
    BY <1>2 DEF IsTarget, TargetDrills
  <2> QED BY <1>2, <2>1 DEF Shown
<1>3. CASE d.kind = "checkout"
  <2>1. ~IsTarget(d) /\ d.kind # "bobs_27"
    BY <1>3 DEF IsTarget, TargetDrills
  <2> QED BY <1>3, <2>1 DEF Shown, CheckoutNow
<1> QED BY <1>1, <1>2, <1>3 DEF DrillKinds, IsTarget

\* A game with an empty board shows what is booked.
LEMMA EmptyShows ==
    ASSUME NEW d, Sound(d), d.visit = <<>>
    PROVE  /\ IsTarget(d) => Shown(d) = [progress |-> d.index, darts |-> d.darts, hits |-> d.hits]
           /\ d.kind = "bobs_27" =>
                /\ [Shown(d) EXCEPT !.score = 0] = [darts |-> d.darts, hits |-> d.hits, score |-> 0]
                /\ Shown(d) = [darts |-> d.darts, hits |-> d.hits, score |-> d.score]
           /\ d.kind = "checkout" => Shown(d) = [remaining |-> d.start, outcome |-> "none"]
<1>1. Typed(d) /\ d.kind \in DrillKinds
  BY FinishesAre DEF Sound, Typed
<1>2. Thrown(d) = <<>> /\ Len(Thrown(d)) = 0
  <2>1. Len(d.visit) = 0 /\ d.skip \in Nat
    BY <1>1, EmptySeq DEF Typed
  <2> QED BY <1>1, <2>1, ThrownIs
<1>3. /\ d.index \in Nat /\ d.darts \in Nat /\ d.hits \in Nat
  <2>1. Len(Targets) \in Nat
    BY TargetsAre
  <2> QED BY <1>1, <2>1 DEF Typed
<1>4. ASSUME IsTarget(d)
      PROVE  Shown(d) = [progress |-> d.index, darts |-> d.darts, hits |-> d.hits]
  <2> DEFINE now == Progress(d)
  <2>1. now.index = d.index /\ now.darts = 0
    BY <1>1, <1>2, ProgressIs
  <2>2. Shown(d) = [progress |-> now.index, darts |-> d.darts + now.darts,
                    hits |-> d.hits + now.index - d.index]
    BY <1>1, <1>4, ShownIs
  <2> HIDE DEF now
  <2>3. d.darts + now.darts = d.darts /\ d.hits + now.index - d.index = d.hits
    BY <1>3, <2>1
  <2> QED BY <2>1, <2>2, <2>3
<1>5. ASSUME d.kind = "bobs_27"
      PROVE  /\ [Shown(d) EXCEPT !.score = 0] = [darts |-> d.darts, hits |-> d.hits, score |-> 0]
             /\ Shown(d) = [darts |-> d.darts, hits |-> d.hits, score |-> d.score]
  <2> DEFINE hits == IF d.finished THEN 0 ELSE VisitHits(d)
             darts == IF d.finished THEN 0 ELSE Len(Thrown(d))
             score == d.score + hits * Value(d)
  <2>1. VisitHits(d) \in 0..Len(Thrown(d))
    BY <1>1, VisitHitsAre
  <2>2. hits = 0 /\ darts = 0
    BY <1>2, <2>1
  <2>3. Shown(d) = [darts |-> d.darts + darts, hits |-> d.hits + hits, score |-> score]
    BY <1>1, <1>5, ShownIs
  <2>4. score = d.score
    <3>1. Value(d) \in Nat /\ d.score \in Int
      <4>1. Len(Targets) \in Nat /\ d.index < Len(Targets) /\ d.score \in Int
        BY <1>1, <1>5, TargetsAre DEF Sound, EndsWell, Typed
      <4>2. d.index + 1 \in 1..Len(Targets)
        BY <1>3, <4>1
      <4>3. RoundNumber(d) \in Nat
        BY <4>2, TargetsAre DEF RoundNumber
      <4> QED BY <4>1, <4>3 DEF Value
    <3>2. \A v \in Nat : 0 * v = 0
      OBVIOUS
    <3>3. hits * Value(d) = 0
      BY <2>2, <3>1, <3>2
    <3> HIDE DEF hits
    <3> QED BY <3>1, <3>3
  <2> HIDE DEF hits, darts, score
  <2>5. d.darts + darts = d.darts /\ d.hits + hits = d.hits
    BY <1>3, <2>2
  <2> QED BY <2>3, <2>4, <2>5
<1>6. ASSUME d.kind = "checkout"
      PROVE  Shown(d) = [remaining |-> d.start, outcome |-> "none"]
  <2>1. CheckoutNow(d).outcome = "none" /\ CheckoutNow(d).remaining = d.start
    BY <1>1, <1>2, CheckoutNowIs
  <2>2. Shown(d) = [remaining |-> CheckoutNow(d).remaining, outcome |-> CheckoutNow(d).outcome]
    BY <1>1, <1>6, ShownIs
  <2> QED BY <2>1, <2>2
<1> QED BY <1>4, <1>5, <1>6

\* With nothing thrown after it, a game that was finished stays as it was booked.
LEMMA QuietFollow ==
    ASSUME NEW d, Sound(d)
    PROVE  SameGame(Follow(d, <<>>), d)
<1> DEFINE seen == [d EXCEPT !.visit = <<>>, !.skip = Least(d.skip, Len(<<>>))]
           new == Reset(seen, 0, d.target)
           starts == seen.finished /\ Thrown(seen) # <<>>
<1>1. Typed(d) /\ EndsWell(d) /\ d.skip \in Nat /\ d.announced \in BOOLEAN
      /\ Len(<<>>) = 0 /\ <<>> \in Seq(Dart)
  BY EmptySeq DEF Sound, Typed
<1>2. /\ SameGame(seen, d) /\ seen.visit = <<>> /\ seen.announced = d.announced
      /\ seen.skip = Least(d.skip, Len(<<>>))
  BY <1>1 DEF SameGame, Typed, DrillFields
<1>3. Follow(d, <<>>) = IF starts THEN new ELSE seen
  BY DEF Follow
<1> HIDE DEF seen
<1>4. seen.skip \in Nat
  BY <1>1, <1>2 DEF Least
<1>5. Typed(seen)
  BY <1>1, <1>2, <1>4, VisitChanges
<1>6. Thrown(seen) = <<>>
  BY <1>1, <1>2, <1>4, <1>5, ThrownIs
<1>7. Follow(d, <<>>) = seen
  BY <1>3, <1>6
<1> QED BY <1>2, <1>7

\* Finishing books the visit, and clears it.
LEMMA FinishBooks ==
    ASSUME NEW d, Sound(d), Books(d), NEW pick \in CheckoutScores
    PROVE  LET done == Finish(d, pick)
           IN  /\ IsTarget(d) => SameGame(done.drill, BookTarget(d, pick).drill)
               /\ d.kind = "bobs_27" => SameGame(done.drill, BookBobs(d, pick).drill)
               /\ d.kind = "checkout" => /\ SameGame(done.drill, BookCheckout(d, pick).drill)
                                         /\ done.result = BookCheckout(d, pick).result
<1> DEFINE booked == IF ~Books(d) THEN Open(d)
                     ELSE IF IsTarget(d) THEN BookTarget(d, pick)
                     ELSE IF d.kind = "bobs_27" THEN BookBobs(d, pick)
                     ELSE BookCheckout(d, pick)
           done == [booked EXCEPT !.drill.visit = <<>>, !.drill.skip = 0, !.drill.announced = FALSE]
<1>1. Finish(d, pick) = done
  BY DEF Finish
<1>2. ~d.finished
  BY DEF Books
<1>3. ASSUME NEW b, DOMAIN b = BookFields, DOMAIN b.drill = DrillFields
      PROVE  LET c == [b EXCEPT !.drill.visit = <<>>, !.drill.skip = 0, !.drill.announced = FALSE]
             IN  SameGame(c.drill, b.drill) /\ c.result = b.result
  BY <1>3 DEF SameGame, BookFields, DrillFields
<1>4. ASSUME NEW b, Booked(d, b), done = [b EXCEPT !.drill.visit = <<>>, !.drill.skip = 0,
                                                  !.drill.announced = FALSE]
      PROVE  SameGame(done.drill, b.drill) /\ done.result = b.result
  <2>1. DOMAIN b = BookFields /\ DOMAIN b.drill = DrillFields
    BY <1>4 DEF Booked, Typed
  <2> HIDE DEF done
  <2> QED BY <1>3, <1>4, <2>1
<1>5. ASSUME IsTarget(d)
      PROVE  SameGame(done.drill, BookTarget(d, pick).drill)
  <2>1. booked = BookTarget(d, pick)
    BY <1>5
  <2>2. Booked(d, booked)
    BY <1>2, <1>5, <2>1, BookTargetKeeps
  <2> HIDE DEF booked
  <2> QED BY <1>4, <2>1, <2>2
<1>6. ASSUME d.kind = "bobs_27"
      PROVE  SameGame(done.drill, BookBobs(d, pick).drill)
  <2>1. booked = BookBobs(d, pick)
    BY <1>6 DEF IsTarget, TargetDrills
  <2>2. Booked(d, booked)
    BY <1>2, <1>6, <2>1, BookBobsKeeps
  <2> HIDE DEF booked
  <2> QED BY <1>4, <2>1, <2>2
<1>7. ASSUME d.kind = "checkout"
      PROVE  /\ SameGame(done.drill, BookCheckout(d, pick).drill)
             /\ done.result = BookCheckout(d, pick).result
  <2>1. booked = BookCheckout(d, pick)
    BY <1>7 DEF IsTarget, TargetDrills
  <2>2. Booked(d, booked)
    BY <1>2, <1>7, <2>1, BookCheckoutKeeps
  <2> HIDE DEF booked
  <2> QED BY <1>4, <2>1, <2>2
<1> QED BY <1>1, <1>5, <1>6, <1>7

\* The index goes up as often as a dart moves it.
LEMMA MovesAre ==
    ASSUME NEW d, Typed(d)
    PROVE  Cardinality({i \in 1..Len(Beds(d)) : Indexes(d)[i] # Indexes(d)[i - 1]})
             = Indexes(d)[Len(Beds(d))] - d.index
<1> DEFINE n == Len(Beds(d))
           f == Indexes(d)
           moves(j) == {i \in 1..j : f[i] # f[i - 1]}
           T == {j \in 0..n : IsFiniteSet(moves(j)) /\ Cardinality(moves(j)) = f[j] - d.index}
<1>1. n \in Nat /\ d.index \in Nat
  <2>1. Len(Targets) \in Nat
    BY TargetsAre
  <2> QED BY <2>1, ThrownIs DEF Typed
<1>2. /\ \A i \in 0..n : f[i] \in Int
      /\ \A i \in 1..n : f[i] = f[i - 1] \/ f[i] = f[i - 1] + 1
      /\ f[0] = d.index
  <2>1. \A i \in 0..n : f[i] \in d.index..Len(Targets)
    BY IndexesGrow
  <2>2. \A i \in 1..n : f[i] = f[i - 1] \/ f[i] = f[i - 1] + 1
    BY IndexesGrow
  <2>3. f[0] = d.index
    BY IndexesAre DEF Runs
  <2> HIDE DEF n, f
  <2> QED BY <2>1, <2>2, <2>3
<1> HIDE DEF n, f
<1>3. 0 \in T
  <2>1. moves(0) = {}
    OBVIOUS
  <2>2. f[0] - d.index = 0 /\ 0 \in 0..n
    BY <1>1, <1>2
  <2> HIDE DEF moves
  <2> QED BY <2>1, <2>2, FS_EmptySet
<1>4. ASSUME NEW j \in 1..n, j - 1 \in T
      PROVE  j \in T
  <2>1. /\ j \in 0..n /\ j - 1 \in 0..n /\ f[j] \in Int /\ f[j - 1] \in Int
        /\ f[j] = f[j - 1] \/ f[j] = f[j - 1] + 1
    <3>1. j \in 0..n /\ j - 1 \in 0..n
      BY <1>1
    <3> QED BY <1>2, <3>1
  <2>2. IsFiniteSet(moves(j - 1)) /\ Cardinality(moves(j - 1)) = f[j - 1] - d.index
    BY <1>4
  <2>3. /\ j \notin moves(j - 1)
        /\ f[j] = f[j - 1] => moves(j) = moves(j - 1)
        /\ f[j] # f[j - 1] => moves(j) = moves(j - 1) \cup {j}
    <3>1. 1..j = (1..(j - 1)) \cup {j} /\ j \notin 1..(j - 1)
      BY <1>1
    <3> QED BY <3>1
  <2>4. IsFiniteSet(moves(j)) /\ Cardinality(moves(j)) = f[j] - d.index
    <3> HIDE DEF moves, T
    <3>1. CASE f[j] = f[j - 1]
      BY <2>2, <2>3, <3>1
    <3>2. CASE f[j] # f[j - 1]
      <4>1. /\ IsFiniteSet(moves(j - 1) \cup {j})
            /\ Cardinality(moves(j - 1) \cup {j}) = Cardinality(moves(j - 1)) + 1
        BY <2>2, <2>3, FS_AddElement
      <4>2. f[j] = f[j - 1] + 1
        BY <2>1, <3>2
      <4>3. moves(j) = moves(j - 1) \cup {j}
        BY <2>3, <3>2
      <4>4. IsFiniteSet(moves(j)) /\ Cardinality(moves(j)) = Cardinality(moves(j - 1)) + 1
        BY <4>1, <4>3
      <4> QED BY <1>1, <2>1, <2>2, <4>2, <4>4
    <3> QED BY <3>1, <3>2
  <2> QED BY <2>1, <2>4
<1>5. \A j \in 0..n : j \in T
  <2> HIDE DEF T
  <2> QED BY <1>1, <1>3, <1>4, UpTo
<1>6. n \in 0..n
  BY <1>1
<1>7. Cardinality(moves(n)) = f[n] - d.index
  BY <1>5, <1>6
<1> QED BY <1>7 DEF n, f

\* Every dart at a double is an attempt, and every hit a dart at it.
LEMMA AttemptsAre ==
    ASSUME NEW d, Sound(d), ~d.finished, d.kind \in {"doubles", "bobs_27"}
    PROVE  LET tries == DoubleAttempts(d)
               hits == Cardinality({i \in DOMAIN tries : tries[i]})
           IN  /\ d.kind = "doubles" => /\ Len(tries) = Progress(d).darts
                                        /\ hits = Progress(d).index - d.index
               /\ d.kind = "bobs_27" => /\ Len(tries) = Len(Thrown(d))
                                        /\ hits = VisitHits(d)
<1> DEFINE beds == Beds(d)
           n == Len(beds)
           t == Len(Targets)
           f == Indexes(d)
           index == IF d.kind = "doubles" THEN f ELSE [i \in 0..n |-> d.index]
           aimed == {i \in DOMAIN beds : index[i - 1] < t}
           try(i) == beds[i].multiplier = 2 /\ beds[i].number = Targets[index[i - 1] + 1]
           tries == DoubleAttempts(d)
           k == IF d.kind = "doubles" THEN Progress(d).darts ELSE n
<1>1. Typed(d) /\ EndsWell(d)
  BY DEF Sound
<1>2. tries = [i \in 1..Cardinality(aimed) |-> try(i)]
  BY DEF DoubleAttempts
<1>3. /\ n \in Nat /\ DOMAIN beds = 1..n /\ t \in Nat /\ d.index \in 0..t /\ d.index < t
      /\ Len(Thrown(d)) = n
  <2>1. d.index \in 0..t /\ t \in Nat
    BY <1>1, TargetsAre DEF Typed
  <2>2. d.index < t
    BY <1>1, <2>1 DEF EndsWell, IsTarget, TargetDrills
  <2>3. n = Len(Thrown(d)) /\ DOMAIN beds = 1..Len(Thrown(d)) /\ Len(Thrown(d)) \in Nat
    BY <1>1, ThrownIs
  <2> HIDE DEF n, beds
  <2> QED BY <2>1, <2>2, <2>3
<1>4. Progress(d).darts \in 0..n /\ (\A i \in 1..n : f[i - 1] < t <=> i <= Progress(d).darts)
      /\ Progress(d).index = f[n]
  BY <1>1, <1>3, ProgressIs
<1>5. \A i \in 1..n : Advances(d, f, i)
  BY <1>1, IndexesAre DEF Runs
<1>6. \A i \in 1..n : beds[i].number \in Nat /\ beds[i].multiplier \in 0..3
  BY <1>1, ThrownIs, BedsAre
<1>7. f \in [0..n -> 0..t]
  BY <1>1, IndexesAre DEF Runs
<1>8. \A i \in 1..n : beds[i] = Beds(d)[i]
  OBVIOUS
<1> HIDE DEF n, beds, t, f
<1>9. aimed = 1..k /\ k \in Nat /\ k <= n
  <2>1. CASE d.kind = "doubles"
    <3>1. \A i \in 1..n : i \in aimed <=> i <= k
      BY <1>3, <1>4, <2>1
    <3>2. k \in 0..n
      BY <1>4, <2>1
    <3>3. aimed \subseteq 1..n
      BY <1>3
    <3> HIDE DEF aimed, k
    <3>4. k \in Nat /\ k <= n /\ \A i \in 1..k : i \in 1..n /\ i <= k
      BY <1>3, <3>2
    <3>5. \A i \in 1..n : i <= k => i \in 1..k
      BY <1>3, <3>4
    <3>6. aimed = 1..k
      BY <3>1, <3>3, <3>4, <3>5
    <3> QED BY <3>4, <3>6
  <2>2. CASE d.kind # "doubles"
    <3>1. \A i \in 1..n : i - 1 \in 0..n
      BY <1>3
    <3>2. \A i \in 1..n : index[i - 1] = d.index
      BY <2>2, <3>1
    <3>3. aimed = 1..n
      <4> HIDE DEF index
      <4> QED BY <1>3, <3>2
    <3>4. k = n
      BY <2>2
    <3> HIDE DEF aimed, k
    <3> QED BY <1>3, <3>3, <3>4
  <2> QED BY <2>1, <2>2
<1>10. Cardinality(aimed) = k
  <2> HIDE DEF k, aimed
  <2>1. 1 \in Int /\ k \in Int /\ (1 > k => k = 0) /\ k - 1 + 1 = k
    BY <1>9
  <2>2. Cardinality(1..k) = IF 1 > k THEN 0 ELSE k - 1 + 1
    BY <2>1, FS_Interval
  <2> QED BY <1>9, <2>1, <2>2
<1>11. \A i \in 1..k : try(i) \in BOOLEAN
  OBVIOUS
<1> DEFINE hit == {i \in 1..k : try(i)}
<1>12. Len(tries) = k /\ {i \in DOMAIN tries : tries[i]} = hit
  <2> HIDE DEF k, aimed
  <2>1. tries = [i \in 1..k |-> try(i)]
    BY <1>2, <1>10
  <2>2. tries \in [1..k -> BOOLEAN] /\ DOMAIN tries = 1..k
    BY <1>11, <2>1
  <2>3. tries \in Seq(BOOLEAN)
    BY <1>9, <2>2, SeqDef
  <2>4. Len(tries) = k
    BY <1>9, <2>2, <2>3, LenProperties
  <2>5. \A i \in 1..k : tries[i] = try(i)
    BY <2>1
  <2> HIDE DEF tries
  <2> QED BY <2>2, <2>4, <2>5
<1>13. \A i \in 1..t : Targets[i] \in Nat \ {0}
  BY TargetsAre DEF t
<1>14. ASSUME d.kind = "doubles"
       PROVE  Cardinality(hit) = Progress(d).index - d.index
  <2> DEFINE moves == {i \in 1..n : f[i] # f[i - 1]}
  <2>1. Cardinality(moves) = f[n] - d.index
    BY <1>1, MovesAre DEF n, f, beds
  <2>2. index = f /\ k = Progress(d).darts
    BY <1>14
  <2>3. \A i \in 1..n : (i <= k /\ try(i)) <=> f[i] # f[i - 1]
    <3> HIDE DEF index, k
    <3> TAKE i \in 1..n
    <3>1. i - 1 \in 0..n /\ i \in 0..n /\ f[i - 1] \in 0..t /\ f[i] \in 0..t
      <4>1. i - 1 \in 0..n /\ i \in 0..n
        BY <1>3
      <4> QED BY <1>7, <4>1
    <3>2. f[i] = IF f[i - 1] < t /\ Hit(d, beds[i], Targets[f[i - 1] + 1])
                 THEN f[i - 1] + 1 ELSE f[i - 1]
      BY <1>5 DEF Advances, t, beds
    <3>3. f[i] # f[i - 1] <=> f[i - 1] < t /\ Hit(d, beds[i], Targets[f[i - 1] + 1])
      BY <3>1, <3>2
    <3>4. f[i - 1] < t <=> i <= k
      BY <1>4, <2>2
    <3>5. ASSUME f[i - 1] < t
          PROVE  Hit(d, beds[i], Targets[f[i - 1] + 1]) <=> try(i)
      <4>1. f[i - 1] + 1 \in 1..t
        BY <1>3, <3>1, <3>5
      <4>2. Targets[f[i - 1] + 1] \in Nat \ {0}
        BY <1>13, <4>1
      <4>3. beds[i].number \in Nat /\ beds[i].multiplier \in 0..3
        BY <1>6
      <4> QED BY <1>14, <2>2, <4>2, <4>3 DEF Hit, IsDouble
    <3> HIDE DEF try
    <3> QED BY <3>3, <3>4, <3>5
  <2>4. hit = moves
    <3>1. \A i \in 1..k : i \in 1..n /\ i <= k
      BY <1>3, <1>9
    <3>2. \A i \in 1..n : i <= k => i \in 1..k
      BY <1>3, <1>9
    <3> HIDE DEF k, try
    <3> QED BY <2>3, <3>1, <3>2
  <2> HIDE DEF hit, moves
  <2> QED BY <1>4, <2>1, <2>4
<1>15. ASSUME d.kind = "bobs_27"
       PROVE  Cardinality(hit) = VisitHits(d)
  <2>1. k = n /\ index = [i \in 0..n |-> d.index]
    BY <1>15
  <2>2. \A i \in 1..n : i - 1 \in 0..n
    BY <1>3
  <2>3. d.index + 1 \in 1..t
    BY <1>3
  <2>4. RoundNumber(d) = Targets[d.index + 1] /\ Targets[d.index + 1] \in Nat \ {0}
    BY <1>13, <2>3 DEF RoundNumber
  <2>5. \A i \in 1..n : index[i - 1] = d.index
    <3> HIDE DEF index
    <3> QED BY <2>1, <2>2
  <2>6. \A i \in 1..n : try(i) <=> beds[i].number = RoundNumber(d) /\ IsDouble(beds[i])
    <3> HIDE DEF index
    <3> QED BY <2>4, <2>5 DEF IsDouble
  <2>7. hit = {i \in DOMAIN beds : beds[i].number = RoundNumber(d) /\ IsDouble(beds[i])}
    <3> HIDE DEF k, try
    <3> QED BY <1>3, <2>1, <2>6
  <2>8. VisitHits(d) = Cardinality({i \in DOMAIN beds : beds[i].number = RoundNumber(d) /\ IsDouble(beds[i])})
    BY DEF VisitHits, beds
  <2> HIDE DEF hit
  <2> QED BY <2>7, <2>8
<1>16. d.kind = "doubles" => k = Progress(d).darts
  OBVIOUS
<1>17. d.kind = "bobs_27" => k = n
  OBVIOUS
<1> HIDE DEF k, hit, tries
<1> QED BY <1>3, <1>12, <1>14, <1>15, <1>16, <1>17 DEF tries

\* Pulling the darts of a visit.
LEMMA PulledIs ==
    ASSUME IInv, Complete, chosen, Books(drill), board' = <<>>
    PROVE  \E pick \in CheckoutScores :
             LET done == Finish(drill, pick)
             IN  /\ SameGame(drill', done.drill) /\ Sound(drill') /\ drill'.visit = <<>>
                 /\ tried' = DoubleAttempts(drill)
<1>1. PICK pick \in CheckoutScores, visit \in {<<>>} \cup {<<New(b)>> : b \in DrillBeds[drill.kind]} :
         /\ board' = visit
         /\ IF chosen
            THEN LET done == Finish(drill, pick)
                 IN  /\ drill' = Track(done.drill, visit)
                     /\ recorded' = IF done.result = NoResult THEN recorded ELSE done.result
                     /\ tried' = DoubleAttempts(drill)
                     /\ Tell(done.drill, visit, done.tells)
                     /\ stale' = FALSE
            ELSE tried' = <<>> /\ UNCHANGED <<drill, recorded, ends, stale>>
  BY DEF Complete
<1> DEFINE done == Finish(drill, pick)
           d == done.drill
<1>2. drill' = Track(d, <<>>) /\ tried' = DoubleAttempts(drill)
  BY <1>1
<1>3. Sound(d)
  BY FinishKeeps DEF IInv
<1> HIDE DEF d, done
<1>4. <<>> \in Seq(Dart) /\ EarlyOk(d, <<>>)
  BY EmptySeq DEF EarlyOk
<1>5. Sound(drill') /\ drill'.visit = <<>> /\ SameGame(drill', Follow(d, <<>>))
  BY <1>2, <1>3, <1>4, TrackKeeps
<1>6. SameGame(drill', d)
  BY <1>3, <1>5, QuietFollow DEF SameGame
<1> QED BY <1>2, <1>5, <1>6 DEF d, done

\* The card and the attempts are booked as they were shown.
LEMMA BookingShows ==
    ASSUME IInv, Complete, chosen, Books(drill), board' = <<>>
    PROVE  /\ IsTarget(drill) => Shown(drill') = Shown(drill)
           /\ drill.kind = "bobs_27" =>
                [Shown(drill') EXCEPT !.score = 0] = [Shown(drill) EXCEPT !.score = 0]
           /\ drill.kind = "checkout" /\ drill'.attempts = drill.attempts =>
                Shown(drill') = Shown(drill)
           /\ drill.kind \in {"doubles", "bobs_27"} =>
                /\ Len(tried') = drill'.darts - drill.darts
                /\ Cardinality({i \in DOMAIN tried' : tried'[i]}) = drill'.hits - drill.hits
<1>1. PICK pick \in CheckoutScores :
             LET done == Finish(drill, pick)
             IN  /\ SameGame(drill', done.drill) /\ Sound(drill') /\ drill'.visit = <<>>
                 /\ tried' = DoubleAttempts(drill)
  BY PulledIs
<1> DEFINE done == Finish(drill, pick)
           d == done.drill
<1>2. /\ SameGame(drill', d) /\ Sound(drill') /\ drill'.visit = <<>>
      /\ tried' = DoubleAttempts(drill)
  BY <1>1
<1>3. /\ Sound(drill) /\ Typed(drill) /\ drill.kind \in DrillKinds /\ ~drill.finished
  BY FinishesAre DEF IInv, Sound, Typed, Books
<1>4. /\ IsTarget(drill) => SameGame(d, BookTarget(drill, pick).drill)
      /\ drill.kind = "bobs_27" => SameGame(d, BookBobs(drill, pick).drill)
      /\ drill.kind = "checkout" => SameGame(d, BookCheckout(drill, pick).drill)
  BY <1>3, FinishBooks
<1> HIDE DEF d, done
<1>5. drill.darts \in Nat /\ drill.hits \in Nat /\ drill.index \in Nat
  <2>1. Len(Targets) \in Nat
    BY TargetsAre
  <2> QED BY <1>3, <2>1 DEF Typed
<1>6. Progress(drill).index \in Nat /\ Progress(drill).darts \in Nat
  <2>1. /\ Progress(drill).index \in drill.index..Len(Targets)
        /\ Progress(drill).darts \in 0..Len(Beds(drill))
    BY <1>3, ProgressIs
  <2> QED BY <1>5, <2>1
<1>7. VisitHits(drill) \in Nat /\ Len(Thrown(drill)) \in Nat
  <2>1. VisitHits(drill) \in 0..Len(Thrown(drill)) /\ Len(Thrown(drill)) \in Nat
    BY <1>3, VisitHitsAre, ThrownIs
  <2> QED BY <2>1
<1>8. ASSUME IsTarget(drill)
      PROVE  /\ drill'.index = Progress(drill).index
             /\ drill'.hits = drill.hits + Progress(drill).index - drill.index
             /\ drill'.darts = drill.darts + Progress(drill).darts
             /\ IsTarget(drill')
  <2> DEFINE n == BookTarget(drill, pick).drill
  <2>1. /\ NoCheckout(n, drill)
        /\ n.hits = drill.hits + Progress(drill).index - drill.index
        /\ n.darts = drill.darts + Progress(drill).darts /\ n.index = Progress(drill).index
    BY <1>3, BookTargetIs
  <2>2. SameGame(d, n)
    BY <1>4, <1>8
  <2> HIDE DEF n
  <2> QED BY <1>2, <1>8, <2>1, <2>2 DEF SameGame, NoCheckout, IsTarget
<1>9. ASSUME drill.kind = "bobs_27"
      PROVE  /\ drill'.hits = drill.hits + VisitHits(drill)
             /\ drill'.darts = drill.darts + Len(Thrown(drill))
             /\ drill'.kind = "bobs_27"
  <2> DEFINE n == BookBobs(drill, pick).drill
  <2>1. /\ NoCheckout(n, drill) /\ n.hits = drill.hits + VisitHits(drill)
        /\ n.darts = drill.darts + Len(Thrown(drill))
    BY <1>3, BookBobsIs
  <2>2. SameGame(d, n)
    BY <1>4, <1>9
  <2> HIDE DEF n
  <2> QED BY <1>2, <1>9, <2>1, <2>2 DEF SameGame, NoCheckout
<1>10. ASSUME IsTarget(drill)
       PROVE  Shown(drill') = Shown(drill)
  <2>1. Shown(drill) = [progress |-> Progress(drill).index,
                        darts |-> drill.darts + Progress(drill).darts,
                        hits |-> drill.hits + Progress(drill).index - drill.index]
    BY <1>3, <1>10, ShownIs
  <2>2. Shown(drill') = [progress |-> drill'.index, darts |-> drill'.darts, hits |-> drill'.hits]
    BY <1>2, <1>8, <1>10, EmptyShows
  <2> QED BY <1>8, <1>10, <2>1, <2>2
<1>11. ASSUME drill.kind = "bobs_27"
       PROVE  [Shown(drill') EXCEPT !.score = 0] = [Shown(drill) EXCEPT !.score = 0]
  <2> DEFINE hits == IF drill.finished THEN 0 ELSE VisitHits(drill)
             darts == IF drill.finished THEN 0 ELSE Len(Thrown(drill))
             score == drill.score + hits * Value(drill)
  <2>1. Shown(drill) = [darts |-> drill.darts + darts, hits |-> drill.hits + hits, score |-> score]
    BY <1>3, <1>11, ShownIs
  <2>2. hits = VisitHits(drill) /\ darts = Len(Thrown(drill))
    BY <1>3
  <2>3. [Shown(drill') EXCEPT !.score = 0]
          = [darts |-> drill'.darts, hits |-> drill'.hits, score |-> 0]
    BY <1>2, <1>9, <1>11, EmptyShows
  <2> HIDE DEF hits, darts, score
  <2>4. drill'.darts = drill.darts + darts /\ drill'.hits = drill.hits + hits
    BY <1>9, <1>11, <2>2
  <2>5. [Shown(drill) EXCEPT !.score = 0]
          = [darts |-> drill.darts + darts, hits |-> drill.hits + hits, score |-> 0]
    BY <2>1
  <2> QED BY <2>3, <2>4, <2>5
<1>12. ASSUME drill.kind = "checkout", drill'.attempts = drill.attempts
       PROVE  Shown(drill') = Shown(drill)
  <2> DEFINE n == BookCheckout(drill, pick).drill
             now == CheckoutNow(drill)
  <2>1. OnlyCheckout(n, drill) /\ (GoesOn(drill, n) \/ AttemptOver(drill, n, pick))
    BY <1>3, BookCheckoutIs
  <2>2. SameGame(d, n)
    BY <1>4, <1>12
  <2> HIDE DEF n
  <2>3. n.attempts = drill.attempts
    BY <1>2, <1>12, <2>2 DEF SameGame
  <2>4. GoesOn(drill, n)
    <3>1. drill.attempts \in Nat
      BY <1>3 DEF Typed
    <3>2. n.attempts # drill.attempts + 1
      BY <2>3, <3>1
    <3> QED BY <2>1, <3>2 DEF AttemptOver
  <2>5. drill'.start = now.remaining /\ now.outcome = "none" /\ drill'.kind = "checkout"
    BY <1>2, <1>12, <2>1, <2>2, <2>4 DEF GoesOn, OnlyCheckout, SameGame
  <2>6. Shown(drill') = [remaining |-> drill'.start, outcome |-> "none"]
    BY <1>2, <2>5, EmptyShows
  <2>7. Shown(drill) = [remaining |-> now.remaining, outcome |-> now.outcome]
    BY <1>3, <1>12, ShownIs
  <2> QED BY <2>5, <2>6, <2>7
<1>13. ASSUME drill.kind \in {"doubles", "bobs_27"}
       PROVE  /\ Len(tried') = drill'.darts - drill.darts
              /\ Cardinality({i \in DOMAIN tried' : tried'[i]}) = drill'.hits - drill.hits
  <2> DEFINE tries == DoubleAttempts(drill)
             hits == Cardinality({i \in DOMAIN tries : tries[i]})
  <2>1. /\ drill.kind = "doubles" => /\ Len(tries) = Progress(drill).darts
                                     /\ hits = Progress(drill).index - drill.index
        /\ drill.kind = "bobs_27" => /\ Len(tries) = Len(Thrown(drill))
                                     /\ hits = VisitHits(drill)
    BY <1>3, <1>13, AttemptsAre
  <2>2. Len(tried') = Len(tries) /\ Cardinality({i \in DOMAIN tried' : tried'[i]}) = hits
    BY <1>2
  <2> HIDE DEF tries, hits
  <2>3. CASE drill.kind = "doubles"
    <3>1. IsTarget(drill)
      BY <2>3 DEF IsTarget, TargetDrills
    <3> QED BY <1>5, <1>6, <1>8, <2>1, <2>2, <2>3, <3>1
  <2>4. CASE drill.kind = "bobs_27"
    BY <1>5, <1>7, <1>9, <2>1, <2>2, <2>4
  <2> QED BY <1>13, <2>3, <2>4
<1> QED BY <1>10, <1>11, <1>12, <1>13

-----------------------------------------------------------------------------
(* The results.                                                            *)

\* A training game stays sound: typed, over exactly when its targets or its
\* score say so, and skipping every dart thrown before it was chosen.
THEOREM DrillStaysSound == Spec => []IInv
<1>1. Init => IInv
  BY InitHolds
<1>2. IInv /\ [Next]_vars => IInv'
  BY NextKeeps
<1> QED BY <1>1, <1>2, PTL DEF Spec

\* Targets are hit one by one, and an attempt at a checkout (drills.py:337) is
\* open only with a score that a double can still finish and a visit left.
THEOREM AttemptsStayOpen == Spec => []TypeOK
<1>1. IInv => TypeOK
  <2> SUFFICES ASSUME IInv
               PROVE  TypeOK
    OBVIOUS
  <2>1. Typed(drill)
    BY DEF IInv, Sound
  <2>2. {drill.finished, drill.announced, chosen, stale} \subseteq BOOLEAN
    BY <2>1 DEF IInv, Typed
  <2>3. drill.visits < CheckoutVisits /\ drill.hits <= drill.darts /\ drill.successes <= drill.attempts
    BY <2>1, FinishesAre DEF Typed
  <2> QED BY <2>1, <2>2, <2>3 DEF TypeOK, IInv, Typed
<1> QED BY <1>1, DrillStaysSound, PTL

\* A target game is over exactly when its last target was hit, a Bob's 27 when it
\* is below zero, at the latest after its last round (BobsDrill._book), and the
\* checkout training never; whatever is over was announced.
THEOREM EndsAreTold == Spec => []EndIsTold
<1>1. IInv => EndIsTold
  BY DEF IInv, EndIsTold, Sound, EndsWell
<1> QED BY <1>1, DrillStaysSound, PTL

\* A game that is over shows the result it recorded until a dart is thrown
\* (drills.py:4), whatever is played, forgotten or restored in between.
THEOREM ResultStays == Spec => []ResultIsShown
<1>1. IInv => ResultIsShown
  <2> SUFFICES ASSUME IInv, drill.finished
               PROVE  /\ Shown(drill).darts = recorded.darts
                      /\ Shown(drill).hits = recorded.hits
                      /\ drill.kind = "bobs_27" => Shown(drill).score = recorded.score
    BY DEF ResultIsShown
  <2>1. Sound(drill) /\ drill.visit = <<>> /\ recorded = Outcome(drill) /\ drill.kind \in DrillKinds
    BY FinishesAre DEF IInv, Sound, Rests, Typed
  <2>2. drill.kind # "checkout"
    BY <2>1 DEF Sound, EndsWell
  <2>3. CASE IsTarget(drill)
    <3>1. drill.kind # "bobs_27"
      BY <2>3 DEF IsTarget, TargetDrills
    <3>2. Shown(drill) = [progress |-> drill.index, darts |-> drill.darts, hits |-> drill.hits]
      BY <2>1, <2>3, EmptyShows
    <3>3. recorded = [darts |-> drill.darts, hits |-> drill.hits]
      BY <2>1, <3>1 DEF Outcome, Summary
    <3> QED BY <3>1, <3>2, <3>3
  <2>4. CASE drill.kind = "bobs_27"
    <3>1. Shown(drill) = [darts |-> drill.darts, hits |-> drill.hits, score |-> drill.score]
      BY <2>1, <2>4, EmptyShows
    <3>2. recorded = [darts |-> drill.darts, hits |-> drill.hits, score |-> drill.score]
      BY <2>1, <2>4 DEF Outcome
    <3> QED BY <3>1, <3>2
  <2> QED BY <2>1, <2>2, <2>3, <2>4 DEF DrillKinds, IsTarget
<1> QED BY <1>1, DrillStaysSound, PTL

\* Darts thrown before the game was chosen never count in it (drills.py:62).
THEOREM NoEarlyDartCounts == Spec => []EarlyNeverCounts
<1>1. IInv => EarlyNeverCounts
  <2> SUFFICES ASSUME IInv, chosen, ~stale, NEW i \in DOMAIN Thrown(drill), Thrown(drill)[i].early
               PROVE  FALSE
    BY DEF EarlyNeverCounts
  <2>1. Typed(drill) /\ EarlyOk(drill, drill.visit)
    BY DEF IInv, Sound
  <2>2. drill.skip + i \in DOMAIN drill.visit /\ Thrown(drill)[i] = drill.visit[drill.skip + i]
        /\ i \in 1..Len(Thrown(drill)) /\ Len(Thrown(drill)) \in Nat
    BY <2>1, ThrownIs
  <2>3. drill.skip + i <= drill.skip
    BY <2>1, <2>2 DEF EarlyOk
  <2> QED BY <2>1, <2>2, <2>3 DEF Typed
<1> QED BY <1>1, DrillStaysSound, PTL

\* Pulling the darts books what the card showed: progress, darts and hits, the
\* score that an attempt has left, and every dart that was thrown at a double.
THEOREM DrillsAreBookedAsShown == Spec => BookedAsShown
<1> DEFINE A == Complete /\ chosen /\ Books(drill) /\ board' = <<>> =>
                  /\ IsTarget(drill) => Shown(drill') = Shown(drill)
                  /\ drill.kind = "bobs_27" =>
                       [Shown(drill') EXCEPT !.score = 0] = [Shown(drill) EXCEPT !.score = 0]
                  /\ drill.kind = "checkout" /\ drill'.attempts = drill.attempts =>
                       Shown(drill') = Shown(drill)
                  /\ drill.kind \in {"doubles", "bobs_27"} =>
                       /\ Len(tried') = drill'.darts - drill.darts
                       /\ Cardinality({i \in DOMAIN tried' : tried'[i]})
                            = drill'.hits - drill.hits
<1>1. IInv => A
  BY BookingShows
<1>2. IInv /\ [Next]_vars => [A]_vars
  BY <1>1
<1>3. Spec => [][A]_vars
  BY <1>2, DrillStaysSound, PTL DEF Spec
<1> QED BY <1>3, PTL DEF BookedAsShown

=============================================================================
