----------------------------- MODULE RulesProofs -----------------------------
(***************************************************************************)
(* What the rules of the games give, for every visit of darts, every       *)
(* number of players and every value of the constants.                     *)
(*                                                                         *)
(* The rules run through the darts of a visit with recursive functions.    *)
(* Recursion says that such a function has a value, UpTo that what each    *)
(* dart keeps holds after all of them; a lemma on one dart (CricketDartIs, *)
(* KillerDartIs) then gives the lemma on the visit.                        *)
(***************************************************************************)
EXTENDS Rules, FiniteSetTheorems, WellFoundedInduction, SequenceTheorems, TLAPS

\* Beds that darts may hit.
BedsOk(beds) == beds \in Seq([number : Nat, multiplier : 0..3])

PlayerType == [remaining : Nat, points : Nat, opened : BOOLEAN, legs : Nat, sets : Nat,
               marks : [CricketNumbers -> 0..MarksToClose]]

PartyType(S) == [points : [S -> Nat], hits : [S -> Nat], turns : Nat, numbers : [S -> Nat],
                 lives : [S -> Nat], killers : [S -> BOOLEAN]]

\* One to four seats.
SeatsAre(S) == \E k \in 1..4 : S = 0..(k - 1)

\* The seats are numbered from 0.
LEMMA SeatsParts ==
    ASSUME NEW S, SeatsAre(S)
    PROVE  /\ S \subseteq Nat /\ IsFiniteSet(S) /\ 0 \in S
           /\ Nobody \notin S /\ Tied \notin S
           /\ Cardinality(S) \in 1..4 /\ S = 0..(Cardinality(S) - 1)
<1>1. PICK k \in 1..4 : S = 0..(k - 1)
  BY DEF SeatsAre
<1>2. IsFiniteSet(S) /\ Cardinality(S) = k
  <2>1. 0 \in Int /\ k - 1 \in Int /\ ~(0 > k - 1) /\ (k - 1) - 0 + 1 = k
    OBVIOUS
  <2>2. IsFiniteSet(0..(k - 1)) /\ Cardinality(0..(k - 1)) = (k - 1) - 0 + 1
    BY ONLY <2>1, FS_Interval
  <2> QED BY <1>1, <2>1, <2>2
<1> QED BY <1>1, <1>2 DEF Nobody, Tied

\* Somebody still has to throw.
BullOffs(S) ==
    {b \in [players : SUBSET S, distances : UNION {[D -> Nat] : D \in SUBSET S}] :
        DOMAIN b.distances \subseteq b.players /\ DOMAIN b.distances # b.players}

-----------------------------------------------------------------------------
(* Recursion and sets of numbers.                                          *)

\* A set of numbers that goes on from 0 goes on to n.
LEMMA UpTo ==
    ASSUME NEW n \in Nat, NEW T, 0 \in T, \A i \in 1..n : i - 1 \in T => i \in T
    PROVE  \A i \in 0..n : i \in T
<1> DEFINE R == StrictSubsetOrdering(Nat)
           F == FiniteSubsetsOf(Nat)
           S == {0..i : i \in {j \in 0..n : j \notin T}}
<1> SUFFICES ASSUME NEW k \in 0..n, k \notin T
             PROVE  FALSE
  OBVIOUS
<1>1. IsWellFoundedOn(R, F)
  BY FS_StrictSubsetOrderingWellFounded
<1>2. S \subseteq F /\ S # {}
  <2>1. ASSUME NEW i \in 0..n
        PROVE  0..i \in F
    BY FS_Interval DEF FiniteSubsetsOf
  <2> QED BY <2>1
<1>3. \E x \in S : \A y \in S : ~ (<<y, x>> \in R)
  <2> HIDE DEF R, F, S
  <2> QED BY <1>1, <1>2, WFMin
<1>4. PICK i \in {j \in 0..n : j \notin T} : \A m \in {j \in 0..n : j \notin T} : ~ (<<0..m, 0..i>> \in R)
  BY <1>3
<1>5. i # 0 /\ i - 1 \in 0..n /\ i \in 1..n
  OBVIOUS
<1>6. i - 1 \notin T
  BY <1>5
<1>7. <<0..(i-1), 0..i>> \in R
  BY <1>5 DEF StrictSubsetOrdering
<1> QED BY <1>4, <1>5, <1>6, <1>7

\* Steps that keep a set, and what they lead to from a start.
Steps(n, S) == [(1..n) \X S -> S]

Leads(f, n, S, start, G) ==
    f \in [0..n -> S] /\ f[0] = start /\ \A i \in 1..n : f[i] = G[<<i, f[i - 1]>>]

\* A recursion over 0..n has a value.
LEMMA Recursion ==
    ASSUME NEW n \in Nat, NEW S, NEW start \in S, NEW G \in Steps(n, S)
    PROVE  \E f : Leads(f, n, S, start, G)
<1> USE DEF Steps, Leads
<1> DEFINE Upto(k, f) == /\ f \in [0..k -> S] /\ f[0] = start
                         /\ \A i \in 1..k : f[i] = G[<<i, f[i - 1]>>]
           T == {k \in 0..n : \E f : Upto(k, f)}
<1>1. 0 \in T
  <2>1. Upto(0, [i \in 0..0 |-> start])
    OBVIOUS
  <2>2. 0 \in 0..n
    OBVIOUS
  <2> HIDE DEF Upto
  <2> QED BY <2>1, <2>2
<1>2. ASSUME NEW k \in 1..n, k - 1 \in T
      PROVE  k \in T
  <2>1. PICK f : Upto(k - 1, f)
    <3> HIDE DEF Upto
    <3> QED BY <1>2
  <2> DEFINE g == [i \in 0..k |-> IF i = k THEN G[<<k, f[k - 1]>>] ELSE f[i]]
  <2>2. f[k - 1] \in S /\ G[<<k, f[k - 1]>>] \in S
    BY <2>1
  <2>3. g \in [0..k -> S]
    BY <2>1, <2>2
  <2>4. g[0] = start
    BY <2>1
  <2>5. ASSUME NEW i \in 1..k
        PROVE  g[i] = G[<<i, g[i - 1]>>]
    <3>1. CASE i = k
      <4>1. k - 1 \in 0..k /\ k - 1 # k /\ k \in 0..k
        OBVIOUS
      <4>2. g[k - 1] = f[k - 1] /\ g[k] = G[<<k, f[k - 1]>>]
        BY <4>1
      <4> QED BY <3>1, <4>2
    <3>2. CASE i # k
      <4>1. i \in 1..(k - 1) /\ i \in 0..k /\ i - 1 \in 0..k /\ i - 1 # k
        BY <3>2
      <4>2. g[i] = f[i] /\ g[i - 1] = f[i - 1]
        BY <3>2, <4>1
      <4> QED BY <2>1, <4>1, <4>2
    <3> QED BY <3>1, <3>2
  <2>6. Upto(k, g)
    BY <2>3, <2>4, <2>5
  <2>7. k \in 0..n
    OBVIOUS
  <2> HIDE DEF Upto
  <2> QED BY <2>6, <2>7
<1>3. n \in T
  <2> HIDE DEF T
  <2> QED BY <1>1, <1>2, UpTo
<1>4. PICK f : Upto(n, f)
  BY <1>3
<1> QED BY <1>4

\* A set of numbers has a first one.
LEMMA FirstIs ==
    ASSUME NEW S, S \subseteq Nat, S # {}
    PROVE  First(S) \in S /\ \A j \in S : First(S) <= j
<1> DEFINE P(i) == i \in S /\ \A j \in S : i <= j
<1>1. \E i \in S : \A j \in S : i <= j
  <2> SUFFICES ASSUME \A i \in S : \E j \in S : ~(i <= j)
               PROVE  FALSE
    OBVIOUS
  <2>1. PICK k \in S : TRUE
    OBVIOUS
  <2> DEFINE T == {i \in 0..k : \A j \in S : j > i}
  <2>2. 0 \in T
    OBVIOUS
  <2>3. ASSUME NEW i \in 1..k, i - 1 \in T
        PROVE  i \in T
    <3>1. \A j \in S : j >= i
      BY <2>3
    <3>2. i \notin S
      BY <3>1
    <3> QED BY <3>1, <3>2
  <2>4. k \in T
    <3> HIDE DEF T
    <3> QED BY <2>1, <2>2, <2>3, UpTo, SMTT(30)
  <2> QED BY <2>1, <2>4
<1> QED BY <1>1 DEF First

\* A sequence without one of its elements.
LEMMA WithoutIs ==
    ASSUME NEW S, NEW v \in Seq(S), NEW i \in 1..Len(v)
    PROVE  LET rest == SubSeq(v, 1, i - 1) \o SubSeq(v, i + 1, Len(v))
           IN  /\ rest \in Seq(S) /\ DOMAIN rest = 1..(Len(v) - 1)
               /\ \A j \in 1..(Len(v) - 1) : rest[j] = IF j <= i - 1 THEN v[j] ELSE v[j + 1]
<1> DEFINE n == Len(v)
           before == SubSeq(v, 1, i - 1)
           after == SubSeq(v, i + 1, n)
           rest == before \o after
<1>1. n \in Nat /\ i \in 1..n /\ \A j \in 1..n : v[j] \in S
  BY LenProperties, ElementOfSeq
<1> HIDE DEF n
<1>3. /\ before \in Seq(S) /\ Len(before) = i - 1
      /\ \A j \in 1..(i - 1) : before[j] = v[j]
  <2>1. /\ i - 1 \in Int /\ 1 \in Int /\ \A j \in 1..(i - 1) : v[j] \in S
    BY <1>1
  <2>2. /\ before \in Seq(S) /\ Len(before) = IF 1 <= i - 1 THEN (i - 1) - 1 + 1 ELSE 0
        /\ \A j \in 1..((i - 1) - 1 + 1) : before[j] = v[1 + j - 1]
    BY <2>1, SubSeqProperties
  <2>3. (i - 1) - 1 + 1 = i - 1 /\ \A j \in 1..(i - 1) : 1 + j - 1 = j
    BY <1>1
  <2> HIDE DEF before
  <2> QED BY <1>1, <2>2, <2>3
<1>4. /\ after \in Seq(S) /\ Len(after) = n - i
      /\ \A j \in 1..(n - i) : after[j] = v[i + j]
  <2>1. /\ i + 1 \in Int /\ n \in Int /\ \A j \in (i + 1)..n : v[j] \in S
    BY <1>1
  <2>2. /\ after \in Seq(S) /\ Len(after) = IF i + 1 <= n THEN n - (i + 1) + 1 ELSE 0
        /\ \A j \in 1..(n - (i + 1) + 1) : after[j] = v[(i + 1) + j - 1]
    BY <2>1, SubSeqProperties
  <2>3. n - (i + 1) + 1 = n - i /\ \A j \in 1..(n - i) : (i + 1) + j - 1 = i + j
    BY <1>1
  <2> HIDE DEF after
  <2> QED BY <1>1, <2>2, <2>3
<1> HIDE DEF before, after
<1>5. /\ rest \in Seq(S) /\ Len(rest) = n - 1 /\ DOMAIN rest = 1..(n - 1)
      /\ \A j \in 1..(n - 1) : rest[j] = IF j <= i - 1 THEN before[j] ELSE after[j - (i - 1)]
  <2>1. /\ rest \in Seq(S) /\ Len(rest) = Len(before) + Len(after)
        /\ \A j \in 1..(Len(before) + Len(after)) :
             rest[j] = IF j <= Len(before) THEN before[j] ELSE after[j - Len(before)]
    BY <1>3, <1>4, ConcatProperties
  <2>2. Len(before) + Len(after) = n - 1
    BY <1>1, <1>3, <1>4
  <2> HIDE DEF rest
  <2>3. DOMAIN rest = 1..Len(rest)
    BY <2>1, LenProperties
  <2> QED BY <1>3, <2>1, <2>2, <2>3
<1> HIDE DEF rest
<1>6. \A j \in 1..(n - 1) : rest[j] = IF j <= i - 1 THEN v[j] ELSE v[j + 1]
  <2> TAKE j \in 1..(n - 1)
  <2>1. CASE j <= i - 1
    BY <1>1, <1>3, <1>5, <2>1
  <2>2. CASE ~(j <= i - 1)
    <3>1. j - (i - 1) \in 1..(n - i) /\ i + (j - (i - 1)) = j + 1
      BY <1>1, <2>2
    <3> QED BY <1>4, <1>5, <2>2, <3>1
  <2> QED BY <2>1, <2>2
<1> QED BY <1>5, <1>6 DEF rest, before, after, n

-----------------------------------------------------------------------------
(* X01.                                                                    *)

\* Beds score.
LEMMA BedsAre ==
    ASSUME NEW beds, BedsOk(beds)
    PROVE  /\ Len(beds) \in Nat /\ DOMAIN beds = 1..Len(beds)
           /\ \A i \in 1..Len(beds) : /\ beds[i].number \in Nat /\ beds[i].multiplier \in 0..3
                                      /\ Score(beds[i]) \in Nat
<1>1. /\ Len(beds) \in Nat /\ DOMAIN beds = 1..Len(beds)
      /\ \A i \in 1..Len(beds) : beds[i] \in [number : Nat, multiplier : 0..3]
  BY LenProperties, ElementOfSeq DEF BedsOk
<1>2. \A b \in [number : Nat, multiplier : 0..3] :
         b.number \in Nat /\ b.multiplier \in 0..3 /\ Score(b) \in Nat
  BY DEF Score
<1> QED BY <1>1, <1>2

\* The points of darts are a number; of no darts, zero.
LEMMA PointsAreNumbers ==
    ASSUME NEW beds, NEW first \in Nat \ {0}, NEW last \in Nat, first - 1 <= last,
           \A i \in first..last : Score(beds[i]) \in Nat
    PROVE  /\ PointsOf(beds, first, last) \in Nat
           /\ last = first - 1 => PointsOf(beds, first, last) = 0
<1> DEFINE a == first - 1
           E(f) == f = [i \in a..last |-> IF i = a THEN 0 ELSE f[i - 1] + Score(beds[i])]
           n == last - a
           G == [p \in (1..n) \X Nat |-> p[2] + Score(beds[a + p[1]])]
<1>1. n \in Nat /\ a \in Nat
  OBVIOUS
<1>2. G \in [(1..n) \X Nat -> Nat]
  OBVIOUS
<1>3. PICK f \in [0..n -> Nat] : f[0] = 0 /\ \A i \in 1..n : f[i] = G[<<i, f[i - 1]>>]
  <2>1. G \in Steps(n, Nat)
    BY <1>2 DEF Steps
  <2>2. \E f : Leads(f, n, Nat, 0, G)
    <3> HIDE DEF n, G
    <3> QED BY <1>1, <2>1, Recursion
  <2> QED BY <2>2 DEF Leads
<1> DEFINE g == [i \in a..last |-> f[i - a]]
<1>4. E(g)
  <2>1. ASSUME NEW i \in a..last
        PROVE  g[i] = IF i = a THEN 0 ELSE g[i - 1] + Score(beds[i])
    <3>1. CASE i = a
      BY <1>1, <1>3, <3>1
    <3>2. CASE i # a
      <4>1. i - a \in 1..n /\ i - 1 \in a..last /\ (i - 1) - a = (i - a) - 1
        BY <1>1, <3>2
      <4>2. f[i - a] = G[<<i - a, f[(i - a) - 1]>>] /\ f[(i - a) - 1] \in Nat
        <5>1. i - a \in 0..n /\ i - a # 0 /\ (i - a) - 1 \in 0..n
          BY <1>1, <4>1
        <5>2. i - a \in 1..n
          BY <4>1
        <5> HIDE DEF n, G
        <5> QED BY <1>3, <5>1, <5>2
      <4>3. f[i - a] = f[(i - a) - 1] + Score(beds[i])
        <5>1. a + (i - a) = i
          BY <1>1
        <5> QED BY <4>1, <4>2, <5>1
      <4> QED BY <3>2, <4>1, <4>3
    <3> QED BY <3>1, <3>2
  <2> QED BY <2>1
<1> DEFINE c == CHOOSE h : E(h)
<1>5. E(c)
  <2> HIDE DEF E
  <2> QED BY <1>4
<1>6. PointsOf(beds, first, last) = c[last]
  BY DEF PointsOf
<1>7. ASSUME NEW k \in 0..n
      PROVE  c[a + k] \in Nat
  <2> DEFINE T == {i \in 0..n : c[a + i] \in Nat}
  <2>1. 0 \in T
    <3>1. a + 0 = a /\ a \in a..last /\ 0 \in 0..n
      BY <1>1
    <3>2. c[a] = 0
      BY <1>5, <3>1
    <3> QED BY <3>1, <3>2
  <2>2. ASSUME NEW i \in 1..n, i - 1 \in T
        PROVE  i \in T
    <3>1. a + i \in a..last /\ a + i # a /\ (a + i) - 1 = a + (i - 1) /\ a + i \in first..last
      BY <1>1
    <3>2. c[a + i] = c[(a + i) - 1] + Score(beds[a + i])
      BY <1>5, <3>1
    <3>3. c[a + (i - 1)] \in Nat
      BY <2>2
    <3> QED BY <3>1, <3>2, <3>3
  <2>3. \A i \in 0..n : i \in T
    <3> HIDE DEF T
    <3> QED BY <1>1, <2>1, <2>2, UpTo
  <2> QED BY <2>3
<1>8. c[last] \in Nat
  <2>1. n \in 0..n /\ a + n = last
    BY <1>1
  <2> QED BY <1>7, <2>1
<1>9. last = a => c[last] = 0
  BY <1>1, <1>5
<1> QED BY <1>6, <1>8, <1>9

\* The score that is left never grows; nothing is left exactly after a win, and
\* a bust leaves what there was.
LEMMA EvaluateIs ==
    ASSUME NEW start \in Nat, NEW beds, Len(beds) \in Nat,
           \A i \in 1..Len(beds) : Score(beds[i]) \in Nat,
           NEW opening \in 0..Len(beds), NEW doubleOut \in BOOLEAN
    PROVE  LET e == EvaluateVisit(start, beds, opening, doubleOut)
           IN  /\ e.remaining \in Nat /\ e.remaining <= start
               /\ e.outcome \in {"none", "bust", "won"}
               /\ e.outcome = "won" => e.remaining = 0
               /\ start > 0 /\ e.outcome # "won" => e.remaining > 0
               /\ opening = Len(beds) => e.outcome = "none"
               /\ opening = Len(beds) => e.remaining = start
               /\ doubleOut /\ start > 1 /\ e.outcome = "none" => e.remaining > 1
               /\ e.darts \in Nat
<1> DEFINE left(i) == start - PointsOf(beds, opening + 1, i)
           decisive == {i \in (opening + 1)..Len(beds) :
                          left(i) <= 0 \/ (doubleOut /\ left(i) = 1)}
           dart == First(decisive)
           e == EvaluateVisit(start, beds, opening, doubleOut)
<1>1. opening \in Nat /\ opening + 1 \in Nat \ {0} /\ opening <= Len(beds)
  OBVIOUS
<1>2. ASSUME NEW i \in opening..Len(beds)
      PROVE  PointsOf(beds, opening + 1, i) \in Nat /\ (i = opening => PointsOf(beds, opening + 1, i) = 0)
  <2>1. i \in Nat /\ (opening + 1) - 1 <= i /\ \A j \in (opening + 1)..i : Score(beds[j]) \in Nat
    BY <1>1
  <2> QED BY <1>1, <2>1, PointsAreNumbers
<1>3. e = IF decisive = {} THEN [remaining |-> left(Len(beds)), outcome |-> "none", darts |-> Len(beds)]
          ELSE IF left(dart) = 0 /\ (doubleOut => IsDouble(beds[dart]))
          THEN [remaining |-> 0, outcome |-> "won", darts |-> dart]
          ELSE [remaining |-> start, outcome |-> "bust", darts |-> dart]
  BY DEF EvaluateVisit
<1>4. CASE decisive = {}
  <2>1. PointsOf(beds, opening + 1, Len(beds)) \in Nat
    BY <1>1, <1>2
  <2>2. left(Len(beds)) <= start /\ left(Len(beds)) \in Int
    BY <2>1
  <2>3. left(Len(beds)) > 0 \/ left(Len(beds)) = start
    <3>1. CASE opening = Len(beds)
      BY <1>1, <1>2, <3>1
    <3>2. CASE opening # Len(beds)
      <4>1. Len(beds) \in (opening + 1)..Len(beds)
        BY <1>1, <3>2
      <4>2. ~(left(Len(beds)) <= 0)
        BY <1>4, <4>1
      <4> QED BY <2>2, <4>2
    <3> QED BY <3>1, <3>2
  <2>4. e.remaining = left(Len(beds)) /\ e.outcome = "none" /\ e.darts = Len(beds)
    BY <1>3, <1>4
  <2>5. opening = Len(beds) => left(Len(beds)) = start
    BY <1>1, <1>2
  <2>6. left(Len(beds)) # start /\ doubleOut => left(Len(beds)) # 1
    <3>1. left(Len(beds)) # start => Len(beds) \in (opening + 1)..Len(beds)
      BY <1>1, <2>5
    <3> QED BY <1>4, <3>1
  <2> HIDE DEF left, decisive, dart, e
  <2> QED BY <2>2, <2>3, <2>4, <2>5, <2>6 DEF e
<1>5. CASE decisive # {}
  <2>1. opening # Len(beds)
    BY <1>1, <1>5
  <2>2. \/ e.remaining = 0 /\ e.outcome = "won" /\ e.darts = dart
        \/ e.remaining = start /\ e.outcome = "bust" /\ e.darts = dart
    <3> HIDE DEF left, decisive, dart
    <3> QED BY <1>3, <1>5
  <2>3. decisive \subseteq Nat
    BY <1>1
  <2>4. dart \in Nat
    <3> HIDE DEF decisive
    <3> QED BY <1>5, <2>3, FirstIs
  <2> HIDE DEF left, decisive, dart, e
  <2> QED BY <2>1, <2>2, <2>4 DEF e
<1> QED BY <1>4, <1>5

-----------------------------------------------------------------------------
(* Cricket.                                                                *)

\* What a dart of Cricket starts from and leads to.
CricketState == [marks : [CricketNumbers -> 0..MarksToClose], points : Nat, won : BOOLEAN]

CricketStep(state, bed, others) ==
    IF state.won THEN state
    ELSE LET next == CricketDart(state, bed, others)
         IN  [next EXCEPT !.won = /\ Closed(next.marks)
                                  /\ \A other \in others : next.points >= other.points]

CricketStart(player) == [marks |-> player.marks, points |-> player.points, won |-> FALSE]

CricketRun(c, player, beds, others) ==
    /\ c \in [0..Len(beds) -> CricketState]
    /\ c[0] = CricketStart(player)
    /\ \A i \in 1..Len(beds) : c[i] = CricketStep(c[i - 1], beds[i], others)

\* Marks and points only grow, up to the marks that close.
LEMMA CricketDartIs ==
    ASSUME NEW state \in CricketState, NEW bed, bed.number \in Nat, bed.multiplier \in 0..3,
           NEW others
    PROVE  LET next == CricketDart(state, bed, others)
           IN  /\ next \in CricketState /\ next.won = state.won
               /\ next.points >= state.points
               /\ \A k \in CricketNumbers : next.marks[k] >= state.marks[k]
<1> DEFINE closing == Least(MarksToClose - state.marks[bed.number], bed.multiplier)
           extra == bed.multiplier - closing
           open == \E other \in others : other.marks[bed.number] < MarksToClose
           more == IF open THEN extra * bed.number ELSE 0
           next == [state EXCEPT !.marks[bed.number] = @ + closing, !.points = @ + more]
<1>1. /\ state.marks \in [CricketNumbers -> 0..MarksToClose] /\ state.points \in Nat
      /\ state.won \in BOOLEAN /\ MarksToClose \in Nat
      /\ \A k \in CricketNumbers : state.marks[k] \in 0..MarksToClose
  BY RulesAssumption DEF CricketState
<1>2. CASE bed.number \notin CricketNumbers \/ bed.multiplier < 1
  <2>1. CricketDart(state, bed, others) = state
    BY <1>2 DEF CricketDart
  <2> QED BY <1>1, <2>1
<1>3. CASE bed.number \in CricketNumbers /\ ~(bed.multiplier < 1)
  <2>1. CricketDart(state, bed, others) = next
    BY <1>3 DEF CricketDart
  <2>2. closing \in Nat /\ closing <= bed.multiplier /\ state.marks[bed.number] + closing \in 0..MarksToClose
    BY <1>1, <1>3 DEF Least
  <2>3. extra \in Nat
    <3> HIDE DEF closing
    <3> QED BY <2>2
  <2>4. more \in Nat
    <3> HIDE DEF extra
    <3> QED BY <2>3
  <2> HIDE DEF closing, more
  <2>5. /\ next.marks = [state.marks EXCEPT ![bed.number] = @ + closing]
        /\ next.points = state.points + more /\ next.won = state.won
    BY DEF CricketState
  <2>6. next \in CricketState
    <3> DEFINE marks == [state.marks EXCEPT ![bed.number] = @ + closing]
               points == state.points + more
    <3>1. marks \in [CricketNumbers -> 0..MarksToClose]
      BY <1>1, <1>3, <2>2
    <3>2. points \in Nat
      BY <1>1, <2>4
    <3>3. next = [state EXCEPT !.marks = marks, !.points = points]
      OBVIOUS
    <3> HIDE DEF marks, points, next
    <3> QED BY <3>1, <3>2, <3>3 DEF CricketState
  <2>7. next.points >= state.points
    BY <1>1, <2>4, <2>5
  <2>8. \A k \in CricketNumbers : next.marks[k] >= state.marks[k]
    BY <1>1, <2>2, <2>5
  <2> HIDE DEF next
  <2> QED BY <2>1, <2>5, <2>6, <2>7, <2>8
<1> QED BY <1>2, <1>3

\* The recursion of play_visit.
LEMMA CricketRuns ==
    ASSUME NEW player \in PlayerType, NEW beds, BedsOk(beds), NEW others
    PROVE  \E c : CricketRun(c, player, beds, others)
                  /\ CricketVisit(player, beds, others) = c[Len(beds)]
<1> DEFINE n == Len(beds)
           start == CricketStart(player)
           E(f) == f = [i \in 0..n |->
                     IF i = 0 THEN start
                     ELSE IF f[i - 1].won THEN f[i - 1]
                     ELSE LET next == CricketDart(f[i - 1], beds[i], others)
                          IN  [next EXCEPT !.won = /\ Closed(next.marks)
                                                   /\ \A other \in others : next.points >= other.points]]
           G == [p \in (1..n) \X CricketState |-> CricketStep(p[2], beds[p[1]], others)]
<1>1. n \in Nat /\ \A i \in 1..n : beds[i].number \in Nat /\ beds[i].multiplier \in 0..3
  BY BedsAre
<1>2. start \in CricketState
  BY DEF CricketStart, CricketState, PlayerType
<1>3. ASSUME NEW i \in 1..n, NEW x \in CricketState
      PROVE  CricketStep(x, beds[i], others) \in CricketState
  <2> DEFINE next == CricketDart(x, beds[i], others)
             w == Closed(next.marks) /\ \A other \in others : next.points >= other.points
  <2>1. next \in CricketState
    BY <1>1, CricketDartIs
  <2>2. w \in BOOLEAN
    OBVIOUS
  <2> HIDE DEF next, w
  <2>3. [next EXCEPT !.won = w] \in CricketState
    BY <2>1, <2>2 DEF CricketState
  <2>4. CricketStep(x, beds[i], others) \in {x, [next EXCEPT !.won = w]}
    BY DEF CricketStep, next, w
  <2> QED BY <2>3, <2>4
<1>4. G \in Steps(n, CricketState)
  BY <1>3 DEF Steps
<1>5. PICK f : Leads(f, n, CricketState, start, G)
  <2> HIDE DEF n, G, start
  <2> QED BY <1>1, <1>2, <1>4, Recursion
<1> HIDE DEF start
<1>6. \A i \in 1..n, x \in CricketState : G[<<i, x>>] = CricketStep(x, beds[i], others)
  OBVIOUS
<1> HIDE DEF G
<1>7. /\ f \in [0..n -> CricketState] /\ f[0] = start
      /\ \A i \in 1..n : f[i] = CricketStep(f[i - 1], beds[i], others)
  <2>1. f \in [0..n -> CricketState] /\ f[0] = start /\ \A i \in 1..n : f[i] = G[<<i, f[i - 1]>>]
    BY <1>5 DEF Leads
  <2>2. \A i \in 1..n : f[i - 1] \in CricketState
    BY <1>1, <2>1
  <2> QED BY <1>6, <2>1, <2>2
<1>8. E(f)
  <2>1. \A i \in 0..n : f[i] = IF i = 0 THEN start ELSE CricketStep(f[i - 1], beds[i], others)
    BY <1>1, <1>7
  <2>2. f = [i \in 0..n |-> IF i = 0 THEN start ELSE CricketStep(f[i - 1], beds[i], others)]
    BY <1>7, <2>1
  <2> QED BY <2>2 DEF CricketStep
<1> DEFINE c == CHOOSE h : E(h)
<1>9. E(c)
  <2> HIDE DEF E
  <2> QED BY <1>8
<1>10. CricketVisit(player, beds, others) = c[n]
  BY DEF CricketVisit, start, CricketStart
<1>11. c = [i \in 0..n |-> IF i = 0 THEN start ELSE CricketStep(c[i - 1], beds[i], others)]
  BY <1>9 DEF CricketStep
<1> HIDE DEF c, E
<1>12. c[0] = start /\ \A i \in 1..n : c[i] = CricketStep(c[i - 1], beds[i], others)
  <2>1. 0 \in 0..n /\ \A i \in 1..n : i \in 0..n /\ i # 0
    BY <1>1
  <2> HIDE DEF n
  <2> QED BY <1>11, <2>1
<1>13. \A i \in 0..n : c[i] = f[i]
  <2> DEFINE T == {i \in 0..n : c[i] = f[i]}
  <2>1. 0 \in T
    BY <1>1, <1>7, <1>12
  <2>2. ASSUME NEW i \in 1..n, i - 1 \in T
        PROVE  i \in T
    BY <1>1, <1>7, <1>12, <2>2
  <2>3. \A i \in 0..n : i \in T
    <3> HIDE DEF T
    <3> QED BY <1>1, <2>1, <2>2, UpTo
  <2> QED BY <2>3
<1>14. CricketRun(c, player, beds, others)
  <2>1. DOMAIN c = 0..n /\ c = [i \in 0..n |-> c[i]]
    BY <1>11
  <2>2. \A i \in 0..n : c[i] \in CricketState
    BY <1>7, <1>13
  <2>3. c \in [0..n -> CricketState]
    BY <2>1, <2>2
  <2> QED BY <1>12, <2>3 DEF CricketRun, start
<1> QED BY <1>10, <1>14

\* A visit of Cricket leads to marks and points.
LEMMA CricketVisitIs ==
    ASSUME NEW player \in PlayerType, NEW beds, BedsOk(beds), NEW others
    PROVE  LET v == CricketVisit(player, beds, others)
           IN  /\ v \in CricketState
               /\ Len(beds) = 0 => ~v.won
               /\ v.points >= player.points
               /\ Len(beds) # 0 /\ ~v.won =>
                     ~(Closed(v.marks) /\ \A other \in others : v.points >= other.points)
<1>1. PICK c : CricketRun(c, player, beds, others)
               /\ CricketVisit(player, beds, others) = c[Len(beds)]
  BY CricketRuns
<1>2. Len(beds) \in 0..Len(beds)
  BY BedsAre
<1>3. c[Len(beds)] \in CricketState
  BY <1>1, <1>2 DEF CricketRun
<1>4. Len(beds) = 0 => ~c[Len(beds)].won
  BY <1>1 DEF CricketRun, CricketStart
<1> DEFINE T == {i \in 0..Len(beds) : c[i].points >= player.points}
<1>5. \A i \in 0..Len(beds) : i \in T
  <2>1. 0 \in T
    <3>1. player.points \in Nat /\ c[0].points = player.points
      BY <1>1 DEF CricketRun, CricketStart, PlayerType
    <3> QED BY <1>2, <3>1, BedsAre
  <2>2. ASSUME NEW i \in 1..Len(beds), i - 1 \in T
        PROVE  i \in T
    <3>1. /\ i \in 0..Len(beds) /\ i - 1 \in 0..Len(beds) /\ i # 0
          /\ beds[i].number \in Nat /\ beds[i].multiplier \in 0..3
      BY BedsAre
    <3>2. c[i - 1] \in CricketState /\ c[i] = CricketStep(c[i - 1], beds[i], others)
      BY <1>1, <3>1 DEF CricketRun
    <3>3. c[i] \in CricketState /\ c[i].points >= c[i - 1].points
      <4> DEFINE next == CricketDart(c[i - 1], beds[i], others)
                 w == /\ Closed(next.marks)
                      /\ \A other \in others : next.points >= other.points
      <4>1. next \in CricketState /\ next.points >= c[i - 1].points
        BY <3>1, <3>2, CricketDartIs
      <4>2. w \in BOOLEAN
        OBVIOUS
      <4>3. c[i] = IF c[i - 1].won THEN c[i - 1] ELSE [next EXCEPT !.won = w]
        BY <3>2 DEF CricketStep
      <4> HIDE DEF next, w
      <4> QED BY <3>2, <4>1, <4>2, <4>3 DEF CricketState
    <3>4. c[i - 1].points >= player.points /\ player.points \in Nat
      BY <2>2 DEF PlayerType
    <3>5. c[i].points >= player.points
      BY <3>2, <3>3, <3>4 DEF CricketState
    <3> QED BY <3>1, <3>5
  <2> HIDE DEF T
  <2> QED BY <2>1, <2>2, BedsAre, UpTo
<1>6. c[Len(beds)].points >= player.points
  BY <1>2, <1>5
<1>7. Len(beds) # 0 /\ ~c[Len(beds)].won =>
        ~(/\ Closed(c[Len(beds)].marks)
          /\ \A other \in others : c[Len(beds)].points >= other.points)
  <2> SUFFICES ASSUME Len(beds) # 0, ~c[Len(beds)].won
               PROVE  ~(/\ Closed(c[Len(beds)].marks)
                        /\ \A other \in others : c[Len(beds)].points >= other.points)
    OBVIOUS
  <2> DEFINE n == Len(beds)
             next == CricketDart(c[n - 1], beds[n], others)
             w == /\ Closed(next.marks)
                  /\ \A other \in others : next.points >= other.points
  <2>1. n \in 1..n /\ n - 1 \in 0..n /\ beds[n].number \in Nat /\ beds[n].multiplier \in 0..3
    BY BedsAre
  <2>2. c[n] = CricketStep(c[n - 1], beds[n], others) /\ c[n - 1] \in CricketState
    BY <1>1, <2>1 DEF CricketRun
  <2>3. next \in CricketState
    BY <2>1, <2>2, CricketDartIs
  <2>4. c[n] = [next EXCEPT !.won = w]
    BY <2>2 DEF CricketStep
  <2>5. ~w /\ c[n].marks = next.marks /\ c[n].points = next.points
    <3> HIDE DEF next, w
    <3> QED BY <2>3, <2>4 DEF CricketState
  <2> HIDE DEF next
  <2> QED BY <2>5
<1> QED BY <1>1, <1>3, <1>4, <1>6, <1>7

-----------------------------------------------------------------------------
(* Shanghai and Halve-It.                                                  *)

\* The party of a new leg.
LEMMA NewPartyIs ==
    ASSUME NEW kind, NEW S
    PROVE  NewParty(kind, S) \in PartyType(S)
  BY RulesAssumption DEF NewParty, PartyType, NoNumber

\* The points of some of the beds are a number.
LEMMA PointsOfSomeIs ==
    ASSUME NEW beds, BedsOk(beds), NEW some
    PROVE  PointsOfSome(beds, some) \in Nat
<1> DEFINE b == [i \in DOMAIN beds |-> IF i \in some THEN beds[i] ELSE Missed]
<1>1. Len(beds) \in Nat /\ DOMAIN beds = 1..Len(beds) /\ \A i \in 1..Len(beds) : Score(beds[i]) \in Nat
  BY BedsAre
<1>2. Score(Missed) = 0
  BY DEF Score, Missed
<1>3. \A i \in 1..Len(beds) : Score(b[i]) \in Nat
  BY <1>1, <1>2
<1> HIDE DEF b
<1>4. PointsOf(b, 1, Len(beds)) \in Nat
  BY <1>1, <1>3, PointsAreNumbers
<1> QED BY <1>4 DEF PointsOfSome, b

\* Some of the beds are a number of beds.
LEMMA SomeAreFew ==
    ASSUME NEW beds, BedsOk(beds), NEW hits, hits \subseteq DOMAIN beds
    PROVE  Cardinality(hits) \in Nat
<1>1. DOMAIN beds = 1..Len(beds) /\ Len(beds) \in Nat
  BY BedsAre
<1>2. IsFiniteSet(1..Len(beds))
  BY <1>1, FS_Interval
<1> QED BY <1>1, <1>2, FS_Subset, FS_CardinalityType

\* A visit of Shanghai.
LEMMA ShanghaiIs ==
    ASSUME NEW S, NEW party \in PartyType(S), NEW player \in S, NEW beds, BedsOk(beds)
    PROVE  LET v == ShanghaiVisit(party, player, beds)
           IN  /\ v.party \in PartyType(S) /\ v.won \in {player, Nobody} /\ v.hits \in Nat
               /\ v.party.turns = party.turns
               /\ Len(beds) = 0 => v.won = Nobody
<1> DEFINE hits == {i \in DOMAIN beds : beds[i].number = Least(Round(party), ShanghaiRounds)}
           rings == {beds[i].multiplier : i \in hits}
           points == PointsOfSome(beds, hits)
           v == ShanghaiVisit(party, player, beds)
<1>1. points \in Nat /\ Cardinality(hits) \in Nat
  BY PointsOfSomeIs, SomeAreFew
<1>2. v = [party |-> [party EXCEPT !.points[player] = @ + points],
           won |-> IF {1, 2, 3} \subseteq rings THEN player ELSE Nobody,
           hits |-> Cardinality(hits)]
  BY DEF ShanghaiVisit
<1>3. Len(beds) = 0 => ~({1, 2, 3} \subseteq rings)
  <2>1. Len(beds) = 0 => DOMAIN beds = {}
    BY BedsAre
  <2> QED BY <2>1
<1> HIDE DEF points, hits, rings
<1>4. /\ [party EXCEPT !.points[player] = @ + points] \in PartyType(S)
      /\ [party EXCEPT !.points[player] = @ + points].turns = party.turns
  BY <1>1 DEF PartyType
<1>5. v.won \in {player, Nobody} /\ (Len(beds) = 0 => v.won = Nobody)
  BY <1>2, <1>3
<1>6. v.party = [party EXCEPT !.points[player] = @ + points] /\ v.hits = Cardinality(hits)
  BY <1>2
<1> HIDE DEF v
<1> QED BY <1>1, <1>4, <1>5, <1>6 DEF v

\* A visit of Halve-It.
LEMMA HalveItIs ==
    ASSUME NEW S, NEW party \in PartyType(S), NEW player \in S, NEW beds, BedsOk(beds)
    PROVE  LET v == HalveItVisit(party, player, beds)
           IN  v.party \in PartyType(S) /\ v.won = Nobody /\ v.hits \in Nat
               /\ v.party.turns = party.turns
<1> DEFINE hits == HalveItHits(party, beds)
           halved == hits = {} /\ Len(beds) >= 3
           points == party.points[player] + PointsOfSome(beds, hits)
           kept == IF halved THEN points \div 2 ELSE points
           v == HalveItVisit(party, player, beds)
<1>1. PointsOfSome(beds, hits) \in Nat
  BY PointsOfSomeIs
<1>2. Cardinality(hits) \in Nat
  BY SomeAreFew DEF HalveItHits
<1>3. party.points[player] \in Nat
  BY DEF PartyType
<1>4. points \in Nat
  BY <1>1, <1>3
<1>5. kept \in Nat
  <2> HIDE DEF points, halved
  <2> QED BY <1>4
<1>6. v = [party |-> [party EXCEPT !.points[player] = kept], won |-> Nobody,
           hits |-> Cardinality(hits)]
  BY DEF HalveItVisit
<1> HIDE DEF kept, hits
<1>7. /\ [party EXCEPT !.points[player] = kept] \in PartyType(S)
      /\ [party EXCEPT !.points[player] = kept].turns = party.turns
  BY <1>5 DEF PartyType
<1>8. /\ v.party = [party EXCEPT !.points[player] = kept] /\ v.won = Nobody
      /\ v.hits = Cardinality(hits)
  BY <1>6
<1> HIDE DEF v
<1> QED BY <1>2, <1>7, <1>8 DEF v

-----------------------------------------------------------------------------
(* Killer.                                                                 *)

\* What a dart of Killer starts from and leads to.
KillerState(S) == [points : [S -> Nat], numbers : [S -> Nat], lives : [S -> Nat],
                   killers : [S -> BOOLEAN], won : S \cup {Nobody}]

KillerStart(party) ==
    [points |-> party.points, numbers |-> party.numbers,
     lives |-> party.lives, killers |-> party.killers, won |-> Nobody]

KillerRun(c, S, party, player, beds) ==
    /\ c \in [0..Len(beds) -> KillerState(S)]
    /\ c[0] = KillerStart(party)
    /\ \A i \in 1..Len(beds) : c[i] = KillerDart(c[i - 1], player, beds[i])

KillerEnd(party, state) ==
    [party |-> [party EXCEPT !.lives = state.lives, !.killers = state.killers],
     won |-> state.won, hits |-> 0]

Alive(S, state) == {p \in S : state.lives[p] > 0}

\* A dart of Killer costs at most one life.
LEMMA KillerDartIs ==
    ASSUME NEW S, SeatsAre(S), NEW state \in KillerState(S), NEW player \in S, NEW bed
    PROVE  LET next == KillerDart(state, player, bed)
           IN  /\ next \in KillerState(S)
               /\ next.points = state.points /\ next.numbers = state.numbers
               /\ next.won = Nobody /\ Cardinality(Alive(S, state)) > 1 =>
                     Cardinality(Alive(S, next)) > 1
<1> DEFINE owners == {p \in S : state.numbers[p] = bed.number}
           owner == First(owners)
           lives == [state.lives EXCEPT ![owner] = @ - 1]
           made == [state EXCEPT !.killers[player] = TRUE]
           hit == [state EXCEPT !.lives = lives, !.killers[player] = lives[player] # 0]
           thrown == IF owner = player /\ ~state.killers[player] THEN made
                     ELSE IF state.killers[player] /\ state.lives[owner] > 0 THEN hit
                     ELSE state
           alive == {p \in S : thrown.lives[p] > 0}
           next == KillerDart(state, player, bed)
<1>1. /\ state.points \in [S -> Nat] /\ state.numbers \in [S -> Nat] /\ state.lives \in [S -> Nat]
      /\ state.killers \in [S -> BOOLEAN] /\ state.won \in S \cup {Nobody}
  BY DEF KillerState
<1>2. S \subseteq Nat /\ IsFiniteSet(S) /\ Nobody \notin S
  BY FS_Interval DEF SeatsAre, Nobody
<1>3. Seats(state) = S
  BY <1>1 DEF Seats
<1>4. next = IF state.won # Nobody \/ bed.multiplier # 2 \/ owners = {} THEN state
             ELSE IF Cardinality(alive) = 1 THEN [thrown EXCEPT !.won = First(alive)]
             ELSE thrown
  BY <1>3 DEF KillerDart
<1>5. CASE state.won # Nobody \/ bed.multiplier # 2 \/ owners = {}
  <2>1. next = state
    BY <1>4, <1>5
  <2> HIDE DEF next
  <2> QED BY <2>1, SMTT(30) DEF next
<1>6. CASE ~(state.won # Nobody \/ bed.multiplier # 2 \/ owners = {})
  <2>1. owner \in S
    <3>1. owners \subseteq S /\ owners # {}
      BY <1>6
    <3> HIDE DEF owners
    <3> QED BY <1>2, <3>1, FirstIs
  <2> HIDE DEF owner, owners
  <2>2. made \in KillerState(S) /\ made.points = state.points /\ made.numbers = state.numbers
        /\ made.lives = state.lives /\ made.won = state.won
    BY <1>1 DEF KillerState
  <2>3. state.lives[owner] > 0 =>
          /\ lives \in [S -> Nat] /\ lives[owner] = state.lives[owner] - 1
          /\ \A p \in S \ {owner} : lives[p] = state.lives[p]
    BY <1>1, <2>1
  <2> HIDE DEF lives
  <2>4. state.lives[owner] > 0 =>
          /\ hit \in KillerState(S) /\ hit.points = state.points /\ hit.numbers = state.numbers
          /\ hit.lives = lives /\ hit.won = state.won
    BY <1>1, <2>3 DEF KillerState
  <2>5. /\ thrown \in KillerState(S) /\ thrown.points = state.points /\ thrown.numbers = state.numbers
        /\ thrown.won = Nobody
        /\ \/ thrown.lives = state.lives
           \/ /\ state.lives[owner] > 0 /\ thrown.lives[owner] = state.lives[owner] - 1
              /\ \A p \in S \ {owner} : thrown.lives[p] = state.lives[p]
    <3>1. CASE owner = player /\ ~state.killers[player]
      <4>1. thrown = made
        BY <3>1
      <4> HIDE DEF thrown, made
      <4> QED BY <1>6, <2>2, <4>1
    <3>2. CASE ~(owner = player /\ ~state.killers[player]) /\ state.killers[player] /\ state.lives[owner] > 0
      <4>1. thrown = hit
        BY <3>2
      <4> HIDE DEF thrown, hit
      <4> QED BY <1>6, <2>3, <2>4, <3>2, <4>1
    <3>3. CASE ~(owner = player /\ ~state.killers[player]) /\ ~(state.killers[player] /\ state.lives[owner] > 0)
      <4>1. thrown = state
        BY <3>3
      <4> HIDE DEF thrown
      <4> QED BY <1>6, <4>1
    <3> QED BY <3>1, <3>2, <3>3
  <2> HIDE DEF thrown, made, hit
  <2>6. thrown.lives \in [S -> Nat]
    BY <2>5 DEF KillerState
  <2>7. alive \subseteq S /\ IsFiniteSet(alive) /\ Cardinality(alive) \in Nat
    BY <1>2, FS_Subset, FS_CardinalityType
  <2>8. Cardinality(Alive(S, state)) > 1 => Cardinality(alive) >= 1
    <3>1. CASE thrown.lives = state.lives
      <4>1. alive = Alive(S, state)
        BY <3>1 DEF Alive
      <4> QED BY <2>7, <4>1
    <3>2. CASE /\ state.lives[owner] > 0 /\ thrown.lives[owner] = state.lives[owner] - 1
               /\ \A p \in S \ {owner} : thrown.lives[p] = state.lives[p]
      <4>1. Alive(S, state) \ {owner} \subseteq alive
        BY <3>2 DEF Alive
      <4>2. IsFiniteSet(Alive(S, state))
        BY <1>2, FS_Subset DEF Alive
      <4>3. owner \in Alive(S, state)
        BY <2>1, <3>2 DEF Alive
      <4>4. Cardinality(Alive(S, state) \ {owner}) = Cardinality(Alive(S, state)) - 1
        BY <4>2, <4>3, FS_RemoveElement
      <4>5. Cardinality(Alive(S, state) \ {owner}) <= Cardinality(alive)
        BY <2>7, <4>1, FS_Subset
      <4>6. Cardinality(Alive(S, state)) \in Nat
        BY <4>2, FS_CardinalityType
      <4> QED BY <2>7, <4>4, <4>5, <4>6
    <3> QED BY <2>5, <3>1, <3>2
  <2>9. CASE Cardinality(alive) = 1
    <3>1. next = [thrown EXCEPT !.won = First(alive)]
      BY <1>4, <1>6, <2>9
    <3>2. alive # {}
      BY <2>9, FS_EmptySet
    <3>3. First(alive) \in S
      <4> HIDE DEF alive
      <4> QED BY <1>2, <2>7, <3>2, FirstIs
    <3> HIDE DEF next, alive
    <3>4. /\ next \in KillerState(S) /\ next.points = thrown.points /\ next.numbers = thrown.numbers
          /\ next.won = First(alive)
      BY <2>5, <3>1, <3>3 DEF KillerState
    <3> QED BY <1>2, <2>5, <3>3, <3>4 DEF next
  <2>10. CASE Cardinality(alive) # 1
    <3>1. next = thrown
      BY <1>4, <1>6, <2>10
    <3>2. Alive(S, next) = alive
      BY <3>1 DEF Alive
    <3>3. Cardinality(Alive(S, state)) > 1 => Cardinality(alive) > 1
      BY <2>7, <2>8, <2>10
    <3> HIDE DEF next, alive
    <3> QED BY <2>5, <3>1, <3>2, <3>3 DEF next
  <2> QED BY <2>9, <2>10
<1> QED BY <1>5, <1>6

\* The darts of a visit of Killer run from what the party has to what it keeps.
LEMMA KillerRuns ==
    ASSUME NEW S, SeatsAre(S), NEW party \in PartyType(S), NEW player \in S,
           NEW beds, BedsOk(beds)
    PROVE  \E c : /\ KillerRun(c, S, party, player, beds)
                  /\ ~Choosing(party) => KillerVisit(party, player, beds) = KillerEnd(party, c[Len(beds)])
<1> DEFINE n == Len(beds)
           start == KillerStart(party)
           E(f) == f = [i \in 0..n |-> IF i = 0 THEN start ELSE KillerDart(f[i - 1], player, beds[i])]
           G == [p \in (1..n) \X KillerState(S) |-> KillerDart(p[2], player, beds[p[1]])]
<1>1. n \in Nat
  BY BedsAre
<1>2. start \in KillerState(S)
  BY DEF KillerStart, KillerState, PartyType
<1>3. ASSUME NEW i \in 1..n, NEW x \in KillerState(S)
      PROVE  KillerDart(x, player, beds[i]) \in KillerState(S)
  BY KillerDartIs
<1>4. G \in Steps(n, KillerState(S))
  BY <1>3 DEF Steps
<1>5. PICK f : Leads(f, n, KillerState(S), start, G)
  <2> HIDE DEF n, G, start
  <2> QED BY <1>1, <1>2, <1>4, Recursion
<1> HIDE DEF start
<1>6. \A i \in 1..n, x \in KillerState(S) : G[<<i, x>>] = KillerDart(x, player, beds[i])
  OBVIOUS
<1> HIDE DEF G
<1>7. /\ f \in [0..n -> KillerState(S)] /\ f[0] = start
      /\ \A i \in 1..n : f[i] = KillerDart(f[i - 1], player, beds[i])
  <2>1. f \in [0..n -> KillerState(S)] /\ f[0] = start /\ \A i \in 1..n : f[i] = G[<<i, f[i - 1]>>]
    BY <1>5 DEF Leads
  <2>2. \A i \in 1..n : f[i - 1] \in KillerState(S)
    BY <1>1, <2>1
  <2> QED BY <1>6, <2>1, <2>2
<1>8. E(f)
  <2>1. \A i \in 0..n : f[i] = IF i = 0 THEN start ELSE KillerDart(f[i - 1], player, beds[i])
    BY <1>1, <1>7
  <2> QED BY <1>7, <2>1
<1> DEFINE c == CHOOSE h : E(h)
<1>9. E(c)
  <2> HIDE DEF E
  <2> QED BY <1>8
<1>10. ~Choosing(party) => KillerVisit(party, player, beds) = KillerEnd(party, c[n])
  BY DEF KillerVisit, KillerEnd, start, KillerStart
<1>11. c = [i \in 0..n |-> IF i = 0 THEN start ELSE KillerDart(c[i - 1], player, beds[i])]
  BY <1>9
<1> HIDE DEF c, E
<1>12. c[0] = start /\ \A i \in 1..n : c[i] = KillerDart(c[i - 1], player, beds[i])
  <2>1. 0 \in 0..n /\ \A i \in 1..n : i \in 0..n /\ i # 0
    BY <1>1
  <2> HIDE DEF n
  <2> QED BY <1>11, <2>1
<1>13. \A i \in 0..n : c[i] = f[i]
  <2> DEFINE T == {i \in 0..n : c[i] = f[i]}
  <2>1. 0 \in T
    BY <1>1, <1>7, <1>12
  <2>2. ASSUME NEW i \in 1..n, i - 1 \in T
        PROVE  i \in T
    BY <1>1, <1>7, <1>12, <2>2
  <2>3. \A i \in 0..n : i \in T
    <3> HIDE DEF T
    <3> QED BY <1>1, <2>1, <2>2, UpTo
  <2> QED BY <2>3
<1>14. KillerRun(c, S, party, player, beds)
  <2>1. DOMAIN c = 0..n /\ c = [i \in 0..n |-> c[i]]
    BY <1>11
  <2>2. \A i \in 0..n : c[i] \in KillerState(S)
    BY <1>7, <1>13
  <2>3. c \in [0..n -> KillerState(S)]
    BY <2>1, <2>2
  <2> QED BY <1>12, <2>3 DEF KillerRun, start
<1> QED BY <1>10, <1>14

\* A visit of Killer: unless it ends the leg, more than one player lives.
LEMMA KillerIs ==
    ASSUME NEW S, SeatsAre(S), NEW party \in PartyType(S), NEW player \in S,
           NEW beds, BedsOk(beds)
    PROVE  LET v == KillerVisit(party, player, beds)
           IN  /\ v.party \in PartyType(S) /\ v.won \in S \cup {Nobody} /\ v.hits \in Nat
               /\ v.party.turns = party.turns
               /\ Len(beds) = 0 => v.won = Nobody
               /\ v.won = Nobody /\ Cardinality(Alive(S, party)) > 1 =>
                     Cardinality(Alive(S, v.party)) > 1
<1> DEFINE v == KillerVisit(party, player, beds)
           n == Len(beds)
<1>1. CASE Choosing(party)
  <2> DEFINE chosen == ChoosingVisit(party, player, beds)
  <2>1. v = [party |-> chosen, won |-> Nobody, hits |-> 0]
    BY <1>1 DEF KillerVisit
  <2>2. chosen \in PartyType(S) /\ chosen.turns = party.turns /\ chosen.lives = party.lives
    <3>1. chosen = party \/ (beds # <<>> /\ chosen = [party EXCEPT !.numbers[player] = beds[1].number])
      BY DEF ChoosingVisit
    <3>2. beds # <<>> => beds[1].number \in Nat
      <4>1. Len(beds) \in Nat /\ (beds # <<>> => Len(beds) # 0)
        BY EmptySeq, BedsAre DEF BedsOk
      <4> QED BY <4>1, BedsAre
    <3> HIDE DEF chosen
    <3>3. CASE chosen = party
      BY <3>3
    <3>4. CASE beds # <<>> /\ chosen = [party EXCEPT !.numbers[player] = beds[1].number]
      <4> DEFINE number == beds[1].number
      <4>1. number \in Nat /\ chosen = [party EXCEPT !.numbers[player] = number]
        BY <3>2, <3>4
      <4> HIDE DEF number
      <4> QED BY <4>1 DEF PartyType
    <3> QED BY <3>1, <3>3, <3>4
  <2> HIDE DEF chosen
  <2>3. v.party = chosen /\ v.won = Nobody /\ v.hits = 0
    BY <2>1
  <2> HIDE DEF v
  <2>4. Alive(S, v.party) = Alive(S, party)
    BY <2>2, <2>3 DEF Alive
  <2> QED BY <2>2, <2>3, <2>4 DEF v
<1>2. CASE ~Choosing(party)
  <2>1. PICK c : /\ KillerRun(c, S, party, player, beds)
                 /\ v = KillerEnd(party, c[n])
    BY <1>2, KillerRuns
  <2> HIDE DEF v
  <2>2. n \in Nat /\ n \in 0..n
    BY BedsAre
  <2>3. c[n] \in KillerState(S)
    BY <2>1, <2>2 DEF KillerRun
  <2> DEFINE kept == [party EXCEPT !.lives = c[n].lives, !.killers = c[n].killers]
  <2>4. kept \in PartyType(S) /\ kept.turns = party.turns /\ kept.lives = c[n].lives
    BY <2>3 DEF PartyType, KillerState
  <2>5. v = [party |-> kept, won |-> c[n].won, hits |-> 0]
    BY <2>1 DEF KillerEnd
  <2> HIDE DEF kept
  <2>6. v.party = kept /\ v.won = c[n].won /\ v.hits = 0
    BY <2>5
  <2>7. n = 0 => c[n].won = Nobody
    BY <2>1 DEF KillerRun, KillerStart
  <2>8. c[n].won = Nobody /\ Cardinality(Alive(S, party)) > 1 => Cardinality(Alive(S, c[n])) > 1
    <3> SUFFICES ASSUME Cardinality(Alive(S, party)) > 1
                 PROVE  c[n].won = Nobody => Cardinality(Alive(S, c[n])) > 1
      OBVIOUS
    <3> DEFINE T == {i \in 0..n : c[i].won = Nobody => Cardinality(Alive(S, c[i])) > 1}
    <3>1. 0 \in T
      <4>1. c[0].lives = party.lives
        BY <2>1 DEF KillerRun, KillerStart
      <4>2. Alive(S, c[0]) = Alive(S, party)
        BY <4>1 DEF Alive
      <4> QED BY <2>2, <4>2
    <3>2. ASSUME NEW i \in 1..n, i - 1 \in T
          PROVE  i \in T
      <4>1. i - 1 \in 0..n /\ i \in 0..n
        BY <2>2
      <4>2. c[i - 1] \in KillerState(S) /\ c[i] = KillerDart(c[i - 1], player, beds[i])
        BY <2>1, <4>1 DEF KillerRun
      <4>3. CASE c[i - 1].won = Nobody
        <5>1. Cardinality(Alive(S, c[i - 1])) > 1
          BY <3>2, <4>3
        <5>2. c[i].won = Nobody => Cardinality(Alive(S, c[i])) > 1
          BY <4>2, <5>1, KillerDartIs
        <5> QED BY <4>1, <5>2
      <4>4. CASE c[i - 1].won # Nobody
        <5>1. c[i] = c[i - 1]
          BY <4>2, <4>4 DEF KillerDart
        <5> QED BY <4>1, <4>4, <5>1, SMTT(30)
      <4> QED BY <4>3, <4>4
    <3> HIDE DEF T
    <3>3. \A i \in 0..n : i \in T
      BY <2>2, <3>1, <3>2, UpTo
    <3> QED BY <2>2, <3>3 DEF T
  <2>9. Alive(S, v.party) = Alive(S, c[n])
    BY <2>4, <2>6 DEF Alive
  <2>10. c[n].won \in S \cup {Nobody}
    BY <2>3 DEF KillerState
  <2> QED BY <2>4, <2>6, <2>7, <2>8, <2>9, <2>10 DEF v
<1> QED BY <1>1, <1>2

-----------------------------------------------------------------------------
(* Visits of party games.                                                  *)

\* A visit of a party game.
LEMMA PartyVisitIs ==
    ASSUME NEW S, SeatsAre(S), NEW party \in PartyType(S), NEW player \in S,
           NEW beds, BedsOk(beds), NEW kind \in PartyGames
    PROVE  LET v == PartyVisit(kind, party, player, beds)
           IN  /\ v.party \in PartyType(S) /\ v.won \in S \cup {Nobody} /\ v.hits \in Nat
               /\ v.party.turns = party.turns
               /\ Len(beds) = 0 => v.won = Nobody
               /\ kind = "shanghai" => v.won \in {player, Nobody}
               /\ kind = "halve_it" => v.won = Nobody
               /\ kind = "killer" /\ v.won = Nobody /\ Cardinality(Alive(S, party)) > 1 =>
                     Cardinality(Alive(S, v.party)) > 1
<1>1. CASE kind = "shanghai"
  <2>1. PartyVisit(kind, party, player, beds) = ShanghaiVisit(party, player, beds)
    BY <1>1 DEF PartyVisit
  <2> QED BY <1>1, <2>1, ShanghaiIs
<1>2. CASE kind = "halve_it"
  <2>1. PartyVisit(kind, party, player, beds) = HalveItVisit(party, player, beds)
    BY <1>2 DEF PartyVisit
  <2> QED BY <1>2, <2>1, HalveItIs
<1>3. CASE kind = "killer"
  <2>1. PartyVisit(kind, party, player, beds) = KillerVisit(party, player, beds)
    BY <1>3 DEF PartyVisit
  <2> QED BY <1>3, <2>1, KillerIs
<1> QED BY <1>1, <1>2, <1>3 DEF PartyGames

\* Misses pad a visit of Halve-It only.
LEMMA PaddedIs ==
    ASSUME NEW kind, NEW party, NEW beds, BedsOk(beds)
    PROVE  /\ BedsOk(Padded(kind, party, beds))
           /\ kind # "halve_it" => Padded(kind, party, beds) = beds
<1> DEFINE B == [number : Nat, multiplier : 0..3]
           misses == <<Missed, Missed, Missed>>
           padded == SubSeq(beds \o misses, 1, 3)
<1>1. beds \in Seq(B)
  BY DEF BedsOk
<1>2. misses \in Seq(B) /\ Len(misses) = 3
  BY DEF Missed
<1> HIDE DEF B, misses
<1>3. /\ beds \o misses \in Seq(B) /\ Len(beds \o misses) = Len(beds) + 3 /\ Len(beds) \in Nat
  <2>1. beds \o misses \in Seq(B) /\ Len(beds \o misses) = Len(beds) + Len(misses)
    BY <1>1, <1>2, ConcatProperties, Zenon
  <2>2. Len(beds) \in Nat
    BY <1>1, LenProperties
  <2> QED BY <1>2, <2>1, <2>2
<1>4. \A i \in 1..3 : (beds \o misses)[i] \in B
  <2> SUFFICES ASSUME NEW i \in 1..3
               PROVE  (beds \o misses)[i] \in B
    OBVIOUS
  <2>1. i \in 1..Len(beds \o misses)
    BY <1>3
  <2> QED BY <1>3, <2>1, ElementOfSeq
<1>5. padded \in Seq(B)
  <2> DEFINE s == beds \o misses
  <2>1. \A i \in 1..3 : s[i] \in B
    BY <1>4
  <2> HIDE DEF s
  <2>2. SubSeq(s, 1, 3) \in Seq(B)
    BY <2>1, SubSeqProperties
  <2> QED BY <2>2 DEF s
<1>6. Padded(kind, party, beds) \in {beds, padded}
  BY DEF Padded, misses
<1>7. BedsOk(Padded(kind, party, beds))
  BY <1>1, <1>5, <1>6 DEF BedsOk, B
<1>8. kind # "halve_it" => Padded(kind, party, beds) = beds
  BY DEF Padded
<1> QED BY <1>7, <1>8

\* The best is a player, unless they tie.
LEMMA BestIs ==
    ASSUME NEW S, SeatsAre(S), NEW party \in PartyType(S)
    PROVE  Best(party) \in S \cup {Tied}
<1> DEFINE ahead(p, q) == \/ party.points[p] > party.points[q]
                          \/ party.points[p] = party.points[q] /\ party.hits[p] > party.hits[q]
           best == {p \in Seats(party) : \A q \in Seats(party) \ {p} : ahead(p, q)}
<1>1. Seats(party) = S
  BY DEF Seats, PartyType
<1>2. Best(party) = IF best = {} THEN Tied ELSE First(best)
  BY DEF Best
<1>3. best \subseteq S /\ S \subseteq Nat
  BY <1>1, SeatsParts
<1> HIDE DEF best
<1>4. best # {} => First(best) \in S
  BY <1>3, FirstIs
<1> QED BY <1>2, <1>4

\* A leg is decided by its last round, not before its first and never in Killer.
LEMMA DecidedIs ==
    ASSUME NEW S, SeatsAre(S), NEW party \in PartyType(S), NEW kind \in PartyGames
    PROVE  /\ Decided(kind, party) \in S \cup {Tied, Nobody}
           /\ kind = "killer" => Decided(kind, party) = Nobody
           /\ party.turns = 0 => Decided(kind, party) = Nobody
<1> DEFINE rounds == IF kind = "shanghai" THEN ShanghaiRounds ELSE Len(HalveItTargets)
           size == Cardinality(Seats(party))
<1>1. size \in 1..4
  <2>1. Seats(party) = S
    BY DEF Seats, PartyType
  <2> QED BY <2>1, SeatsParts
<1>2. rounds \in Nat \ {0}
  <2>1. HalveItTargets \in Seq([number : Nat, multiplier : 0..3]) /\ HalveItTargets # <<>>
        /\ ShanghaiRounds \in Nat \ {0}
    BY RulesAssumption
  <2>2. Len(HalveItTargets) \in Nat \ {0}
    BY <2>1, EmptySeq
  <2> QED BY <2>1, <2>2
<1>3. Decided(kind, party) = IF kind # "killer" /\ party.turns >= rounds * size
                             THEN Best(party) ELSE Nobody
  BY DEF Decided
<1> HIDE DEF rounds, size
<1>4. rounds * size >= 1
  BY <1>1, <1>2
<1>5. rounds * size \in Nat
  BY <1>1, <1>2
<1>6. party.turns = 0 => Decided(kind, party) = Nobody
  BY <1>3, <1>4, <1>5
<1>7. Decided(kind, party) \in S \cup {Tied, Nobody}
  BY <1>3, BestIs
<1> QED BY <1>3, <1>6, <1>7

\* What is kept of a visit, and who it wins the leg for.
LEMMA KeepVisitIs ==
    ASSUME NEW S, SeatsAre(S), NEW kind \in PartyGames, NEW player \in S, NEW visit,
           visit.party \in PartyType(S), visit.won \in S \cup {Nobody}, visit.hits \in Nat
    PROVE  LET k == KeepVisit(kind, player, visit)
           IN  /\ k.party \in PartyType(S)
               /\ k.won = (IF visit.won # Nobody THEN visit.won ELSE Decided(kind, k.party))
               /\ k.party.turns = visit.party.turns + (IF kind = "killer" THEN 0 ELSE 1)
               /\ k.party.lives = visit.party.lives
<1> DEFINE turn == IF kind = "killer" THEN visit.party.turns ELSE visit.party.turns + 1
           kept == [visit.party EXCEPT !.hits[player] = @ + visit.hits, !.turns = turn]
           k == KeepVisit(kind, player, visit)
<1>1. turn \in Nat /\ turn = visit.party.turns + (IF kind = "killer" THEN 0 ELSE 1)
  BY DEF PartyType
<1>2. k = [party |-> kept, won |-> IF visit.won # Nobody THEN visit.won ELSE Decided(kind, kept)]
  BY DEF KeepVisit
<1> DEFINE p == visit.party
           h == p.hits[player] + visit.hits
<1>3. kept \in PartyType(S) /\ kept.turns = turn /\ kept.lives = visit.party.lives
  <2>1. p \in PartyType(S) /\ h \in Nat
    BY DEF PartyType
  <2>2. kept = [p EXCEPT !.hits[player] = h, !.turns = turn]
    BY DEF PartyType
  <2> HIDE DEF p, h, turn
  <2>3. LET x == [p EXCEPT !.hits[player] = h, !.turns = turn]
        IN  x \in PartyType(S) /\ x.turns = turn /\ x.lives = p.lives
    BY <1>1, <2>1 DEF PartyType
  <2> QED BY <2>2, <2>3 DEF p
<1> HIDE DEF turn, p, h
<1> HIDE DEF kept, k
<1>4. k.party = kept /\ k.won = IF visit.won # Nobody THEN visit.won ELSE Decided(kind, kept)
  BY <1>2
<1> QED BY <1>1, <1>3, <1>4 DEF k

\* Booking a visit of a party game.
LEMMA PartyBookIs ==
    ASSUME NEW S, SeatsAre(S), NEW kind \in PartyGames, NEW party \in PartyType(S),
           NEW player \in S, NEW beds, BedsOk(beds)
    PROVE  LET k == PartyBook(kind, party, player, beds)
               w == PartyVisit(kind, party, player, beds).won
           IN  /\ k.party \in PartyType(S) /\ k.won \in S \cup {Tied, Nobody}
               /\ kind # "killer" /\ k.won = Nobody =>
                     k.party.turns # 0 /\ Decided(kind, k.party) = Nobody
               /\ kind = "killer" => k.won = w
               /\ kind = "killer" /\ k.won = Nobody /\ Cardinality(Alive(S, party)) > 1 =>
                     Cardinality(Alive(S, k.party)) > 1
               /\ w # Nobody => k.won = w
               /\ w \in S \cup {Nobody} /\ (kind # "killer" => w \in {player, Nobody})
<1> DEFINE k == PartyBook(kind, party, player, beds)
           v == PartyVisit(kind, party, player, Padded(kind, party, beds))
           w == PartyVisit(kind, party, player, beds).won
<1>1. k = KeepVisit(kind, player, v)
  BY DEF PartyBook
<1>2. /\ v.party \in PartyType(S) /\ v.won \in S \cup {Nobody} /\ v.hits \in Nat
      /\ kind = "halve_it" => v.won = Nobody
      /\ kind = "killer" /\ v.won = Nobody /\ Cardinality(Alive(S, party)) > 1 =>
            Cardinality(Alive(S, v.party)) > 1
  BY PaddedIs, PartyVisitIs
<1>3. w \in S \cup {Nobody} /\ (kind # "killer" => w \in {player, Nobody})
      /\ (kind = "halve_it" => w = Nobody)
  BY PartyVisitIs DEF PartyGames
<1>4. kind # "halve_it" => v.won = w
  BY PaddedIs
<1> HIDE DEF k, v, w
<1>5. /\ k.party \in PartyType(S)
      /\ k.won = IF v.won # Nobody THEN v.won ELSE Decided(kind, k.party)
      /\ k.party.turns = v.party.turns + (IF kind = "killer" THEN 0 ELSE 1)
      /\ k.party.lives = v.party.lives
  BY <1>1, <1>2, KeepVisitIs
<1>6. /\ Decided(kind, k.party) \in S \cup {Tied, Nobody}
      /\ kind = "killer" => Decided(kind, k.party) = Nobody
  BY <1>5, DecidedIs
<1>7. Alive(S, k.party) = Alive(S, v.party)
  BY <1>5 DEF Alive
<1>8. v.party.turns \in Nat
  BY <1>2 DEF PartyType
<1>9. k.won \in S \cup {Tied, Nobody}
  BY <1>2, <1>5, <1>6
<1>10. kind # "killer" /\ k.won = Nobody => k.party.turns # 0 /\ Decided(kind, k.party) = Nobody
  BY <1>5, <1>8
<1>11. kind = "killer" => k.won = w
  BY <1>2, <1>4, <1>5, <1>6
<1>12. w # Nobody => k.won = w
  BY <1>3, <1>4, <1>5
<1>13. kind = "killer" /\ k.won = Nobody /\ Cardinality(Alive(S, party)) > 1 =>
            Cardinality(Alive(S, k.party)) > 1
  BY <1>2, <1>5, <1>7
<1> QED BY <1>3, <1>5, <1>9, <1>10, <1>11, <1>12, <1>13 DEF k, w

\* The remainder of a sum of two seats.
LEMMA SumOfSeats ==
    \A size \in 1..4 : \A x \in 0..(2 * size - 1) :
        x % size = IF x < size THEN x ELSE x - size
<1> SUFFICES ASSUME NEW size \in 1..4, NEW x \in 0..(2 * size - 1)
             PROVE  x % size = IF x < size THEN x ELSE x - size
  OBVIOUS
<1>1. CASE size = 1
  BY <1>1
<1>2. CASE size = 2
  BY <1>2
<1>3. CASE size = 3
  BY <1>3
<1>4. CASE size = 4
  BY <1>4
<1> QED BY <1>1, <1>2, <1>3, <1>4

\* The next player can play; but for Killer it is the next seat.
LEMMA PartyNextIs ==
    ASSUME NEW S, SeatsAre(S), NEW party \in PartyType(S), NEW player \in S, NEW kind
    PROVE  LET next == PartyNext(kind, party, player)
           IN  /\ next \in S
               /\ kind # "killer" => next = (player + 1) % Cardinality(S)
               /\ kind = "killer" /\ Cardinality(Alive(S, party)) > 1 =>
                     IF Choosing(party) THEN party.numbers[next] = NoNumber
                     ELSE party.lives[next] > 0
<1> DEFINE size == Cardinality(S)
           after(i) == (player + i) % size
           fits(p) == IF Choosing(party) THEN party.numbers[p] = NoNumber ELSE party.lives[p] > 0
           able == {i \in 1..size : fits(after(i))}
           next == PartyNext(kind, party, player)
<1>1. Seats(party) = S
  BY DEF Seats, PartyType
<1>2. size \in 1..4 /\ S = 0..(size - 1) /\ player \in 0..(size - 1)
  BY SeatsParts
<1>3. next = IF kind # "killer" THEN after(1)
             ELSE IF (Choosing(party) /\ party.numbers[player] = NoNumber) \/ able = {}
             THEN player ELSE after(First(able))
  <2>1. able = {i \in 1..size : IF Choosing(party) THEN party.numbers[after(i)] = NoNumber
                                ELSE party.lives[after(i)] > 0}
    OBVIOUS
  <2> QED BY <1>1, <2>1 DEF PartyNext
<1> HIDE DEF size, fits
<1>4. \A i \in 1..size : after(i) \in S
  <2> SUFFICES ASSUME NEW i \in 1..size
               PROVE  (player + i) % size \in S
    OBVIOUS
  <2>1. player + i \in 0..(2 * size - 1)
    BY <1>2
  <2>2. (player + i) % size = IF player + i < size THEN player + i ELSE player + i - size
    BY <1>2, <2>1, SumOfSeats
  <2> QED BY <1>2, <2>1, <2>2
<1>5. \A p \in S : \E i \in 1..size : after(i) = p
  <2> SUFFICES ASSUME NEW p \in S
               PROVE  \E i \in 1..size : after(i) = p
    OBVIOUS
  <2> DEFINE i == IF p > player THEN p - player ELSE p - player + size
  <2>1. i \in 1..size /\ player + i \in 0..(2 * size - 1)
    BY <1>2
  <2>2. (player + i) % size = IF player + i < size THEN player + i ELSE player + i - size
    BY <1>2, <2>1, SumOfSeats
  <2>3. (IF player + i < size THEN player + i ELSE player + i - size) = p
    BY <1>2
  <2> HIDE DEF i
  <2>4. after(i) = p
    BY <2>2, <2>3
  <2> QED BY <2>1, <2>4
<1>6. able # {} => First(able) \in able
  <2>1. able \subseteq Nat
    OBVIOUS
  <2> HIDE DEF able
  <2> QED BY <2>1, FirstIs
<1>7. able # {} => after(First(able)) \in S /\ fits(after(First(able)))
  <2> HIDE DEF after
  <2> QED BY <1>4, <1>6
<1>8. next \in S
  <2>1. 1 \in 1..size
    BY <1>2
  <2>2. after(1) \in S
    <3> HIDE DEF after
    <3> QED BY <1>4, <2>1
  <2> HIDE DEF after, able
  <2> QED BY <1>3, <1>7, <2>2
<1>9. kind # "killer" => next = (player + 1) % Cardinality(S)
  BY <1>3 DEF size
<1>10. ASSUME kind = "killer", Cardinality(Alive(S, party)) > 1
       PROVE  fits(next)
  <2>1. \E p \in S : fits(p)
    <3>1. CASE Choosing(party)
      BY <1>1, <3>1 DEF Choosing, fits
    <3>2. CASE ~Choosing(party)
      <4>1. Alive(S, party) # {}
        BY <1>10, FS_EmptySet
      <4> QED BY <3>2, <4>1 DEF Alive, fits
    <3> QED BY <3>1, <3>2
  <2>2. able # {}
    <3>1. PICK p \in S : fits(p)
      BY <2>1
    <3>2. PICK i \in 1..size : after(i) = p
      BY <1>5
    <3>3. i \in able
      <4> HIDE DEF after
      <4> QED BY <3>1, <3>2
    <3> QED BY <3>3
  <2>3. CASE Choosing(party) /\ party.numbers[player] = NoNumber
    <3>1. next = player
      BY <1>3, <1>10, <2>3
    <3> HIDE DEF next
    <3> QED BY <2>3, <3>1 DEF fits
  <2>4. CASE ~(Choosing(party) /\ party.numbers[player] = NoNumber)
    <3>1. next = after(First(able))
      BY <1>3, <1>10, <2>2, <2>4
    <3> HIDE DEF next, able, after
    <3> QED BY <1>7, <2>2, <3>1
  <2> QED BY <2>3, <2>4
<1>11. kind = "killer" /\ Cardinality(Alive(S, party)) > 1 =>
          IF Choosing(party) THEN party.numbers[next] = NoNumber ELSE party.lives[next] > 0
  BY <1>10 DEF fits
<1> HIDE DEF next
<1> QED BY <1>8, <1>9, <1>11 DEF next

-----------------------------------------------------------------------------
(* The bull-off.                                                           *)

\* A bull-off that goes on, after the dart of a player: the others still throw,
\* or the closest throw again.
BullOffGoes(bulling, thrower, next) ==
    \/ /\ next.players = bulling.players
       /\ DOMAIN next.distances = DOMAIN bulling.distances \cup {thrower}
    \/ /\ next.players \subseteq bulling.players
       /\ DOMAIN next.distances = {}
       /\ bulling.players = DOMAIN bulling.distances \cup {thrower}

\* Somebody throws, and the dart decides the bull-off or it goes on.
LEMMA BullOffBookIs ==
    ASSUME NEW S, SeatsAre(S), NEW bulling \in BullOffs(S), NEW bed, Score(bed) \in Nat
    PROVE  LET k == BullOffBook(bulling, bed)
               thrower == Thrower(bulling)
           IN  /\ thrower \in bulling.players \ DOMAIN bulling.distances /\ thrower \in S
               /\ k.won \in S \cup {Nobody}
               /\ k.won = Nobody =>
                     k.bulling \in BullOffs(S) /\ BullOffGoes(bulling, thrower, k.bulling)
<1> DEFINE k == BullOffBook(bulling, bed)
           thrower == Thrower(bulling)
           threw == DOMAIN bulling.distances \cup {thrower}
           distances == [p \in threw |-> IF p = thrower THEN Distance(bed) ELSE bulling.distances[p]]
           closest == {p \in threw : \A q \in threw : distances[p] <= distances[q]}
           more == [bulling EXCEPT !.distances = distances]
<1>1. /\ bulling.players \subseteq S /\ DOMAIN bulling.distances \subseteq bulling.players
      /\ DOMAIN bulling.distances # bulling.players
      /\ \A p \in DOMAIN bulling.distances : bulling.distances[p] \in Nat
      /\ bulling = [players |-> bulling.players, distances |-> bulling.distances]
  BY DEF BullOffs
<1>2. S \subseteq Nat /\ Nobody \notin S
  BY SeatsParts
<1>3. thrower \in bulling.players \ DOMAIN bulling.distances
  <2> DEFINE left == bulling.players \ DOMAIN bulling.distances
  <2>1. left # {} /\ left \subseteq Nat
    BY <1>1, <1>2
  <2> HIDE DEF left
  <2>2. First(left) \in left
    BY <2>1, FirstIs
  <2> QED BY <2>2 DEF Thrower, left
<1>4. k = IF threw # bulling.players THEN [bulling |-> more, won |-> Nobody]
          ELSE IF Cardinality(closest) = 1 THEN [bulling |-> bulling, won |-> First(closest)]
          ELSE [bulling |-> BullOff(closest), won |-> Nobody]
  BY DEF BullOffBook
<1>5. Distance(bed) \in Nat
  BY DEF Distance, Far
<1> HIDE DEF thrower
<1>6. threw \subseteq S /\ threw \subseteq bulling.players /\ threw # {}
  BY <1>1, <1>3
<1>7. distances \in [threw -> Nat]
  BY <1>1, <1>5
<1> HIDE DEF distances
<1>8. closest # {} /\ closest \subseteq threw
  <2> DEFINE D == {distances[p] : p \in threw}
  <2>1. D \subseteq Nat /\ D # {}
    BY <1>6, <1>7
  <2> HIDE DEF D
  <2>2. First(D) \in D /\ \A d \in D : First(D) <= d
    BY <2>1, FirstIs
  <2>3. PICK p \in threw : distances[p] = First(D)
    BY <2>2 DEF D
  <2>4. \A q \in threw : distances[p] <= distances[q]
    BY <2>2, <2>3 DEF D
  <2> QED BY <2>4
<1> HIDE DEF k, closest
<1>9. CASE threw # bulling.players
  <2>1. k.bulling = more /\ k.won = Nobody
    BY <1>4, <1>9
  <2>2. more = [players |-> bulling.players, distances |-> distances]
    BY <1>1
  <2> HIDE DEF more
  <2>3. more.players = bulling.players /\ more.distances = distances
    BY <2>2
  <2>4. DOMAIN distances = threw /\ distances \in UNION {[D -> Nat] : D \in SUBSET S}
    BY <1>6, <1>7
  <2>5. more \in BullOffs(S)
    BY <1>1, <1>6, <1>9, <2>2, <2>3, <2>4 DEF BullOffs
  <2>6. BullOffGoes(bulling, thrower, more)
    BY <2>3, <2>4 DEF BullOffGoes
  <2> QED BY <1>1, <1>3, <2>1, <2>5, <2>6 DEF k, thrower
<1>10. CASE threw = bulling.players /\ Cardinality(closest) = 1
  <2>1. k.won = First(closest)
    BY <1>4, <1>10
  <2>2. First(closest) \in S
    BY <1>2, <1>6, <1>8, FirstIs
  <2> QED BY <1>1, <1>2, <1>3, <2>1, <2>2 DEF k, thrower
<1>11. CASE threw = bulling.players /\ Cardinality(closest) # 1
  <2>1. k.bulling = BullOff(closest) /\ k.won = Nobody
    BY <1>4, <1>11
  <2>2. BullOff(closest).players = closest /\ DOMAIN BullOff(closest).distances = {}
    BY DEF BullOff
  <2>3. BullOff(closest) \in BullOffs(S)
    <3>1. <<>> \in [{} -> Nat] /\ DOMAIN <<>> = {} /\ {} \in SUBSET S
      OBVIOUS
    <3>2. <<>> \in UNION {[D -> Nat] : D \in SUBSET S}
      BY <3>1
    <3> QED BY <1>6, <1>8, <3>1, <3>2 DEF BullOff, BullOffs
  <2>4. BullOffGoes(bulling, thrower, BullOff(closest))
    BY <1>8, <1>11, <2>2 DEF BullOffGoes
  <2> QED BY <1>1, <1>3, <2>1, <2>3, <2>4 DEF k, thrower
<1> QED BY <1>9, <1>10, <1>11
=============================================================================
